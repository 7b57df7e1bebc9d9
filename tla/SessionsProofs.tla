--------------------------- MODULE SessionsProofs ---------------------------
(***************************************************************************)
(* Proofs about Sessions, for every set of tokens, requests and logouts    *)
(* and every length of session, cache entry and request.                   *)
(***************************************************************************)
EXTENDS Sessions, TLAPS

-----------------------------------------------------------------------------
(* The inductive invariant.                                                *)

\* A session was begun for the token.
Begun(t) == session[t].expires # Never

\* A row, an entry, a request and a logout all belong to a session that began,
\* and carry its expiry.
RowTraced(t) ==
    /\ Begun(t) <=> session[t].live \/ gone[t] # Never
    /\ session[t].live => gone[t] = Never
    /\ gone[t] <= now
    /\ cache[t].dies # Never => Begun(t) /\ cache[t].expires = session[t].expires

AuthTraced(r) == auth[r].pc # "idle" =>
    /\ auth[r].token \in Tokens /\ Begun(auth[r].token)
    /\ auth[r].start \in Nat /\ auth[r].start <= now
    /\ auth[r].pc \in {"fetched", "filling", "checking", "granted"} =>
          auth[r].expires = session[auth[r].token].expires
    /\ auth[r].pc = "filling" =>
          /\ auth[r].ttl \in 1..CacheTTL
          /\ auth[r].start + auth[r].ttl <= auth[r].expires
    /\ auth[r].pc = "granted" => auth[r].active /\ auth[r].start < auth[r].expires

LogoutTraced(l) == logout[l].pc # "idle" =>
    logout[l].token \in Tokens /\ Begun(logout[l].token)

Traced ==
    /\ inactive <= now
    /\ \A t \in Tokens : RowTraced(t)
    /\ \A r \in Requests : AuthTraced(r)
    /\ \A l \in Logouts : LogoutTraced(l)

\* No entry is kept for long, whoever wrote it.
Brief ==
    \A t \in Tokens :
        /\ cache[t].dies <= now + CacheTTL
        /\ cache[t].dies # Never => cache[t].dies < session[t].expires + RequestTimeout

\* A change leaves behind requests that read the row before it, and entries and
\* requests that go back to one of those.
ReadBefore(r, change) ==
    /\ auth[r].pc \in {"fetched", "filling"} => auth[r].start <= change
    /\ auth[r].pc \in {"checking", "granted"} => auth[r].start < change + Grace

\* What is left of a session that was logged out.
Waning ==
    \A t \in Tokens : gone[t] # Never =>
        /\ cache[t].dies < gone[t] + Grace
        /\ \A r \in Requests : auth[r].token = t => ReadBefore(r, gone[t])

\* What is left of an account that was deactivated.
Fading ==
    inactive # Never =>
        /\ \A t \in Tokens : cache[t].active => cache[t].dies < inactive + Grace
        /\ \A r \in Requests : auth[r].active => ReadBefore(r, inactive)

Inv == SessionsTypeOK /\ Traced /\ Brief /\ Waning /\ Fading
-----------------------------------------------------------------------------
(* Types.                                                                  *)

\* The types hold at the start.
LEMMA TypesInit == Init => SessionsTypeOK
BY NoTokenAssumption DEF Init, SessionsTypeOK, Times, Never, Row, Entry, NoEntry, Auth,
   AuthSteps, IdleAuth, Logout, IdleLogout

\* A request that moves on, is refused, or has found its session keeps the type
\* of auth.
LEMMA MoveTypes ==
    ASSUME SessionsTypeOK, NEW r \in Requests, NEW pc \in AuthSteps,
           NEW expires \in Times, NEW active \in BOOLEAN,
           Goto(r, pc) \/ Refuse(r) \/ Found(r, expires, active, pc)
    PROVE  auth' \in [Requests -> Auth]
<1>1. IdleAuth \in Auth
  BY DEF IdleAuth, Auth, AuthSteps, Times, Never
<1>2. ASSUME NEW a \in Auth
      PROVE  /\ [a EXCEPT !.pc = pc] \in Auth
             /\ [a EXCEPT !.pc = pc, !.expires = expires, !.active = active] \in Auth
  BY DEF Auth
<1>3. auth \in [Requests -> Auth]
  BY DEF SessionsTypeOK
<1>4. CASE Goto(r, pc)
  BY <1>2, <1>3, <1>4 DEF Goto
<1>5. CASE Refuse(r)
  BY <1>1, <1>3, <1>5 DEF Refuse
<1>6. CASE Found(r, expires, active, pc)
  BY <1>2, <1>3, <1>6 DEF Found
<1> QED
  BY <1>4, <1>5, <1>6

\* Every step of a request keeps the types.
LEMMA TypesAuthenticate ==
    ASSUME SessionsTypeOK, Traced, NEW r \in Requests, Authenticate(r)
    PROVE  SessionsTypeOK'
<1>1. ASSUME NEW t \in Tokens, StartRequest(r, t)
      PROVE  SessionsTypeOK'
  <2>1. ASSUME NEW a \in Auth
        PROVE  [a EXCEPT !.pc = "looking", !.token = t, !.start = now] \in Auth
    BY DEF Auth, AuthSteps, Times, SessionsTypeOK
  <2> QED
    BY <1>1, <2>1 DEF StartRequest, SessionsTypeOK
<1>2. CASE GetSessionUser(r)
  <2>1. auth[r].token \in Tokens
    BY <1>2 DEF GetSessionUser, Traced, AuthTraced
  <2>2. auth' \in [Requests -> Auth]
    BY <1>2, <2>1, MoveTypes DEF GetSessionUser, SessionsTypeOK, Entry, AuthSteps
  <2> QED
    BY <1>2, <2>2 DEF GetSessionUser, SessionsTypeOK
<1>3. CASE FetchSessionUser(r)
  <2>1. auth[r].token \in Tokens
    BY <1>3 DEF FetchSessionUser, Traced, AuthTraced
  <2>2. auth' \in [Requests -> Auth]
    BY <1>3, <2>1, MoveTypes DEF FetchSessionUser, SessionsTypeOK, Row, AuthSteps
  <2> QED
    BY <1>3, <2>2 DEF FetchSessionUser, SessionsTypeOK
<1>4. CASE TimeEntry(r)
  <2>1. EntryTTL(auth[r].expires) \in Int
    BY SessionTimeAssumption DEF EntryTTL, SessionsTypeOK, Auth, Times, Never
  <2>2. ASSUME NEW a \in Auth, NEW ttl \in Int, ttl > 0
        PROVE  [a EXCEPT !.pc = "filling", !.ttl = ttl] \in Auth
    <3>1. ttl \in Times \ {0} /\ "filling" \in AuthSteps
      BY <2>2 DEF Times, AuthSteps
    <3> QED
      BY <3>1 DEF Auth
  <2>3. auth' \in [Requests -> Auth]
    <3>1. CASE Goto(r, "checking")
      BY <3>1, MoveTypes DEF AuthSteps, Times, Never
    <3>2. CASE /\ EntryTTL(auth[r].expires) > 0
               /\ auth' = [auth EXCEPT ![r].pc = "filling", ![r].ttl = EntryTTL(auth[r].expires)]
      BY <2>1, <2>2, <3>2 DEF SessionsTypeOK
    <3> QED
      BY <1>4, <3>1, <3>2 DEF TimeEntry
  <2> QED
    BY <1>4, <2>3 DEF TimeEntry, SessionsTypeOK
<1>5. CASE PutSessionUser(r)
  <2>1. /\ auth[r].token \in Tokens
        /\ now + auth[r].ttl \in Times
    BY <1>5, SessionTimeAssumption DEF PutSessionUser, Traced, AuthTraced, SessionsTypeOK, Times
  <2>2. ASSUME NEW a \in Auth
        PROVE  [a EXCEPT !.pc = "checking", !.ttl = Never] \in Auth
    <3>1. Never \in Times \ {0} /\ "checking" \in AuthSteps
      BY DEF Times, Never, AuthSteps
    <3> QED
      BY <3>1 DEF Auth
  <2>3. auth' \in [Requests -> Auth]
    BY <1>5, <2>2 DEF PutSessionUser, SessionsTypeOK
  <2>4. cache' \in [Tokens -> Entry]
    <3>1. auth[r].expires \in Times /\ auth[r].active \in BOOLEAN
      BY DEF SessionsTypeOK, Auth
    <3>2. [dies |-> now + auth[r].ttl, expires |-> auth[r].expires,
           active |-> auth[r].active] \in Entry
      BY <2>1, <3>1 DEF Entry
    <3> QED
      BY <1>5, <2>1, <3>2 DEF PutSessionUser, SessionsTypeOK
  <2> QED
    BY <1>5, <2>3, <2>4 DEF PutSessionUser, SessionsTypeOK
<1>6. CASE CheckSession(r) \/ EndRequest(r)
  <2>1. auth' \in [Requests -> Auth]
    <3>1. Goto(r, "granted") \/ Refuse(r)
      BY <1>6 DEF CheckSession, EndRequest, Refuse
    <3> QED
      BY <3>1, MoveTypes DEF AuthSteps, Times, Never
  <2> QED
    BY <1>6, <2>1 DEF CheckSession, EndRequest, SessionsTypeOK
<1> QED
  BY <1>1, <1>2, <1>3, <1>4, <1>5, <1>6 DEF Authenticate

\* Every step of a logout keeps them.
LEMMA TypesLogOut ==
    ASSUME SessionsTypeOK, Traced, NEW l \in Logouts, LogOut(l)
    PROVE  SessionsTypeOK'
<1>1. ASSUME NEW t \in Tokens, StartLogout(l, t)
      PROVE  SessionsTypeOK'
  BY <1>1 DEF StartLogout, SessionsTypeOK, Logout, Times
<1>2. CASE EvictSession(l)
  <2>1. NoEntry \in Entry
    BY DEF NoEntry, Entry, Times, Never
  <2>2. cache' \in [Tokens -> Entry]
    BY <1>2, <2>1 DEF EvictSession, SessionsTypeOK
  <2>3. logout' \in [Logouts -> Logout]
    BY <1>2 DEF EvictSession, SessionsTypeOK, Logout
  <2> QED
    BY <1>2, <2>2, <2>3 DEF EvictSession, SessionsTypeOK
<1>3. CASE DeleteSession(l)
  <2>1. IdleLogout \in Logout
    BY DEF IdleLogout, Logout, Times, Never
  <2>2. session' \in [Tokens -> Row] /\ gone' \in [Tokens -> Times]
    <3>1. ASSUME NEW row \in Row
          PROVE  [row EXCEPT !.live = FALSE] \in Row
      BY DEF Row
    <3>2. now \in Times
      BY DEF SessionsTypeOK, Times
    <3> QED
      BY <1>3, <3>1, <3>2 DEF DeleteSession, SessionsTypeOK
  <2> QED
    BY <1>3, <2>1, <2>2 DEF DeleteSession, SessionsTypeOK
<1> QED
  BY <1>1, <1>2, <1>3 DEF LogOut

\* Every step keeps them.
LEMMA TypesStep == SessionsTypeOK /\ Traced /\ [Next]_vars => SessionsTypeOK'
<1> SUFFICES ASSUME SessionsTypeOK, Traced, [Next]_vars
             PROVE  SessionsTypeOK'
  OBVIOUS
<1>1. ASSUME NEW t \in Tokens, Login(t)
      PROVE  SessionsTypeOK'
  <2>1. session' \in [Tokens -> Row]
    BY <1>1, SessionTimeAssumption DEF Login, SessionsTypeOK, Row, Times
  <2> QED
    BY <1>1, <2>1 DEF Login, SessionsTypeOK
<1>2. ASSUME NEW t \in Tokens, LoseEntry(t)
      PROVE  SessionsTypeOK'
  <2>1. NoEntry \in Entry
    BY DEF NoEntry, Entry, Times, Never
  <2> QED
    BY <1>2, <2>1 DEF LoseEntry, SessionsTypeOK
<1>3. CASE Deactivate \/ Tick \/ UNCHANGED vars
  BY <1>3 DEF Deactivate, Tick, vars, SessionsTypeOK, Times
<1> QED
  BY <1>1, <1>2, <1>3, TypesAuthenticate, TypesLogOut DEF Next
-----------------------------------------------------------------------------
(* Where tokens, entries and requests come from.                           *)

\* What the steps of a request do to its record, field by field.
LEMMA MoveFields ==
    ASSUME SessionsTypeOK, NEW r \in Requests, NEW pc, Goto(r, pc)
    PROVE  /\ auth'[r].pc = pc
           /\ auth'[r].token = auth[r].token /\ auth'[r].start = auth[r].start
           /\ auth'[r].expires = auth[r].expires /\ auth'[r].active = auth[r].active
           /\ \A q \in Requests : q # r => auth'[q] = auth[q]
BY DEF SessionsTypeOK, Auth, Goto

\* The same of a session found.
LEMMA FoundFields ==
    ASSUME SessionsTypeOK, NEW r \in Requests, NEW expires, NEW active, NEW pc,
           Found(r, expires, active, pc)
    PROVE  /\ auth'[r].pc = pc
           /\ auth'[r].token = auth[r].token /\ auth'[r].start = auth[r].start
           /\ auth'[r].expires = expires /\ auth'[r].active = active
           /\ \A q \in Requests : q # r => auth'[q] = auth[q]
BY DEF SessionsTypeOK, Auth, Found

\* And of a request that starts, takes its TTL or fills the cache.
LEMMA OtherFields ==
    ASSUME SessionsTypeOK, NEW r \in Requests
    PROVE  /\ \A t \in Tokens : StartRequest(r, t) =>
                auth'[r].pc = "looking" /\ auth'[r].token = t /\ auth'[r].start = now
           /\ TimeEntry(r) /\ auth'[r].pc = "filling" =>
                auth'[r].ttl = EntryTTL(auth[r].expires) /\ auth'[r].ttl > 0
           /\ TimeEntry(r) =>
                /\ auth'[r].pc \in {"filling", "checking"}
                /\ auth'[r].token = auth[r].token /\ auth'[r].start = auth[r].start
                /\ auth'[r].expires = auth[r].expires /\ auth'[r].active = auth[r].active
           /\ PutSessionUser(r) =>
                /\ auth'[r].pc = "checking"
                /\ auth'[r].token = auth[r].token /\ auth'[r].start = auth[r].start
                /\ auth'[r].expires = auth[r].expires /\ auth'[r].active = auth[r].active
           /\ (EndRequest(r) \/ Refuse(r)) =>
                auth'[r].pc = "idle" /\ auth'[r].active = FALSE
           /\ Authenticate(r) => \A q \in Requests : q # r => auth'[q] = auth[q]
<1>1. \A t \in Tokens : StartRequest(r, t) =>
        auth'[r].pc = "looking" /\ auth'[r].token = t /\ auth'[r].start = now
  BY DEF StartRequest, SessionsTypeOK, Auth
<1>2. TimeEntry(r) =>
        /\ auth'[r].pc \in {"filling", "checking"}
        /\ auth'[r].token = auth[r].token /\ auth'[r].start = auth[r].start
        /\ auth'[r].expires = auth[r].expires /\ auth'[r].active = auth[r].active
  BY DEF TimeEntry, Goto, SessionsTypeOK, Auth
<1>3. TimeEntry(r) /\ auth'[r].pc = "filling" =>
        auth'[r].ttl = EntryTTL(auth[r].expires) /\ auth'[r].ttl > 0
  BY DEF TimeEntry, Goto, SessionsTypeOK, Auth
<1>4. PutSessionUser(r) =>
        /\ auth'[r].pc = "checking"
        /\ auth'[r].token = auth[r].token /\ auth'[r].start = auth[r].start
        /\ auth'[r].expires = auth[r].expires /\ auth'[r].active = auth[r].active
  BY DEF PutSessionUser, SessionsTypeOK, Auth
<1>5. (EndRequest(r) \/ Refuse(r)) => auth'[r].pc = "idle" /\ auth'[r].active = FALSE
  BY DEF EndRequest, Refuse, IdleAuth, SessionsTypeOK
<1>6. Authenticate(r) => \A q \in Requests : q # r => auth'[q] = auth[q]
  BY DEF Authenticate, StartRequest, GetSessionUser, FetchSessionUser, TimeEntry,
     PutSessionUser, CheckSession, EndRequest, Goto, Found, Refuse, SessionsTypeOK
<1> QED
  BY <1>1, <1>2, <1>3, <1>4, <1>5, <1>6

\* A request keeps to what it read.
LEMMA TracedAuthenticate ==
    ASSUME SessionsTypeOK, Traced, NEW r \in Requests, Authenticate(r)
    PROVE  Traced'
<1>0. UNCHANGED <<now, session, gone, inactive, logout>>
  BY DEF Authenticate, StartRequest, GetSessionUser, FetchSessionUser, TimeEntry,
     PutSessionUser, CheckSession, EndRequest
<1>1. ASSUME NEW t \in Tokens
      PROVE  RowTraced(t)'
  <2>1. CASE cache'[t] = cache[t]
    BY <1>0, <2>1 DEF Traced, RowTraced, Begun
  <2>2. CASE cache'[t] # cache[t]
    <3>1. PutSessionUser(r)
      BY <2>2 DEF Authenticate, StartRequest, GetSessionUser, FetchSessionUser,
         TimeEntry, CheckSession, EndRequest
    <3>2. t = auth[r].token /\ cache'[t].expires = auth[r].expires
      BY <2>2, <3>1 DEF PutSessionUser, SessionsTypeOK
    <3>3. Begun(t) /\ auth[r].expires = session[t].expires
      BY <3>1, <3>2 DEF PutSessionUser, Traced, AuthTraced
    <3> QED
      BY <1>0, <3>2, <3>3 DEF Traced, RowTraced, Begun
  <2> QED
    BY <2>1, <2>2
<1>2. ASSUME NEW q \in Requests, q # r
      PROVE  AuthTraced(q)'
  <2>1. auth'[q] = auth[q]
    BY <1>2, OtherFields
  <2> QED
    BY <1>0, <2>1 DEF Traced, AuthTraced, Begun
<1>3. AuthTraced(r)'
  <2> USE DEF Traced, AuthTraced, Begun
  <2>1. ASSUME NEW t \in Tokens, StartRequest(r, t)
        PROVE  AuthTraced(r)'
    <3>1. auth'[r].pc = "looking" /\ auth'[r].token = t /\ auth'[r].start = now
      BY <2>1, OtherFields
    <3>2. Begun(t) /\ now \in Nat
      BY <2>1 DEF StartRequest, RowTraced, SessionsTypeOK
    <3> QED
      BY <1>0, <3>1, <3>2
  <2>2. CASE GetSessionUser(r)
    <3>1. CASE Goto(r, "missed")
      BY <1>0, <2>2, <3>1, MoveFields DEF GetSessionUser
    <3>2. CASE /\ Cached(auth[r].token)
               /\ Found(r, cache[auth[r].token].expires, cache[auth[r].token].active, "checking")
      <4>1. cache[auth[r].token].dies # Never
        BY <3>2, <2>2 DEF Cached, Never, SessionsTypeOK, GetSessionUser
      <4>2. cache[auth[r].token].expires = session[auth[r].token].expires
        BY <4>1, <2>2 DEF GetSessionUser, RowTraced
      <4> QED
        BY <1>0, <2>2, <3>2, <4>2, FoundFields DEF GetSessionUser
    <3> QED
      BY <2>2, <3>1, <3>2 DEF GetSessionUser
  <2>3. CASE FetchSessionUser(r)
    <3>1. CASE Refuse(r)
      BY <3>1, OtherFields
    <3>2. CASE Found(r, session[auth[r].token].expires, inactive = Never, "fetched")
      BY <1>0, <2>3, <3>2, FoundFields DEF FetchSessionUser
    <3> QED
      BY <2>3, <3>1, <3>2 DEF FetchSessionUser
  <2>4. CASE TimeEntry(r)
    <3>1. /\ auth[r].expires \in Int /\ now \in Int /\ CacheTTL \in Int
          /\ auth[r].pc = "fetched"
      BY <2>4, SessionTimeAssumption DEF SessionsTypeOK, Auth, Times, Never, TimeEntry
    <3>2. auth'[r].pc = "filling" =>
            /\ auth'[r].ttl \in 1..CacheTTL
            /\ auth[r].start + auth'[r].ttl <= auth[r].expires
      <4>1. SUFFICES ASSUME auth'[r].pc = "filling"
                     PROVE  /\ auth'[r].ttl \in 1..CacheTTL
                            /\ auth[r].start + auth'[r].ttl <= auth[r].expires
        OBVIOUS
      <4>2. auth'[r].ttl = EntryTTL(auth[r].expires) /\ auth'[r].ttl > 0
        BY <2>4, <4>1, OtherFields
      <4>3. auth[r].start \in Nat /\ auth[r].start <= now
        BY <3>1
      <4> QED
        BY <3>1, <4>2, <4>3 DEF EntryTTL
    <3> QED
      BY <1>0, <2>4, <3>1, <3>2, OtherFields
  <2>5. CASE PutSessionUser(r)
    BY <1>0, <2>5, OtherFields DEF PutSessionUser
  <2>6. CASE CheckSession(r)
    <3>1. CASE Refuse(r)
      BY <3>1, OtherFields
    <3>2. CASE now < auth[r].expires /\ auth[r].active /\ Goto(r, "granted")
      <4>1. auth[r].start < auth[r].expires
        BY <2>6, <3>2 DEF CheckSession, SessionsTypeOK, Auth, Times, Never
      <4> QED
        BY <1>0, <2>6, <3>2, <4>1, MoveFields DEF CheckSession
    <3> QED
      BY <2>6, <3>1, <3>2 DEF CheckSession
  <2>7. CASE EndRequest(r)
    BY <2>7, OtherFields
  <2> QED
    BY <2>1, <2>2, <2>3, <2>4, <2>5, <2>6, <2>7 DEF Authenticate
<1> QED
  BY <1>0, <1>1, <1>2, <1>3 DEF Traced, LogoutTraced, Begun

\* Sessions begin once and end once.
LEMMA TracedStep == SessionsTypeOK /\ Traced /\ [Next]_vars => Traced'
<1> SUFFICES ASSUME SessionsTypeOK, Traced, [Next]_vars
             PROVE  Traced'
  OBVIOUS
<1> USE DEF Traced, RowTraced, AuthTraced, LogoutTraced, Begun
<1>1. ASSUME NEW t \in Tokens, Login(t)
      PROVE  Traced'
  <2>1. /\ session'[t].live = TRUE /\ session'[t].expires # Never
        /\ ~Begun(t)
        /\ \A u \in Tokens : u # t => session'[u] = session[u]
    BY <1>1, SessionTimeAssumption DEF Login, SessionsTypeOK, Never
  <2>2. /\ cache[t].dies = Never
        /\ \A r \in Requests : auth[r].pc # "idle" => auth[r].token # t
        /\ \A l \in Logouts : logout[l].pc # "idle" => logout[l].token # t
    BY <2>1
  <2> QED
    BY <1>1, <2>1, <2>2 DEF Login
<1>2. ASSUME NEW t \in Tokens, LoseEntry(t)
      PROVE  Traced'
  BY <1>2 DEF LoseEntry, NoEntry, SessionsTypeOK
<1>3. ASSUME NEW l \in Logouts, NEW t \in Tokens, StartLogout(l, t)
      PROVE  Traced'
  BY <1>3 DEF StartLogout, SessionsTypeOK
<1>4. ASSUME NEW l \in Logouts, EvictSession(l)
      PROVE  Traced'
  <2>1. \A k \in Logouts : logout'[k].token = logout[k].token
                          /\ (logout'[k].pc # "idle" => logout[k].pc # "idle")
    BY <1>4 DEF EvictSession, SessionsTypeOK, Logout
  <2>2. \A t \in Tokens : cache'[t] \in {cache[t], NoEntry}
    BY <1>4 DEF EvictSession, SessionsTypeOK
  <2> QED
    BY <1>4, <2>1, <2>2 DEF EvictSession, NoEntry
<1>5. ASSUME NEW l \in Logouts, DeleteSession(l)
      PROVE  Traced'
  <2>1. \A k \in Logouts : logout'[k] \in {logout[k], IdleLogout}
    BY <1>5 DEF DeleteSession, SessionsTypeOK
  <2>2. \A t \in Tokens :
          /\ session'[t].expires = session[t].expires
          /\ \/ gone'[t] = gone[t] /\ session'[t].live = session[t].live
             \/ session[t].live /\ gone'[t] = now /\ session'[t].live = FALSE
    BY <1>5 DEF DeleteSession, SessionsTypeOK, Row
  <2>3. now # Never
    BY DEF SessionsTypeOK, Never
  <2> QED
    BY <1>5, <2>1, <2>2, <2>3 DEF DeleteSession, IdleLogout, SessionsTypeOK
<1>6. CASE Deactivate \/ Tick \/ UNCHANGED vars
  BY <1>6 DEF Deactivate, Tick, vars, SessionsTypeOK, Times, Never
<1> QED
  BY <1>1, <1>2, <1>3, <1>4, <1>5, <1>6, TracedAuthenticate DEF Next, LogOut
-----------------------------------------------------------------------------
(* How long what is cached lasts.                                          *)

\* Only a fill writes an entry, and it writes one for less than the cache's TTL
\* and less than the rest of the session and of the request.
LEMMA EntryStep ==
    ASSUME SessionsTypeOK, Traced, [Next]_vars, NEW t \in Tokens
    PROVE  \/ cache'[t] = cache[t]
           \/ cache'[t] = NoEntry
           \/ \E r \in Requests :
                /\ PutSessionUser(r) /\ auth[r].token = t
                /\ cache'[t].dies \in Nat
                /\ cache'[t].dies <= now + CacheTTL
                /\ cache'[t].dies < auth[r].start + RequestTimeout + CacheTTL
                /\ cache'[t].dies < session[t].expires + RequestTimeout
                /\ cache'[t].active = auth[r].active
<1>1. ASSUME NEW r \in Requests, PutSessionUser(r), cache'[t] # cache[t]
      PROVE  /\ auth[r].token = t
             /\ cache'[t].dies \in Nat
             /\ cache'[t].dies <= now + CacheTTL
             /\ cache'[t].dies < auth[r].start + RequestTimeout + CacheTTL
             /\ cache'[t].dies < session[t].expires + RequestTimeout
             /\ cache'[t].active = auth[r].active
  <2>1. /\ auth[r].token = t
        /\ cache'[t].dies = now + auth[r].ttl
        /\ cache'[t].active = auth[r].active
        /\ ~ContextDone(auth[r])
    BY <1>1 DEF PutSessionUser, SessionsTypeOK
  <2>2. /\ auth[r].ttl \in 1..CacheTTL
        /\ auth[r].start \in Nat /\ auth[r].start <= now
        /\ auth[r].start + auth[r].ttl <= auth[r].expires
        /\ auth[r].expires = session[t].expires
    BY <1>1, <2>1 DEF PutSessionUser, Traced, AuthTraced
  <2>3. now \in Nat /\ session[t].expires \in Int
    BY DEF SessionsTypeOK, Row, Times, Never
  <2>4. now < auth[r].start + RequestTimeout
    BY <2>1, <2>2, <2>3, SessionTimeAssumption DEF ContextDone
  <2> QED
    BY <2>1, <2>2, <2>3, <2>4, SessionTimeAssumption
<1>2. CASE \E r \in Requests : PutSessionUser(r)
  BY <1>1, <1>2
<1>3. CASE ~\E r \in Requests : PutSessionUser(r)
  BY <1>3 DEF Next, Login, LoseEntry, Authenticate, StartRequest, GetSessionUser,
     FetchSessionUser, TimeEntry, CheckSession, EndRequest, LogOut, StartLogout,
     EvictSession, DeleteSession, Deactivate, Tick, vars, SessionsTypeOK
<1> QED
  BY <1>2, <1>3

\* What any step may do to the clock, a row and the account.
LEMMA RowStep ==
    ASSUME SessionsTypeOK, Traced, [Next]_vars
    PROVE  /\ now' >= now
           /\ inactive' = inactive \/ (inactive = Never /\ inactive' = now)
           /\ \A t \in Tokens :
                /\ Begun(t) => session'[t].expires = session[t].expires
                /\ gone'[t] = gone[t] \/ (gone[t] = Never /\ gone'[t] = now)
<1>1. now' >= now
  <2>1. now' = now \/ now' = now + 1
    BY DEF Next, Login, LoseEntry, Authenticate, StartRequest, GetSessionUser,
       FetchSessionUser, TimeEntry, PutSessionUser, CheckSession, EndRequest, LogOut,
       StartLogout, EvictSession, DeleteSession, Deactivate, Tick, vars
  <2> QED
    BY <2>1 DEF SessionsTypeOK
<1>2. inactive' = inactive \/ (inactive = Never /\ inactive' = now)
  BY DEF Next, Login, LoseEntry, Authenticate, StartRequest, GetSessionUser,
     FetchSessionUser, TimeEntry, PutSessionUser, CheckSession, EndRequest, LogOut,
     StartLogout, EvictSession, DeleteSession, Deactivate, Tick, vars
<1>3. ASSUME NEW t \in Tokens
      PROVE  /\ Begun(t) => session'[t].expires = session[t].expires
             /\ gone'[t] = gone[t] \/ (gone[t] = Never /\ gone'[t] = now)
  <2>1. ASSUME NEW u \in Tokens, Login(u)
        PROVE  gone' = gone /\ (Begun(t) => session'[t] = session[t])
    BY <2>1 DEF Login, SessionsTypeOK, Traced, RowTraced
  <2>2. ASSUME NEW l \in Logouts, DeleteSession(l)
        PROVE  /\ session'[t].expires = session[t].expires
               /\ gone'[t] = gone[t] \/ (gone[t] = Never /\ gone'[t] = now)
    <3>1. session[t] \in Row /\ (session[t].live => gone[t] = Never)
      BY DEF SessionsTypeOK, Traced, RowTraced
    <3>2. \/ UNCHANGED <<session, gone>>
          \/ /\ session[logout[l].token].live
             /\ session' = [session EXCEPT ![logout[l].token].live = FALSE]
             /\ gone' = [gone EXCEPT ![logout[l].token] = now]
      BY <2>2 DEF DeleteSession
    <3> QED
      BY <3>1, <3>2 DEF SessionsTypeOK, Row
  <2>3. CASE UNCHANGED <<session, gone>>
    BY <2>3
  <2>4. \/ \E u \in Tokens : Login(u)
        \/ \E l \in Logouts : DeleteSession(l)
        \/ UNCHANGED <<session, gone>>
    BY DEF Next, LoseEntry, Authenticate, StartRequest, GetSessionUser,
       FetchSessionUser, TimeEntry, PutSessionUser, CheckSession, EndRequest, LogOut,
       StartLogout, EvictSession, Deactivate, Tick, vars
  <2> QED
    BY <2>1, <2>2, <2>3, <2>4
<1> QED
  BY <1>1, <1>2, <1>3

\* No entry is kept for longer than the cache's TTL from now, nor much longer
\* than its session.
LEMMA BriefStep == SessionsTypeOK /\ Traced /\ Brief /\ [Next]_vars => Brief'
<1> SUFFICES ASSUME SessionsTypeOK, Traced, Brief, [Next]_vars, NEW t \in Tokens
             PROVE  /\ cache'[t].dies <= now' + CacheTTL
                    /\ cache'[t].dies # Never =>
                          cache'[t].dies < session'[t].expires + RequestTimeout
  BY DEF Brief
<1>1. /\ now' >= now
      /\ Begun(t) => session'[t].expires = session[t].expires
  BY RowStep
<1>2. /\ now \in Nat /\ now' \in Nat /\ cache[t].dies \in Int
      /\ session[t].expires \in Int
  BY TypesStep DEF SessionsTypeOK, Row, Entry, Times, Never
<1>3. CASE cache'[t] = cache[t]
  BY <1>1, <1>2, <1>3, SessionTimeAssumption DEF Brief, Traced, RowTraced
<1>4. CASE cache'[t] = NoEntry
  BY <1>2, <1>4, SessionTimeAssumption DEF NoEntry, Never
<1>5. CASE cache'[t].dies \in Nat /\ cache'[t].dies <= now + CacheTTL
            /\ cache'[t].dies < session[t].expires + RequestTimeout
            /\ \E r \in Requests : PutSessionUser(r) /\ auth[r].token = t
  <2>1. Begun(t)
    BY <1>5 DEF PutSessionUser, Traced, AuthTraced
  <2> QED
    BY <1>1, <1>2, <1>5, <2>1, SessionTimeAssumption
<1> QED
  BY <1>3, <1>4, <1>5, EntryStep

\* Where a request's reading of its session comes from: the step before, the
\* row, or an entry.
LEMMA ReadingStep ==
    ASSUME SessionsTypeOK, Traced, [Next]_vars, NEW q \in Requests
    PROVE  LET Same == /\ auth'[q].token = auth[q].token
                       /\ auth'[q].start = auth[q].start
                       /\ auth'[q].active = auth[q].active
               read == {"fetched", "filling"}
               judged == {"checking", "granted"}
           IN  /\ auth'[q].pc \in read =>
                    \/ auth[q].pc \in read /\ Same
                    \/ /\ session[auth'[q].token].live
                       /\ auth'[q].token \in Tokens
                       /\ auth'[q].active = (inactive = Never)
               /\ auth'[q].pc \in judged =>
                    \/ auth[q].pc \in read \cup judged /\ Same
                    \/ /\ Cached(auth'[q].token)
                       /\ auth'[q].token \in Tokens
                       /\ auth'[q].start <= now
                       /\ auth'[q].active = cache[auth'[q].token].active
<1> DEFINE Same == /\ auth'[q].token = auth[q].token
                   /\ auth'[q].start = auth[q].start
                   /\ auth'[q].active = auth[q].active
           Goal == /\ auth'[q].pc \in {"fetched", "filling"} =>
                        \/ auth[q].pc \in {"fetched", "filling"} /\ Same
                        \/ /\ session[auth'[q].token].live
                           /\ auth'[q].token \in Tokens
                           /\ auth'[q].active = (inactive = Never)
                   /\ auth'[q].pc \in {"checking", "granted"} =>
                        \/ auth[q].pc \in {"fetched", "filling", "checking", "granted"} /\ Same
                        \/ /\ Cached(auth'[q].token)
                           /\ auth'[q].token \in Tokens
                           /\ auth'[q].start <= now
                           /\ auth'[q].active = cache[auth'[q].token].active
<1>1. CASE auth'[q] = auth[q]
  BY <1>1
<1>2. CASE \E t \in Tokens : StartRequest(q, t)
  BY <1>2, OtherFields
<1>3. CASE GetSessionUser(q)
  <2>1. auth[q].token \in Tokens /\ auth[q].start <= now
    BY <1>3 DEF GetSessionUser, Traced, AuthTraced
  <2>2. CASE Goto(q, "missed")
    BY <2>2, MoveFields
  <2>3. CASE /\ Cached(auth[q].token)
             /\ Found(q, cache[auth[q].token].expires, cache[auth[q].token].active, "checking")
    BY <2>1, <2>3, FoundFields
  <2> QED
    BY <1>3, <2>2, <2>3 DEF GetSessionUser
<1>4. CASE FetchSessionUser(q)
  <2>1. auth[q].token \in Tokens
    BY <1>4 DEF FetchSessionUser, Traced, AuthTraced
  <2>2. CASE Refuse(q)
    BY <2>2, OtherFields
  <2>3. CASE /\ session[auth[q].token].live
             /\ Found(q, session[auth[q].token].expires, inactive = Never, "fetched")
    BY <2>1, <2>3, FoundFields
  <2> QED
    BY <1>4, <2>2, <2>3 DEF FetchSessionUser
<1>5. CASE TimeEntry(q)
  BY <1>5, OtherFields DEF TimeEntry
<1>6. CASE PutSessionUser(q)
  BY <1>6, OtherFields DEF PutSessionUser
<1>7. CASE CheckSession(q)
  <2>1. CASE Goto(q, "granted")
    BY <1>7, <2>1, MoveFields DEF CheckSession
  <2>2. CASE Refuse(q)
    BY <2>2, OtherFields
  <2> QED
    BY <1>7, <2>1, <2>2 DEF CheckSession
<1>8. CASE EndRequest(q)
  BY <1>8, OtherFields
<1>9. auth'[q] = auth[q] \/ Authenticate(q)
  <2>1. ASSUME NEW r \in Requests, Authenticate(r), r # q
        PROVE  auth'[q] = auth[q]
    BY <2>1, OtherFields
  <2> QED
    BY <2>1 DEF Next, Login, LoseEntry, LogOut, StartLogout, EvictSession, DeleteSession,
       Deactivate, Tick, vars
<1>10. Goal
  BY <1>1, <1>2, <1>3, <1>4, <1>5, <1>6, <1>7, <1>8, <1>9 DEF Authenticate
<1> QED
  BY <1>10

-----------------------------------------------------------------------------
(* What a logout and a deactivation leave behind.                          *)

\* After a row is gone nobody reads it again, and what was read before or is
\* in an entry lasts less than the grace.
LEMMA WaningStep ==
    ASSUME SessionsTypeOK, Traced, Brief, Waning, [Next]_vars
    PROVE  Waning'
<1> SUFFICES ASSUME NEW t \in Tokens, gone'[t] # Never
             PROVE  /\ cache'[t].dies < gone'[t] + Grace
                    /\ \A r \in Requests :
                          auth'[r].token = t => ReadBefore(r, gone[t])'
  BY DEF Waning
<1>1. SessionsTypeOK' /\ Traced'
  BY TypesStep, TracedStep
<1>2. /\ now \in Nat /\ gone[t] \in Int /\ gone'[t] \in Int
      /\ cache[t].dies \in Int /\ RequestTimeout > 0 /\ CacheTTL > 0
      /\ RequestTimeout \in Int /\ CacheTTL \in Int
  BY <1>1, SessionTimeAssumption DEF SessionsTypeOK, Entry, Times, Never
<1>3. gone'[t] = gone[t] \/ (gone[t] = Never /\ gone'[t] = now)
  BY RowStep
<1>4. CASE gone[t] = Never
  <2>1. gone'[t] = now
    BY <1>3, <1>4
  <2>2. now' = now
    BY <1>4, <2>1 DEF Next, Login, LoseEntry, Authenticate, StartRequest, GetSessionUser,
       FetchSessionUser, TimeEntry, PutSessionUser, CheckSession, EndRequest, LogOut,
       StartLogout, EvictSession, DeleteSession, Deactivate, Tick, vars
  <2>3. cache'[t].dies <= now + CacheTTL
    BY <2>2, BriefStep DEF Brief
  <2>4. cache'[t].dies \in Int
    BY <1>1 DEF SessionsTypeOK, Entry, Times, Never
  <2>5. \A r \in Requests : auth'[r].pc # "idle" => auth'[r].start \in Nat /\ auth'[r].start <= now
    BY <1>1, <2>2 DEF Traced, AuthTraced
  <2> QED
    BY <1>2, <2>1, <2>3, <2>4, <2>5 DEF Grace, ReadBefore
<1>5. CASE gone[t] # Never
  <2>1. gone'[t] = gone[t] /\ ~session[t].live
    BY <1>3, <1>5 DEF Traced, RowTraced
  <2>2. cache[t].dies < gone[t] + Grace
    BY <1>5 DEF Waning
  <2>3. cache'[t].dies < gone[t] + Grace
    <3>1. CASE cache'[t] = NoEntry
      BY <1>2, <1>5, <3>1 DEF NoEntry, Never, Grace, SessionsTypeOK, Times
    <3>2. ASSUME NEW r \in Requests, PutSessionUser(r), auth[r].token = t,
                 cache'[t].dies \in Nat,
                 cache'[t].dies < auth[r].start + RequestTimeout + CacheTTL
          PROVE  cache'[t].dies < gone[t] + Grace
      <4>1. auth[r].start <= gone[t] /\ auth[r].start \in Nat
        BY <1>5, <3>2 DEF PutSessionUser, Waning, ReadBefore, Traced, AuthTraced
      <4> QED
        BY <1>2, <3>2, <4>1 DEF Grace
    <3> QED
      BY <2>2, <3>1, <3>2, EntryStep
  <2>4. ASSUME NEW r \in Requests, auth'[r].token = t
        PROVE  ReadBefore(r, gone[t])'
    <3>1. auth[r].token = t => ReadBefore(r, gone[t])
      BY <1>5 DEF Waning
    <3>2. auth'[r].pc \in {"fetched", "filling"} => auth'[r].start <= gone[t]
      BY <2>1, <2>4, <3>1, ReadingStep DEF ReadBefore
    <3>3. auth'[r].pc \in {"checking", "granted"} => auth'[r].start < gone[t] + Grace
      <4>1. SUFFICES ASSUME auth'[r].pc \in {"checking", "granted"}
                     PROVE  auth'[r].start < gone[t] + Grace
        OBVIOUS
      <4>2. auth'[r].start \in Nat
        BY <1>1, <4>1 DEF Traced, AuthTraced
      <4>3. CASE Cached(t) /\ auth'[r].start <= now
        BY <1>2, <2>2, <4>2, <4>3 DEF Cached, Grace
      <4>4. CASE /\ auth[r].pc \in {"fetched", "filling", "checking", "granted"}
                 /\ auth'[r].token = auth[r].token /\ auth'[r].start = auth[r].start
        BY <1>2, <2>4, <3>1, <4>2, <4>4 DEF ReadBefore, Grace
      <4> QED
        BY <2>4, <4>1, <4>3, <4>4, ReadingStep
    <3> QED
      BY <2>1, <3>2, <3>3 DEF ReadBefore
  <2> QED
    BY <2>1, <2>3, <2>4
<1> QED
  BY <1>4, <1>5

\* The same of an account: after it is deactivated nothing reads it as active.
LEMMA FadingStep ==
    ASSUME SessionsTypeOK, Traced, Brief, Fading, [Next]_vars
    PROVE  Fading'
<1> SUFFICES ASSUME inactive' # Never
             PROVE  /\ \A t \in Tokens :
                          cache'[t].active => cache'[t].dies < inactive' + Grace
                    /\ \A r \in Requests : auth'[r].active => ReadBefore(r, inactive)'
  BY DEF Fading
<1>1. SessionsTypeOK' /\ Traced'
  BY TypesStep, TracedStep
<1>2. /\ now \in Nat /\ inactive \in Int /\ inactive' \in Int
      /\ RequestTimeout > 0 /\ CacheTTL > 0
      /\ RequestTimeout \in Int /\ CacheTTL \in Int
      /\ \A t \in Tokens : cache[t].dies \in Int /\ cache'[t].dies \in Int
  BY <1>1, SessionTimeAssumption DEF SessionsTypeOK, Entry, Times, Never
<1>3. inactive' = inactive \/ (inactive = Never /\ inactive' = now)
  BY RowStep
<1>4. CASE inactive = Never
  <2>1. inactive' = now
    BY <1>3, <1>4
  <2>2. now' = now
    BY <1>4, <2>1 DEF Next, Login, LoseEntry, Authenticate, StartRequest, GetSessionUser,
       FetchSessionUser, TimeEntry, PutSessionUser, CheckSession, EndRequest, LogOut,
       StartLogout, EvictSession, DeleteSession, Deactivate, Tick, vars
  <2>3. \A t \in Tokens : cache'[t].dies <= now + CacheTTL
    BY <2>2, BriefStep DEF Brief
  <2>4. \A r \in Requests :
           auth'[r].pc # "idle" => auth'[r].start \in Nat /\ auth'[r].start <= now
    BY <1>1, <2>2 DEF Traced, AuthTraced
  <2> QED
    BY <1>2, <2>1, <2>3, <2>4 DEF Grace, ReadBefore
<1>5. CASE inactive # Never
  <2>1. inactive' = inactive
    BY <1>3, <1>5
  <2>2. \A t \in Tokens : cache[t].active => cache[t].dies < inactive + Grace
    BY <1>5 DEF Fading
  <2>3. ASSUME NEW t \in Tokens, cache'[t].active
        PROVE  cache'[t].dies < inactive + Grace
    <3>1. CASE cache'[t] = NoEntry
      BY <2>3, <3>1 DEF NoEntry
    <3>2. ASSUME NEW r \in Requests, PutSessionUser(r), cache'[t].active = auth[r].active,
                 cache'[t].dies \in Nat,
                 cache'[t].dies < auth[r].start + RequestTimeout + CacheTTL
          PROVE  cache'[t].dies < inactive + Grace
      <4>1. auth[r].start <= inactive /\ auth[r].start \in Nat
        BY <1>5, <2>3, <3>2 DEF PutSessionUser, Fading, ReadBefore, Traced, AuthTraced
      <4> QED
        BY <1>2, <3>2, <4>1 DEF Grace
    <3> QED
      BY <2>2, <2>3, <3>1, <3>2, EntryStep
  <2>4. ASSUME NEW r \in Requests, auth'[r].active
        PROVE  ReadBefore(r, inactive)'
    <3>1. auth[r].active => ReadBefore(r, inactive)
      BY <1>5 DEF Fading
    <3>2. auth'[r].pc \in {"fetched", "filling"} => auth'[r].start <= inactive
      BY <1>5, <2>4, <3>1, ReadingStep DEF ReadBefore
    <3>3. auth'[r].pc \in {"checking", "granted"} => auth'[r].start < inactive + Grace
      <4>1. SUFFICES ASSUME auth'[r].pc \in {"checking", "granted"}
                     PROVE  auth'[r].start < inactive + Grace
        OBVIOUS
      <4>2. auth'[r].start \in Nat
        BY <1>1, <4>1 DEF Traced, AuthTraced
      <4>3. ASSUME NEW t \in Tokens, Cached(t), auth'[r].start <= now, cache[t].active
            PROVE  auth'[r].start < inactive + Grace
        BY <1>2, <2>2, <4>2, <4>3 DEF Cached, Grace
      <4>4. CASE /\ auth[r].pc \in {"fetched", "filling", "checking", "granted"}
                 /\ auth'[r].active = auth[r].active /\ auth'[r].start = auth[r].start
        BY <1>2, <2>4, <3>1, <4>2, <4>4 DEF ReadBefore, Grace
      <4> QED
        BY <2>4, <4>1, <4>3, <4>4, ReadingStep
    <3> QED
      BY <2>1, <3>2, <3>3 DEF ReadBefore
  <2> QED
    BY <2>1, <2>3, <2>4
<1> QED
  BY <1>4, <1>5

-----------------------------------------------------------------------------
(* The theorems.                                                           *)

\* All of it holds at the start.
LEMMA InvInit == Init => Inv
<1> SUFFICES ASSUME Init PROVE Inv
  OBVIOUS
<1>1. SessionsTypeOK
  BY TypesInit
<1>2. Traced /\ Brief
  BY SessionTimeAssumption DEF Init, Traced, RowTraced, AuthTraced, LogoutTraced, Begun,
     Brief, NoEntry, IdleAuth, IdleLogout, Never
<1>3. Waning /\ Fading
  BY DEF Init, Waning, Fading
<1> QED
  BY <1>1, <1>2, <1>3 DEF Inv

\* Inv is an invariant of every execution.
THEOREM SessionsInvariance == Spec => []Inv
<1>1. Inv /\ [Next]_vars => Inv'
  BY TypesStep, TracedStep, BriefStep, WaningStep, FadingStep DEF Inv
<1> QED
  BY InvInit, <1>1, PTL DEF Spec

\* Type correctness.
THEOREM SessionsTyped == Spec => []SessionsTypeOK
<1>1. Inv => SessionsTypeOK
  BY DEF Inv
<1> QED
  BY <1>1, SessionsInvariance, PTL

\* No cache entry outlives its session by a request's life or more.
THEOREM EntriesEndWithSessions == Spec => []EntryWithinSession
<1>1. Inv => EntryWithinSession
  <2> SUFFICES ASSUME Inv, NEW t \in Tokens, Cached(t)
               PROVE  cache[t].dies < session[t].expires + RequestTimeout
    BY DEF EntryWithinSession
  <2>1. cache[t].dies # Never
    BY DEF Inv, SessionsTypeOK, Cached, Never
  <2> QED
    BY <2>1 DEF Inv, Brief
<1> QED
  BY <1>1, SessionsInvariance, PTL

\* A session that was logged out is refused once the grace is over.
THEOREM LogoutsTakeHold == Spec => []LogoutTakesHold
<1>1. Inv => LogoutTakesHold
  BY DEF Inv, Traced, AuthTraced, Waning, ReadBefore, LogoutTakesHold
<1> QED
  BY <1>1, SessionsInvariance, PTL

\* So are all the sessions of a deactivated account.
THEOREM DeactivationsTakeHold == Spec => []DeactivationTakesHold
<1>1. Inv => DeactivationTakesHold
  BY DEF Inv, Traced, AuthTraced, Fading, ReadBefore, DeactivationTakesHold
<1> QED
  BY <1>1, SessionsInvariance, PTL

\* An expired session is refused, cached or not.
THEOREM ExpiryIsEnforced == Spec => []NeverPastExpiry
<1>1. Inv => NeverPastExpiry
  BY DEF Inv, Traced, AuthTraced, NeverPastExpiry
<1> QED
  BY <1>1, SessionsInvariance, PTL
=============================================================================
