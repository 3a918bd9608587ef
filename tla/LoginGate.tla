----------------------------- MODULE LoginGate -----------------------------
(***************************************************************************)
(* How pages of the web console get and keep a link: HandleLogin,          *)
(* SessionValid and WsConnect of engine/console/ConsoleServer.cpp on one   *)
(* side, the transport of engine/web/console.js on the other.              *)
(*                                                                         *)
(* The server listens on the loopback address, so all pages share one      *)
(* record of failed attempts; they are tabs of one browser, so they share  *)
(* the session cookie.  A token matters only while a page holds it, so it  *)
(* is named after the page that logged in with it.  civetweb is external:  *)
(* a fixed number of workers, each held by one request while it is handled *)
(* and by one WebSocket for as long as it is open.                         *)
(*                                                                         *)
(* Times are relative: what is left of a lockout, how long a session has   *)
(* been idle, how long ago an attempt read the clock.                      *)
(***************************************************************************)
EXTENDS Integers, FiniteSets, FiniteSetsExt

CONSTANTS
    Pages,
    NoPage,
    Workers,           \* num_threads (6)
    FailsForLockout,   \* fails_for_lockout (5)
    LockoutSeconds,    \* lockout_seconds (60)
    MaxDoublings,      \* 5
    UnbindAfter,       \* 20
    SessionTtl,        \* session_ttl_seconds (3600)
    MaxDelay           \* the longest that an attempt is being handled

ASSUME GateAssumption ==
    /\ IsFiniteSet(Pages) /\ NoPage \notin Pages
    /\ Workers \in Nat \ {0}
    /\ FailsForLockout \in Nat \ {0} /\ UnbindAfter \in Nat \ {0}
    /\ MaxDoublings \in Nat
    /\ SessionTtl \in Nat
    /\ MaxDelay \in Nat /\ LockoutSeconds \in Nat /\ MaxDelay < LockoutSeconds

VARIABLES
    running,    \* the server is bound
    fails,      \* Rate::fails, up to the last value that matters
    lockout,    \* Rate::lockout_until, as the time left
    total,      \* total_fails, up to UnbindAfter
    idle,       \* sessions: how long the token of each page has not been used
    cookie,     \* vox_session, in the browser: whose token it is
    phase,      \* of each page
    request,    \* of each page: how far its fetch of /api/login is
    password,   \* of each page: what that fetch carries, until it is judged
    age,        \* of each page: how long ago the server read the clock for it
    late        \* history: passwords judged since the present lockout began

gate == <<fails, lockout, total, late>>
page == <<phase, request, password, age>>
vars == <<running, gate, idle, cookie, page>>

Gone     == SessionTtl + 1              \* no such session, or an expired one
MaxFails == FailsForLockout + MaxDoublings
Longest  == LockoutSeconds * 2^MaxDoublings

InFlight(p) == request[p] # "none"

\* Workers that no request and no WebSocket holds.
WorkerFree == Cardinality({p \in Pages : request[p] = "judging" \/ phase[p] = "live"}) < Workers

-----------------------------------------------------------------------------
(* The page. *)

Fetch(p, next, pw) ==
    /\ phase' = [phase EXCEPT ![p] = next]
    /\ request' = [request EXCEPT ![p] = "sent"]
    /\ password' = [password EXCEPT ![p] = pw]
    /\ UNCHANGED <<running, gate, age>>

\* The page lets go of its token.
Drop(p) ==
    /\ idle' = [idle EXCEPT ![p] = Gone]
    /\ cookie' = IF cookie = p THEN NoPage ELSE cookie

\* startTransport, on loading or reloading the page: a probe without a password.
Load(p) ==
    /\ ~InFlight(p) /\ phase[p] # "opening"
    /\ Fetch(p, "probing", "empty")
    /\ Drop(p)

\* doLogin
Submit(p) ==
    /\ phase[p] = "login"
    /\ \E pw \in {"right", "wrong"} : Fetch(p, "posting", pw)
    /\ UNCHANGED <<idle, cookie>>

\* tryReconnect, when its timer fires.
Poll(p) ==
    /\ phase[p] = "waiting"
    /\ Fetch(p, "polling", "empty")
    /\ UNCHANGED <<idle, cookie>>

\* The page is done with its fetch and goes on.
Go(p, next) ==
    /\ phase' = [phase EXCEPT ![p] = next]
    /\ request' = [request EXCEPT ![p] = "none"]
    /\ password' = [password EXCEPT ![p] = "empty"]
    /\ UNCHANGED <<running, gate, age>>

\* Whatever the server answers to a poll, it is there: the page tries its session.
Reopens(p) == phase[p] = "polling"

\* The answer to the password it submitted: a token, and the cookie with it.
LoggedIn(p) ==
    /\ request[p] = "granted"
    /\ Go(p, "opening")
    /\ cookie' = p
    /\ UNCHANGED idle

TurnedDown(p) ==
    /\ request[p] \in {"refused", "failed"}
    /\ IF Reopens(p) THEN Go(p, "opening") /\ UNCHANGED <<idle, cookie>>
       ELSE Go(p, "login") /\ Drop(p)

\* Mutated form of Unanswered: a poll that throws does not arm the timer again.
Unanswered_Silent(p) ==
    CASE phase[p] = "probing" -> "demo"
      [] phase[p] = "polling" -> "polling"
      [] phase[p] = "posting" -> "login"

\* The fetch throws: the page falls back to the demo, polls on, or says so.
Unanswered(p) ==
    CASE phase[p] = "probing" -> "demo"
      [] phase[p] = "polling" -> "waiting"
      [] phase[p] = "posting" -> "login"

NoAnswer(p) ==
    /\ \/ request[p] = "sent" /\ ~running
       \/ request[p] = "lost"
    /\ Go(p, Unanswered(p))
    /\ UNCHANGED <<idle, cookie>>

\* onclose of an established link.
LinkLost(p) ==
    /\ phase[p] = "live"
    /\ phase' = [phase EXCEPT ![p] = "waiting"]
    /\ UNCHANGED <<running, gate, idle, cookie, request, password, age>>

\* The handshake has not come in time (1.6 seconds).
OpenTimeout(p) ==
    /\ phase[p] = "opening"
    /\ ~running \/ ~WorkerFree
    /\ Go(p, "login")
    /\ Drop(p)

-----------------------------------------------------------------------------
(* The server. *)

\* Mutated form of Locked: a success, which resets the count, opens the gate.
Locked_Counted == lockout > 0 /\ fails >= FailsForLockout

Locked == lockout > 0

\* HandleLogin, up to the lockout check.
Arrives(p) == running /\ request[p] = "sent" /\ WorkerFree

Refused(p) ==
    /\ Arrives(p) /\ Locked
    /\ request' = [request EXCEPT ![p] = "refused"]
    /\ password' = [password EXCEPT ![p] = "empty"]
    /\ UNCHANGED <<running, fails, total, late, idle, cookie, phase, age>>

\* Mutated form of Refuse: an attempt during a lockout starts it again.
Refuse_Extends(p) == Refused(p) /\ lockout' = LockoutSeconds

\* 429
Refuse(p) == Refused(p) /\ UNCHANGED lockout

Admit(p) ==
    /\ Arrives(p) /\ ~Locked
    /\ request' = [request EXCEPT ![p] = "judging"]
    /\ UNCHANGED <<running, gate, idle, cookie, phase, password, age>>

\* lockout_seconds * (1 << min(over, 5)), from when the attempt read the clock.
LockoutFor(n, p) ==
    IF n < FailsForLockout THEN lockout
    ELSE LockoutSeconds * 2^Min({n - FailsForLockout, MaxDoublings}) - age[p]

\* A password is judged while the lockout runs.
Lately == IF lockout > 0 THEN late + 1 ELSE late

Judged(p, answer) ==
    /\ request[p] = "judging"
    /\ request' = [request EXCEPT ![p] = answer]
    /\ password' = [password EXCEPT ![p] = "empty"]
    /\ age' = [age EXCEPT ![p] = 0]
    /\ late' = Lately
    /\ UNCHANGED <<running, cookie, phase>>

Granted(p) ==
    /\ password[p] = "right"
    /\ Judged(p, "granted")
    /\ fails' = 0
    /\ idle' = [idle EXCEPT ![p] = age[p]]
    /\ UNCHANGED <<lockout, total>>

\* An empty password counts like a wrong one.
Failed(p) ==
    /\ password[p] # "right"
    /\ Judged(p, "failed")
    /\ fails' = Min({fails + 1, MaxFails})
    /\ lockout' = LockoutFor(fails + 1, p)
    /\ total' = Min({total + 1, UnbindAfter})
    /\ UNCHANGED idle

\* SessionValid, for the token of both the cookie and the query.
Valid(p) == cookie = p /\ idle[p] <= SessionTtl

WsConnect(p) ==
    /\ running /\ phase[p] = "opening" /\ WorkerFree
    /\ IF Valid(p)
       THEN /\ phase' = [phase EXCEPT ![p] = "live"]
            /\ idle' = [idle EXCEPT ![p] = 0]
            /\ UNCHANGED cookie
       ELSE /\ phase' = [phase EXCEPT ![p] = "login"]
            /\ Drop(p)
    /\ UNCHANGED <<running, gate, request, password, age>>

RotateSessions ==
    /\ running
    /\ idle' = [p \in Pages |-> Gone]
    /\ UNCHANGED <<running, gate, cookie, page>>

\* The engine loop stops a server that asks for it; attempts being handled end first.
Stop ==
    /\ running /\ total = UnbindAfter
    /\ running' = FALSE
    /\ UNCHANGED <<gate, idle, cookie, page>>

\* Sessions and failures live in memory: they go with the process.
Forgotten ==
    /\ fails' = 0 /\ lockout' = 0 /\ total' = 0 /\ late' = 0
    /\ idle' = [p \in Pages |-> Gone]

Crash ==
    /\ running
    /\ running' = FALSE
    /\ Forgotten
    /\ request' = [p \in Pages |-> IF InFlight(p) THEN "lost" ELSE "none"]
    /\ age' = [p \in Pages |-> 0]
    /\ password' = [p \in Pages |-> "empty"]
    /\ UNCHANGED <<cookie, phase>>

\* A new process.
Restart ==
    /\ ~running
    /\ \A p \in Pages : request[p] # "judging"
    /\ running' = TRUE
    /\ Forgotten
    /\ UNCHANGED <<cookie, page>>

\* A second passes.
Tick ==
    /\ \A p \in Pages : age[p] < MaxDelay \/ request[p] # "judging"
    /\ lockout' = Max({0, lockout - 1})
    /\ late' = IF lockout <= 1 THEN 0 ELSE late
    /\ idle' = [p \in Pages |-> Min({idle[p] + 1, Gone})]
    /\ age' = [p \in Pages |-> IF request[p] = "judging" THEN age[p] + 1 ELSE 0]
    /\ UNCHANGED <<running, fails, total, cookie, phase, request, password>>

Init ==
    /\ running = TRUE
    /\ fails = 0 /\ lockout = 0 /\ total = 0 /\ late = 0
    /\ idle = [p \in Pages |-> Gone]
    /\ cookie = NoPage
    /\ phase = [p \in Pages |-> "closed"]
    /\ request = [p \in Pages |-> "none"]
    /\ password = [p \in Pages |-> "empty"]
    /\ age = [p \in Pages |-> 0]

Handle(p) == Refuse(p) \/ Admit(p) \/ Granted(p) \/ Failed(p) \/ WsConnect(p)
Script(p) == LoggedIn(p) \/ TurnedDown(p) \/ NoAnswer(p) \/ OpenTimeout(p) \/ Poll(p)

Next ==
    \/ \E p \in Pages : Handle(p) \/ Script(p) \/ Load(p) \/ Submit(p) \/ LinkLost(p)
    \/ RotateSessions \/ Stop \/ Crash \/ Restart
    \/ Tick

Spec == Init /\ [][Next]_vars

Fairness ==
    /\ \A p \in Pages : WF_vars(Handle(p)) /\ WF_vars(Script(p))
    /\ WF_vars(Tick)

FairSpec == Spec /\ Fairness

-----------------------------------------------------------------------------
\* The state has its types.
TypeOK ==
    /\ running \in BOOLEAN
    /\ fails \in 0..MaxFails /\ total \in 0..UnbindAfter
    /\ lockout \in 0..Longest
    /\ idle \in [Pages -> Nat]
    /\ cookie \in Pages \cup {NoPage}
    /\ phase \in [Pages -> {"closed", "probing", "login", "posting", "opening", "live",
                            "waiting", "polling", "demo"}]
    /\ request \in [Pages -> {"none", "sent", "judging", "refused", "failed", "granted", "lost"}]
    /\ password \in [Pages -> {"empty", "right", "wrong"}]
    /\ age \in [Pages -> 0..MaxDelay]
    /\ late \in Nat

\* A lockout stops all but the attempts that were being handled when it began,
\* one on each other worker, however failures, successes and the lockouts they
\* prolong interleave.
LockoutHolds == late < Workers

\* No lockout goes on for ever, however many pages keep knocking.
LockoutEnds == lockout > 0 ~> lockout = 0

Connecting(p) == phase[p] \in {"waiting", "polling", "opening"}

\* A page that lost its link is not left hanging, whatever restarts, lockouts (its
\* own polls count as failures) and other pages did meanwhile: once the server
\* stays up with a worker to spare it gets the link back or asks for the password.
ReconnectEnds ==
    <>[](running /\ WorkerFree) => \A p \in Pages : Connecting(p) ~> ~Connecting(p)

\* The comment on the reconnect: a session that is still valid is reused.
ValidIsReused ==
    [][\A p \in Pages :
         running /\ phase[p] = "opening" /\ phase'[p] = "login" => idle[p] > SessionTtl]_vars

\* What the server counts are wrong passwords.
OnlyPasswordsCount == [][total' = total + 1 => \E p \in Pages : request[p] = "judging" /\ password[p] = "wrong"]_vars

=============================================================================
