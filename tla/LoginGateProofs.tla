---------------------------- MODULE LoginGateProofs ----------------------------
(* Proofs about LoginGate: for any number of pages and workers and any limits, a lockout
   stops all but the attempts that were being handled when it began. *)
EXTENDS LoginGate, FiniteSetTheorems, TLAPS

Phases    == {"closed", "probing", "login", "posting", "opening", "live", "waiting",
              "polling", "demo"}
Requests  == {"none", "sent", "judging", "refused", "failed", "granted", "lost"}
Passwords == {"empty", "right", "wrong"}

\* TypeOK, but for the flag.
DataOK ==
    /\ fails \in 0..MaxFails /\ total \in 0..UnbindAfter
    /\ lockout \in 0..Longest
    /\ idle \in [Pages -> Nat]
    /\ cookie \in Pages \cup {NoPage}
    /\ phase \in [Pages -> Phases]
    /\ request \in [Pages -> Requests]
    /\ password \in [Pages -> Passwords]
    /\ age \in [Pages -> 0..MaxDelay]
    /\ late \in Nat

\* A page with a fetch waits for it, in the phase that says what the fetch is for.
FetchInv == \A p \in Pages : InFlight(p) => phase[p] \in {"probing", "posting", "polling"}

\* The attempts that are past the lockout check.
Judging == {p \in Pages : request[p] = "judging"}

\* Those admitted before the lockout are what there is to judge: of the workers' worth that
\* could be, one began it, and the others are judged already or still waiting.
LateInv ==
    /\ Cardinality(Judging) <= Workers
    /\ lockout = 0 => late = 0
    /\ lockout > 0 => late + Cardinality(Judging) < Workers

\* LockoutHolds alone says nothing of the attempts that are yet to be judged.
IInv == DataOK /\ FetchInv /\ LateInv

-----------------------------------------------------------------------------
(* Numbers.                                                                *)

\* There are 2^k sets of k things, so powers of two are positive and grow.
LEMMA Power ==
    ASSUME NEW k \in Nat
    PROVE  /\ 2^k \in Nat \ {0}
           /\ \A j \in 0..k : 2^j \in Nat \ {0} /\ 2^j <= 2^k
<1>1. \A j \in Nat : /\ IsFiniteSet(SUBSET (1..j))
                     /\ Cardinality(SUBSET (1..j)) = 2^j
  <2> TAKE j \in Nat
  <2>1. IsFiniteSet(1..j) /\ Cardinality(1..j) = j
    BY FS_Interval
  <2> QED BY <2>1, FS_SUBSET
<1>2. \A j \in Nat : 2^j \in Nat \ {0}
  <2> TAKE j \in Nat
  <2>1. {} \in SUBSET (1..j)
    OBVIOUS
  <2> QED BY <1>1, <2>1, FS_CardinalityType, FS_EmptySet
<1>3. ASSUME NEW j \in 0..k
      PROVE  2^j <= 2^k
  <2>1. j \in Nat /\ SUBSET (1..j) \in SUBSET SUBSET (1..k)
    OBVIOUS
  <2>2. Cardinality(SUBSET (1..j)) <= Cardinality(SUBSET (1..k))
    BY <1>1, <2>1, FS_Subset
  <2> QED BY <1>1, <2>1, <2>2
<1> QED BY <1>2, <1>3

LEMMA MinOfTwo ==
    ASSUME NEW a \in Int, NEW b \in Int
    PROVE  Min({a, b}) = IF a <= b THEN a ELSE b
  BY DEF Min

LEMMA MaxOfTwo ==
    ASSUME NEW a \in Int, NEW b \in Int
    PROVE  Max({a, b}) = IF a <= b THEN b ELSE a
  BY DEF Max

LEMMA TimesGrows ==
    ASSUME NEW a \in Nat, NEW b \in Nat \ {0}, NEW c \in Nat, b <= c
    PROVE  a <= a * b /\ a * b <= a * c /\ a * b \in Nat /\ a * c \in Nat
  OBVIOUS

\* A failure that begins or prolongs a lockout leaves it running: the attempt read the clock
\* less than the shortest lockout ago.
LEMMA LockoutRuns ==
    ASSUME DataOK, NEW p \in Pages
    PROVE  /\ LockoutFor(fails + 1, p) \in 0..Longest
           /\ lockout > 0 => LockoutFor(fails + 1, p) > 0
<1> DEFINE n == fails + 1
           k == Min({n - FailsForLockout, MaxDoublings})
<1>0. /\ MaxDoublings \in Nat /\ FailsForLockout \in Nat /\ LockoutSeconds \in Nat
      /\ MaxDelay < LockoutSeconds /\ MaxDelay \in Nat
      /\ age[p] \in 0..MaxDelay /\ n \in Nat /\ lockout \in 0..Longest
  BY GateAssumption DEF DataOK, MaxFails
<1>1. CASE n < FailsForLockout
  BY <1>0, <1>1 DEF LockoutFor
<1>2. CASE ~(n < FailsForLockout)
  <2>1. k \in 0..MaxDoublings
    BY <1>0, <1>2, MinOfTwo
  <2>2. LockoutFor(n, p) = LockoutSeconds * 2^k - age[p]
    BY <1>2 DEF LockoutFor
  <2> HIDE DEF k, n
  <2>3. 2^k \in Nat \ {0} /\ 2^MaxDoublings \in Nat /\ 2^k <= 2^MaxDoublings
    BY <1>0, <2>1, Power
  <2>4. /\ LockoutSeconds * 2^k \in Nat /\ Longest \in Nat
        /\ LockoutSeconds <= LockoutSeconds * 2^k
        /\ LockoutSeconds * 2^k <= Longest
    BY <1>0, <2>3, TimesGrows DEF Longest
  <2>5. LockoutFor(n, p) \in 0..Longest /\ LockoutFor(n, p) > 0
    BY <1>0, <2>2, <2>4
  <2> QED BY <2>5 DEF n
<1> QED BY <1>1, <1>2

-----------------------------------------------------------------------------
(* Attempts being judged.                                                  *)

LEMMA JudgingFinite == IsFiniteSet(Judging) /\ Cardinality(Judging) \in Nat
<1>1. Judging \in SUBSET Pages
  BY DEF Judging
<1> QED BY <1>1, GateAssumption, FS_Subset, FS_CardinalityType

\* An answer takes an attempt out.
LEMMA JudgingShrinks ==
    ASSUME DataOK, NEW p \in Pages, request[p] = "judging", NEW a, a # "judging",
           request' = [request EXCEPT ![p] = a]
    PROVE  Cardinality(Judging') = Cardinality(Judging) - 1
<1>1. Judging' = Judging \ {p} /\ p \in Judging
  BY DEF Judging, DataOK
<1> QED BY <1>1, JudgingFinite, FS_RemoveElement

\* Nothing that the gate counts changes.
LEMMA QuietLate ==
    ASSUME LateInv, UNCHANGED <<lockout, late>>, Judging' = Judging
    PROVE  LateInv'
  BY DEF LateInv

\* A page that has no attempt being judged starts a fetch or is done with one.
LEMMA QuietJudging ==
    ASSUME DataOK, NEW p \in Pages, request[p] # "judging", NEW a, a # "judging",
           request' = [request EXCEPT ![p] = a]
    PROVE  Judging' = Judging
  BY DEF Judging, DataOK

-----------------------------------------------------------------------------
(* Steps.                                                                  *)

LEMMA LimitsOK ==
    /\ Longest \in Nat /\ MaxFails \in Nat /\ Gone \in Nat /\ MaxDelay \in Nat
    /\ UnbindAfter \in Nat /\ Workers \in Nat \ {0}
<1>1. 2^MaxDoublings \in Nat \ {0}
  BY Power, GateAssumption
<1>2. Longest \in Nat
  BY <1>1, TimesGrows, GateAssumption DEF Longest
<1> QED BY <1>2, GateAssumption DEF MaxFails, Gone

LEMMA InitIInv == Init => IInv
<1> SUFFICES ASSUME Init
             PROVE  IInv
  OBVIOUS
<1>1. DataOK
  BY LimitsOK DEF Init, DataOK, Phases, Requests, Passwords
<1>2. FetchInv
  BY DEF Init, FetchInv, InFlight
<1>3. Judging = {}
  BY DEF Init, Judging
<1>4. LateInv
  BY LimitsOK, <1>3, FS_EmptySet DEF Init, LateInv
<1> QED BY <1>1, <1>2, <1>4 DEF IInv

LEMMA DropOK ==
    ASSUME DataOK, NEW p \in Pages, Drop(p)
    PROVE  idle' \in [Pages -> Nat] /\ cookie' \in Pages \cup {NoPage}
  BY GateAssumption DEF Drop, DataOK, Gone

LEMMA FetchIInv ==
    ASSUME IInv, NEW p \in Pages, Load(p) \/ Submit(p) \/ Poll(p)
    PROVE  IInv'
<1>1. PICK next \in {"probing", "posting", "polling"}, pw \in Passwords : Fetch(p, next, pw)
  BY DEF Load, Submit, Poll, Passwords
<1>2. ~InFlight(p)
  BY DEF IInv, FetchInv, Load, Submit, Poll
<1>3. idle' \in [Pages -> Nat] /\ cookie' \in Pages \cup {NoPage}
  <2>1. Drop(p) \/ UNCHANGED <<idle, cookie>>
    BY DEF Load, Submit, Poll
  <2> QED BY <2>1, DropOK DEF IInv, DataOK
<1>4. DataOK'
  BY <1>1, <1>3 DEF IInv, DataOK, Fetch, gate, Phases, Requests
<1>5. FetchInv'
  BY <1>1 DEF IInv, FetchInv, DataOK, Fetch, InFlight
<1>6. LateInv'
  <2>1. Judging' = Judging
    BY <1>1, <1>2, QuietJudging DEF IInv, Fetch, InFlight
  <2> QED BY <1>1, <2>1, QuietLate DEF IInv, Fetch, gate
<1> QED BY <1>4, <1>5, <1>6 DEF IInv

LEMMA GoIInv ==
    ASSUME IInv, NEW p \in Pages,
           LoggedIn(p) \/ TurnedDown(p) \/ NoAnswer(p) \/ OpenTimeout(p)
    PROVE  IInv'
<1>1. request[p] # "judging"
  BY DEF IInv, FetchInv, InFlight, LoggedIn, TurnedDown, NoAnswer, OpenTimeout
<1>2. PICK next \in Phases : Go(p, next)
  <2>1. CASE LoggedIn(p) \/ TurnedDown(p) \/ OpenTimeout(p)
    BY <2>1 DEF LoggedIn, TurnedDown, OpenTimeout, Phases
  <2>2. CASE NoAnswer(p)
    <3>1. phase[p] \in {"probing", "posting", "polling"}
      BY <2>2 DEF NoAnswer, IInv, FetchInv, InFlight
    <3>2. Unanswered(p) \in Phases
      BY <3>1 DEF Unanswered, Phases
    <3> QED BY <2>2, <3>2 DEF NoAnswer
  <2> QED BY <2>1, <2>2
<1>3. idle' \in [Pages -> Nat] /\ cookie' \in Pages \cup {NoPage}
  <2>1. Drop(p) \/ UNCHANGED <<idle, cookie>> \/ (cookie' = p /\ UNCHANGED idle)
    BY DEF LoggedIn, TurnedDown, NoAnswer, OpenTimeout
  <2> QED BY <2>1, DropOK DEF IInv, DataOK
<1>4. DataOK'
  BY <1>2, <1>3 DEF IInv, DataOK, Go, gate, Requests, Passwords
<1>5. FetchInv'
  BY <1>2 DEF IInv, FetchInv, DataOK, Go, InFlight
<1>6. LateInv'
  <2>1. Judging' = Judging
    BY <1>1, <1>2, QuietJudging DEF IInv, Go
  <2> QED BY <1>2, <2>1, QuietLate DEF IInv, Go, gate
<1> QED BY <1>4, <1>5, <1>6 DEF IInv

\* The link comes or goes.
LEMMA LinkIInv ==
    ASSUME IInv, NEW p \in Pages, LinkLost(p) \/ WsConnect(p)
    PROVE  IInv'
<1>1. /\ UNCHANGED <<gate, request, password, age>>
      /\ phase[p] \in {"live", "opening"}
  BY DEF LinkLost, WsConnect, page
<1>2. phase' \in [Pages -> Phases] /\ \A q \in Pages : q # p => phase'[q] = phase[q]
  BY DEF LinkLost, WsConnect, IInv, DataOK, Phases
<1>3. idle' \in [Pages -> Nat] /\ cookie' \in Pages \cup {NoPage}
  <2>1. \/ Drop(p)
        \/ UNCHANGED <<idle, cookie>>
        \/ idle' = [idle EXCEPT ![p] = 0] /\ UNCHANGED cookie
    BY DEF LinkLost, WsConnect
  <2>2. Gone \in Nat
    BY GateAssumption DEF Gone
  <2> QED BY <2>1, <2>2, DropOK DEF IInv, DataOK
<1>4. DataOK'
  BY <1>1, <1>2, <1>3 DEF IInv, DataOK, gate
<1>5. FetchInv'
  BY <1>1, <1>2 DEF IInv, FetchInv, InFlight
<1>6. LateInv'
  BY <1>1, QuietLate DEF IInv, gate, Judging
<1> QED BY <1>4, <1>5, <1>6 DEF IInv

LEMMA RefuseIInv ==
    ASSUME IInv, NEW p \in Pages, Refuse(p)
    PROVE  IInv'
<1>1. /\ request[p] = "sent"
      /\ request' = [request EXCEPT ![p] = "refused"]
      /\ password' = [password EXCEPT ![p] = "empty"]
      /\ UNCHANGED <<fails, total, late, lockout, idle, cookie, phase, age>>
  BY DEF Refuse, Refused, Arrives
<1>2. DataOK'
  BY <1>1 DEF IInv, DataOK, Requests, Passwords
<1>3. FetchInv'
  BY <1>1 DEF IInv, FetchInv, InFlight, DataOK
<1>4. LateInv'
  BY <1>1, QuietJudging, QuietLate DEF IInv
<1> QED BY <1>2, <1>3, <1>4 DEF IInv

\* Only while no lockout runs, and on a worker that is free.
LEMMA AdmitIInv ==
    ASSUME IInv, NEW p \in Pages, Admit(p)
    PROVE  IInv'
<1>1. /\ request[p] = "sent" /\ lockout = 0 /\ WorkerFree
      /\ request' = [request EXCEPT ![p] = "judging"]
      /\ UNCHANGED <<gate, idle, cookie, phase, password, age>>
  BY DEF Admit, Arrives, Locked, IInv, DataOK
<1>2. DataOK'
  BY <1>1 DEF IInv, DataOK, Requests, gate
<1>3. FetchInv'
  BY <1>1 DEF IInv, FetchInv, InFlight, DataOK
<1>4. Cardinality(Judging') <= Workers
  <2> DEFINE Held == {q \in Pages : request[q] = "judging" \/ phase[q] = "live"}
  <2>1. IsFiniteSet(Held) /\ Cardinality(Held) \in Nat /\ Judging \in SUBSET Held
    BY GateAssumption, FS_Subset, FS_CardinalityType DEF Judging
  <2>2. Cardinality(Judging) <= Cardinality(Held) /\ Cardinality(Held) < Workers
    BY <1>1, <2>1, FS_Subset DEF WorkerFree
  <2>3. Judging' = Judging \cup {p} /\ p \notin Judging
    BY <1>1 DEF Judging, IInv, DataOK
  <2>4. Cardinality(Judging') = Cardinality(Judging) + 1
    BY <2>3, JudgingFinite, FS_AddElement
  <2> QED BY <2>1, <2>2, <2>4, JudgingFinite, GateAssumption
<1>5. LateInv'
  BY <1>1, <1>4 DEF IInv, LateInv, gate
<1> QED BY <1>2, <1>3, <1>5 DEF IInv

\* The answer to a password: one attempt fewer is judged, one more has been.
LEMMA JudgedIInv ==
    ASSUME IInv, NEW p \in Pages, NEW a \in {"granted", "failed"}, Judged(p, a),
           fails' \in 0..MaxFails, total' \in 0..UnbindAfter,
           idle' \in [Pages -> Nat],
           lockout' \in 0..Longest, lockout > 0 => lockout' > 0
    PROVE  IInv'
<1>1. /\ request[p] = "judging"
      /\ request' = [request EXCEPT ![p] = a]
      /\ password' = [password EXCEPT ![p] = "empty"]
      /\ age' = [age EXCEPT ![p] = 0]
      /\ late' = IF lockout > 0 THEN late + 1 ELSE late
      /\ UNCHANGED <<cookie, phase>>
  BY DEF Judged, Lately
<1>2. DataOK'
  BY <1>1, GateAssumption DEF IInv, DataOK, Requests, Passwords
<1>3. FetchInv'
  BY <1>1 DEF IInv, FetchInv, InFlight, DataOK
<1>4. LateInv'
  <2>1. Cardinality(Judging') = Cardinality(Judging) - 1
    BY <1>1, JudgingShrinks DEF IInv
  <2>2. /\ Cardinality(Judging) \in Nat /\ Workers \in Nat
        /\ late \in Nat /\ lockout \in Nat /\ lockout' \in Nat
    BY JudgingFinite, GateAssumption DEF IInv, DataOK
  <2> QED BY <1>1, <2>1, <2>2 DEF IInv, LateInv
<1> QED BY <1>2, <1>3, <1>4 DEF IInv

LEMMA AnswerIInv ==
    ASSUME IInv, NEW p \in Pages, Granted(p) \/ Failed(p)
    PROVE  IInv'
<1>1. /\ MaxFails \in Nat /\ UnbindAfter \in Nat /\ Gone \in Nat /\ MaxDelay \in Nat
      /\ age[p] \in 0..MaxDelay
      /\ fails \in 0..MaxFails /\ total \in 0..UnbindAfter
  BY GateAssumption DEF IInv, DataOK, MaxFails, Gone
<1>2. CASE Granted(p)
  <2>1. /\ fails' = 0 /\ idle' = [idle EXCEPT ![p] = age[p]]
        /\ UNCHANGED <<lockout, total>> /\ Judged(p, "granted")
    BY <1>2 DEF Granted
  <2>2. idle' \in [Pages -> Nat]
    BY <1>1, <2>1 DEF IInv, DataOK
  <2> QED BY <1>1, <2>1, <2>2, JudgedIInv DEF IInv, DataOK
<1>3. CASE Failed(p)
  <2>1. /\ fails' = Min({fails + 1, MaxFails})
        /\ lockout' = LockoutFor(fails + 1, p)
        /\ total' = Min({total + 1, UnbindAfter})
        /\ idle' = idle /\ Judged(p, "failed")
    BY <1>3 DEF Failed
  <2>2. fails' \in 0..MaxFails /\ total' \in 0..UnbindAfter
    BY <1>1, <2>1, MinOfTwo
  <2>3. lockout' \in 0..Longest /\ (lockout > 0 => lockout' > 0)
    BY <2>1, LockoutRuns DEF IInv
  <2> QED BY <2>1, <2>2, <2>3, JudgedIInv DEF IInv, DataOK
<1> QED BY <1>2, <1>3

\* Nothing but the sessions or the server's own state goes: attempts are judged on.
LEMMA ServerIInv ==
    ASSUME IInv, RotateSessions \/ Stop
    PROVE  IInv'
<1>1. /\ UNCHANGED <<gate, cookie, page>>
      /\ idle' \in [Pages -> Nat]
  BY GateAssumption DEF RotateSessions, Stop, IInv, DataOK, Gone
<1>2. DataOK'
  BY <1>1 DEF IInv, DataOK, gate, page
<1>3. FetchInv' /\ LateInv'
  BY <1>1 DEF IInv, FetchInv, InFlight, LateInv, Judging, gate, page
<1> QED BY <1>2, <1>3 DEF IInv

\* The end of a process, and its beginning: nothing is being judged and no lockout runs.
LEMMA ProcessIInv ==
    ASSUME IInv, Crash \/ Restart
    PROVE  IInv'
<1>1. /\ fails' = 0 /\ lockout' = 0 /\ total' = 0 /\ late' = 0
      /\ idle' \in [Pages -> Nat] /\ cookie' = cookie /\ phase' = phase
      /\ \A p \in Pages : request'[p] # "judging" /\ (request'[p] # "none" => request[p] # "none")
  BY GateAssumption DEF Crash, Restart, Forgotten, Gone, page, InFlight, IInv, DataOK
<1>2. /\ request' \in [Pages -> Requests] /\ password' \in [Pages -> Passwords]
      /\ age' \in [Pages -> 0..MaxDelay]
  <2>1. CASE Crash
    <3>1. /\ request' = [p \in Pages |-> IF InFlight(p) THEN "lost" ELSE "none"]
          /\ age' = [p \in Pages |-> 0] /\ password' = [p \in Pages |-> "empty"]
      BY <2>1 DEF Crash
    <3> QED BY <3>1, GateAssumption DEF Requests, Passwords
  <2>2. CASE Restart
    BY <2>2 DEF Restart, page, IInv, DataOK
  <2> QED BY <2>1, <2>2
<1>3. DataOK'
  BY <1>1, <1>2, LimitsOK DEF IInv, DataOK
<1>4. FetchInv'
  BY <1>1 DEF IInv, FetchInv, InFlight
<1>5. LateInv'
  <2>1. Judging' = {}
    BY <1>1 DEF Judging
  <2> QED BY <1>1, <2>1, FS_EmptySet, GateAssumption DEF LateInv
<1> QED BY <1>3, <1>4, <1>5 DEF IInv

LEMMA TickIInv ==
    ASSUME IInv, Tick
    PROVE  IInv'
<1>1. /\ lockout' = Max({0, lockout - 1})
      /\ late' = IF lockout <= 1 THEN 0 ELSE late
      /\ idle' = [p \in Pages |-> Min({idle[p] + 1, Gone})]
      /\ age' = [p \in Pages |-> IF request[p] = "judging" THEN age[p] + 1 ELSE 0]
      /\ UNCHANGED <<fails, total, cookie, phase, request, password>>
      /\ \A p \in Pages : age[p] < MaxDelay \/ request[p] # "judging"
  BY DEF Tick
<1>2. lockout \in 0..Longest /\ late \in Nat /\ Gone \in Nat /\ MaxDelay \in Nat
  BY GateAssumption DEF IInv, DataOK, Gone
<1>3. lockout' = IF lockout <= 1 THEN 0 ELSE lockout - 1
  <2>1. lockout \in Int /\ lockout - 1 \in Int
    BY <1>2
  <2>2. Max({0, lockout - 1}) = IF 0 <= lockout - 1 THEN lockout - 1 ELSE 0
    BY <2>1, MaxOfTwo
  <2> QED BY <1>1, <2>1, <2>2
<1>4. idle' \in [Pages -> Nat]
  <2>1. \A p \in Pages : Min({idle[p] + 1, Gone}) \in Nat
    BY <1>2, MinOfTwo DEF IInv, DataOK
  <2> QED BY <1>1, <2>1
<1>5. age' \in [Pages -> 0..MaxDelay]
  <2>1. \A p \in Pages : (IF request[p] = "judging" THEN age[p] + 1 ELSE 0) \in 0..MaxDelay
    <3> TAKE p \in Pages
    <3>1. age[p] \in 0..MaxDelay /\ (age[p] < MaxDelay \/ request[p] # "judging")
      BY <1>1 DEF IInv, DataOK
    <3> QED BY <1>2, <3>1
  <2> QED BY <1>1, <2>1
<1>6. DataOK'
  <2>1. lockout' \in 0..Longest /\ late' \in Nat
    BY <1>1, <1>2, <1>3, LimitsOK
  <2> QED BY <1>1, <1>4, <1>5, <2>1 DEF IInv, DataOK
<1>7. FetchInv'
  BY <1>1 DEF IInv, FetchInv, InFlight
<1>8. LateInv'
  <2>1. Judging' = Judging
    BY <1>1 DEF Judging
  <2> QED BY <1>1, <1>2, <1>3, <2>1 DEF IInv, LateInv
<1> QED BY <1>6, <1>7, <1>8 DEF IInv

LEMMA StepIInv ==
    ASSUME IInv, [Next]_vars
    PROVE  IInv'
<1>1. CASE UNCHANGED vars
  <2>1. DataOK'
    BY <1>1 DEF IInv, DataOK, vars, gate, page
  <2>2. FetchInv' /\ LateInv'
    BY <1>1 DEF IInv, FetchInv, InFlight, LateInv, Judging, vars, gate, page
  <2> QED BY <2>1, <2>2 DEF IInv
<1>2. CASE \E p \in Pages : Handle(p) \/ Script(p) \/ Load(p) \/ Submit(p) \/ LinkLost(p)
  BY <1>2, RefuseIInv, AdmitIInv, AnswerIInv, LinkIInv, GoIInv, FetchIInv DEF Handle, Script
<1>3. CASE RotateSessions \/ Stop \/ Crash \/ Restart \/ Tick
  BY <1>3, ServerIInv, ProcessIInv, TickIInv
<1> QED BY <1>1, <1>2, <1>3 DEF Next

LEMMA Inductive == Spec => []IInv
  BY InitIInv, StepIInv, PTL DEF Spec

-----------------------------------------------------------------------------
(* Theorems.                                                               *)

LEMMA RunningOK == Spec => [](running \in BOOLEAN)
<1>1. Init => running \in BOOLEAN
  BY Zenon DEF Init
<1>2. running \in BOOLEAN /\ [Next]_vars => (running \in BOOLEAN)'
  BY ZenonT(30) DEF Next, vars, Handle, Script, Refuse, Refused, Admit, Granted, Failed, Judged,
     WsConnect, LoggedIn, TurnedDown, NoAnswer, OpenTimeout, Poll, Load, Submit, LinkLost,
     RotateSessions, Stop, Crash, Restart, Tick, Fetch, Go
<1> QED BY <1>1, <1>2, PTL DEF Spec

\* Every counter of the gate and every phase of a page stays in its range: no lockout is
\* longer than its last doubling, and an answer finds the page in a phase that expects one.
THEOREM TypeCorrect == Spec => []TypeOK
<1>1. DataOK /\ running \in BOOLEAN => TypeOK
  BY Zenon DEF DataOK, TypeOK, Phases, Requests, Passwords
<1>2. IInv => DataOK
  BY DEF IInv
<1> QED BY <1>1, <1>2, Inductive, RunningOK, PTL

\* HandleLogin checks the lockout and judges the password under two locks: the attempts that
\* pass in between are those of the other workers, and never more, however often a failure
\* among them prolongs the lockout.
THEOREM LockoutCorrect == Spec => []LockoutHolds
<1>1. IInv => LockoutHolds
  <2> SUFFICES ASSUME IInv
               PROVE  LockoutHolds
    OBVIOUS
  <2>1. /\ late \in Nat /\ lockout \in Nat /\ Workers \in Nat \ {0}
        /\ Cardinality(Judging) \in Nat
    BY JudgingFinite, GateAssumption DEF IInv, DataOK
  <2> QED BY <2>1 DEF IInv, LateInv, LockoutHolds
<1> QED BY <1>1, Inductive, PTL
=============================================================================
