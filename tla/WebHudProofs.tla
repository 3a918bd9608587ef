---------------------------- MODULE WebHudProofs ----------------------------
(* Proofs about WebHud: for any number of pages, cvars, values and edits, the last word a
   page hears of a cvar is the registry's value, and no untouched control is stale. *)
EXTENDS WebHud, FiniteSetTheorems, SequenceTheorems, TLAPS

\* What a page will hold of c that holds copy and has yet to handle the messages d.
Word(copy, d, c) ==
    LET told == {i \in DOMAIN d : About(d[i], c)}
    IN  IF told = {} THEN copy[c] ELSE Says(d[Max(told)], c)

\* Pending, for the messages u.
Asks(m, type, c)  == m.type = type /\ ~m.old /\ (type = "set" => m.cvar = c)
Asked(u, type, c) == \E i \in DOMAIN u : Asks(u[i], type, c)

-----------------------------------------------------------------------------
(* Positions and messages.                                                 *)

\* The greatest of some positions of a sequence.
LEMMA MaxPosition ==
    ASSUME NEW n \in Nat, NEW S \in SUBSET (1..n), S # {}
    PROVE  /\ Max(S) \in S /\ Max(S) \in 1..n
           /\ \A i \in 1..n : i \in S => i <= Max(S)
<1> DEFINE gaps == {n - i : i \in S}
<1>0. \A i \in S : i \in Int /\ n - i \in Nat /\ n - i \in gaps
  <2> TAKE i \in S
  <2>1. i \in 1..n
    OBVIOUS
  <2>2. i \in Int /\ n - i \in Nat
    BY <2>1
  <2>3. n - i \in gaps
    BY Zenon
  <2> QED BY <2>2, <2>3
<1>1. gaps \in SUBSET Nat /\ gaps # {}
  <2>1. \A k \in gaps : k \in Nat
    BY <1>0, Zenon
  <2> QED BY <1>0, <2>1
<1>2. PICK g \in gaps : \A k \in gaps : ~(<<k, g>> \in OpToRel(<, Nat))
  BY <1>1, NatLessThanWellFounded, WFMin
<1>3. \A k \in gaps : ~(k < g)
  BY <1>1, <1>2 DEF OpToRel
<1>4. PICK m \in S : g = n - m
  BY <1>2
<1>5. ASSUME NEW i \in S PROVE m >= i
  <2>1. n - i \in gaps /\ i \in Int /\ m \in Int
    BY <1>0
  <2>2. ~(n - i < n - m)
    BY <1>3, <1>4, <2>1
  <2> QED BY <2>1, <2>2
<1>6. \E x \in S : \A i \in S : x >= i
  <2>1. \A i \in S : m >= i
    BY <1>5
  <2> QED BY <2>1
<1>7. Max(S) \in S /\ \A i \in S : Max(S) >= i
  BY <1>6 DEF Max
<1>8. Max(S) \in 1..n
  BY <1>7
<1>9. ASSUME NEW i \in 1..n, i \in S PROVE i <= Max(S)
  <2>1. Max(S) >= i
    BY <1>7, <1>9
  <2> QED BY <1>8, <2>1
<1> QED BY <1>7, <1>8, <1>9

\* A position that nothing exceeds is the greatest.
LEMMA MaxIs ==
    ASSUME NEW n \in Nat, NEW S \in SUBSET (1..n), NEW m \in S,
           \A i \in 1..n : i \in S => i <= m
    PROVE  Max(S) = m
<1>1. /\ Max(S) \in 1..n /\ Max(S) \in S /\ m \in 1..n
      /\ \A i \in 1..n : i \in S => i <= Max(S)
  BY MaxPosition
<1>2. Max(S) <= m /\ m <= Max(S)
  BY <1>1
<1> QED BY <1>1, <1>2

LEMMA DownTypes ==
    ASSUME NEW m \in Downs
    PROVE  /\ m.type \in {"cvars", "result", "event"}
           /\ m.type = "cvars" => m.cvars \in [Cvars -> Values]
           /\ m.type # "cvars" => m.cvar \in Cvars /\ m.value \in Values
  BY DEF Downs

LEMMA UpTypes ==
    ASSUME NEW m \in Ups
    PROVE  /\ m.type \in {"list", "subscribe", "set", "exec"}
           /\ m.type \in {"set", "exec"} => m.cvar \in Cvars /\ m.value \in Values
  BY DEF Ups

\* A message handled now or later: the same last word.
LEMMA TailWord ==
    ASSUME NEW copy \in Copies, NEW d \in Seq(Downs), d # <<>>, NEW c \in Cvars
    PROVE  Word(Merged(copy, Head(d)), Tail(d), c) = Word(copy, d, c)
<1> DEFINE m == Head(d)
           old == {i \in DOMAIN d : About(d[i], c)}
           new == {i \in DOMAIN Tail(d) : About(Tail(d)[i], c)}
<1>1. /\ Len(d) \in Nat \ {0} /\ m \in Downs /\ d[1] = m
      /\ Tail(d) \in Seq(Downs) /\ Len(Tail(d)) = Len(d) - 1
      /\ \A i \in 1..(Len(d) - 1) : Tail(d)[i] = d[i + 1]
  BY HeadTailProperties
<1>2. DOMAIN d = 1..Len(d) /\ DOMAIN Tail(d) = 1..(Len(d) - 1)
  BY <1>1, LenProperties
<1>3. Merged(copy, m)[c] = IF About(m, c) THEN Says(m, c) ELSE copy[c]
  <2>1. CASE m.type = "cvars"
    BY <2>1 DEF Merged, About, Says
  <2>2. CASE m.type # "cvars"
    BY <2>2 DEF Merged, About, Says, Copies
  <2> QED BY <2>1, <2>2
<1>4. \A i \in 1..(Len(d) - 1) : i \in new <=> i + 1 \in old
  BY <1>1, <1>2
<1>5. old \in SUBSET (1..Len(d)) /\ new \in SUBSET (1..(Len(d) - 1))
  BY <1>2
<1>6. CASE new = {}
  <2>1. old \subseteq {1}
    <3> SUFFICES ASSUME NEW i \in old, i # 1 PROVE FALSE
      OBVIOUS
    <3>1. i - 1 \in 1..(Len(d) - 1) /\ (i - 1) + 1 = i
      BY <1>1, <1>5
    <3> QED BY <1>4, <1>6, <3>1
  <2>2. CASE 1 \in old
    <3>1. Max(old) = 1
      BY <1>1, <1>5, <2>1, <2>2, MaxIs
    <3> QED BY <1>1, <1>3, <1>6, <2>2, <3>1 DEF Word
  <2>3. CASE 1 \notin old
    <3>1. old = {} /\ ~About(m, c)
      BY <1>1, <1>2, <2>1, <2>3
    <3> QED BY <1>3, <1>6, <3>1 DEF Word
  <2> QED BY <2>2, <2>3
<1>7. CASE new # {}
  <2>1. /\ Max(new) \in new /\ Max(new) \in 1..(Len(d) - 1)
        /\ \A i \in 1..(Len(d) - 1) : i \in new => i <= Max(new)
    <3>1. Len(d) - 1 \in Nat
      BY <1>1
    <3> HIDE DEF new
    <3> QED BY <1>5, <1>7, <3>1, MaxPosition
  <2>2. Max(new) + 1 \in old
    BY <1>4, <2>1
  <2>3. ASSUME NEW i \in 1..Len(d), i \in old PROVE i <= Max(new) + 1
    <3>1. CASE i = 1
      <4> HIDE DEF new
      <4> QED BY <2>1, <3>1
    <3>2. CASE i # 1
      <4>1. i - 1 \in 1..(Len(d) - 1) /\ (i - 1) + 1 = i
        BY <1>1, <3>2
      <4>2. i - 1 \in new
        BY <1>4, <2>3, <4>1
      <4>3. i - 1 <= Max(new)
        BY <2>1, <4>1, <4>2
      <4> HIDE DEF new
      <4> QED BY <2>1, <4>3
    <3> QED BY <3>1, <3>2
  <2>4. Max(old) = Max(new) + 1
    <3> HIDE DEF old, new
    <3> QED BY <1>1, <1>5, <2>2, <2>3, MaxIs
  <2>5. Tail(d)[Max(new)] = d[Max(old)]
    BY <1>1, <2>1, <2>4
  <2>6. old # {}
    BY <2>2
  <2> QED BY <1>7, <2>5, <2>6 DEF Word
<1> QED BY <1>6, <1>7

\* A message that is added decides the last word on what it is about.
LEMMA AppendWord ==
    ASSUME NEW copy \in Copies, NEW d \in Seq(Downs), NEW m \in Downs, NEW c \in Cvars
    PROVE  Word(copy, Append(d, m), c) = IF About(m, c) THEN Says(m, c) ELSE Word(copy, d, c)
<1> DEFINE e == Append(d, m)
           n == Len(d)
           old == {i \in DOMAIN d : About(d[i], c)}
           new == {i \in DOMAIN e : About(e[i], c)}
<1>1. /\ n \in Nat /\ DOMAIN d = 1..n /\ DOMAIN e = 1..(n + 1)
      /\ e[n + 1] = m /\ \A i \in 1..n : e[i] = d[i]
  BY AppendProperties, LenProperties
<1>2. \A i \in 1..n : i \in new <=> i \in old
  BY <1>1
<1>3. old \in SUBSET (1..n) /\ new \in SUBSET (1..(n + 1))
  BY <1>1
<1>4. CASE About(m, c)
  <2>1. n + 1 \in new /\ \A i \in 1..(n + 1) : i \in new => i <= n + 1
    BY <1>1, <1>4
  <2>2. Max(new) = n + 1
    <3>1. n + 1 \in Nat
      BY <1>1
    <3> HIDE DEF new
    <3> QED BY <1>3, <2>1, <3>1, MaxIs
  <2>3. Word(copy, e, c) = IF new = {} THEN copy[c] ELSE Says(e[Max(new)], c)
    BY DEF Word
  <2> HIDE DEF e, new
  <2>4. Word(copy, e, c) = Says(m, c)
    BY <1>1, <2>1, <2>2, <2>3, Zenon
  <2> QED BY <1>4, <2>4 DEF e
<1>5. CASE ~About(m, c)
  <2>1. n + 1 \notin new
    BY <1>1, <1>5
  <2>2. new = old
    <3>1. \A i \in new : i \in 1..n
      BY <1>1, <1>3, <2>1
    <3> QED BY <1>2, <1>3, <3>1
  <2>3. CASE old = {}
    BY <1>5, <2>2, <2>3 DEF Word
  <2>4. CASE old # {}
    <3>1. Max(old) \in 1..n
      BY <1>1, <1>3, <2>4, MaxPosition
    <3>2. e[Max(old)] = d[Max(old)]
      BY <1>1, <3>1
    <3> QED BY <1>5, <2>2, <2>4, <3>2 DEF Word
  <2> QED BY <2>3, <2>4
<1> QED BY <1>4, <1>5

-----------------------------------------------------------------------------
(* The invariant.                                                          *)

\* What may be on its way from a page: sets of what its user edited, and, when the engine
\* does not serve it, only what a broken connection left behind.
MayAsk(p) ==
    {m \in Ups : (m.type = "set" => m.cvar \in edited[p]) /\ (p \notin served => m.old)}

\* What may be on its way to it: results of its own edits.
MayHear(p) == {m \in Downs : m.type = "result" => m.cvar \in edited[p]}

DataOK ==
    /\ value \in [Cvars -> Values]
    /\ served \subseteq live /\ subscribed \subseteq served /\ live \subseteq Pages
    /\ view \in [Pages -> Copies] /\ shown \in [Pages -> Copies]
    /\ edited \in [Pages -> SUBSET Cvars] /\ missed \in [Pages -> SUBSET Cvars]

CountersOK == edits \in 0..MaxEdits /\ others \in 0..MaxOthers /\ opens \in 0..MaxOpens

QueuesOK ==
    /\ up = [p \in Pages |-> up[p]]
    /\ down = [p \in Pages |-> down[p]]
    /\ \A p \in Pages : up[p] \in Seq(MayAsk(p)) /\ down[p] \in Seq(MayHear(p))

\* The control that is held back is one its user edited.
EditingInv ==
    /\ editing \in [Pages -> Cvars \cup {Nobody}]
    /\ \A p \in Pages : editing[p] # Nobody => editing[p] \in edited[p]

\* What a page has heard of c, or will, is the registry's value, unless it missed a change.
Settled(p, c) == c \in missed[p] \/ Word(view[p], down[p], c) = value[c]

WordInv ==
    \A p \in served, c \in Cvars :
        Asked(up[p], "list", c) \/ Asked(up[p], "set", c) \/ Settled(p, c)

\* UntouchedShown is not inductive alone: a result is merged into the copy without building
\* the control anew, so results must be of edited cvars, and so must the sets they answer;
\* and an event is not shown while its own control is edited.
IInv == DataOK /\ CountersOK /\ QueuesOK /\ EditingInv /\ WordInv /\ UntouchedShown

LEMMA UpsAndDowns ==
    ASSUME NEW p
    PROVE  MayAsk(p) \subseteq Ups /\ MayHear(p) \subseteq Downs
  BY DEF MayAsk, MayHear

LEMMA QueueTypes ==
    ASSUME QueuesOK, NEW p \in Pages
    PROVE  up[p] \in Seq(Ups) /\ down[p] \in Seq(Downs)
<1>1. up[p] \in Seq(MayAsk(p)) /\ down[p] \in Seq(MayHear(p))
  BY DEF QueuesOK
<1> QED BY <1>1, UpsAndDowns, SeqMonotonic

\* An old message stays one; more edits and a new connection allow more messages.
LEMMA MayGrow ==
    ASSUME NEW p \in Pages, edited[p] \subseteq edited'[p], p \in served => p \in served'
    PROVE  /\ \A s \in Seq(MayAsk(p)) : s \in Seq(MayAsk(p)')
           /\ \A s \in Seq(MayHear(p)) : s \in Seq(MayHear(p)')
<1>1. MayAsk(p) \subseteq MayAsk(p)'
  BY DEF MayAsk
<1>2. MayHear(p) \subseteq MayHear(p)'
  BY DEF MayHear
<1> QED BY <1>1, <1>2, SeqMonotonic

-----------------------------------------------------------------------------
(* What a page asks.                                                       *)

LEMMA AskedMore ==
    ASSUME NEW S, NEW u \in Seq(S), NEW ms \in Seq(S), NEW type, NEW c
    PROVE  /\ Asked(u, type, c) => Asked(u \o ms, type, c)
           /\ \A i \in DOMAIN ms : Asks(ms[i], type, c) => Asked(u \o ms, type, c)
<1>1. /\ Len(u) \in Nat /\ Len(ms) \in Nat
      /\ DOMAIN u = 1..Len(u) /\ DOMAIN ms = 1..Len(ms)
      /\ u \o ms \in Seq(S) /\ Len(u \o ms) = Len(u) + Len(ms)
      /\ DOMAIN (u \o ms) = 1..(Len(u) + Len(ms))
  BY LenProperties, ConcatProperties
<1>2. \A i \in 1..Len(u) : i \in DOMAIN (u \o ms) /\ (u \o ms)[i] = u[i]
  BY <1>1
<1>3. \A i \in 1..Len(ms) : Len(u) + i \in DOMAIN (u \o ms) /\ (u \o ms)[Len(u) + i] = ms[i]
  BY <1>1
<1> QED BY <1>1, <1>2, <1>3, Zenon DEF Asked

LEMMA AskedLater ==
    ASSUME NEW S, NEW u \in Seq(S), u # <<>>, NEW type, NEW c, Asked(u, type, c)
    PROVE  Asks(Head(u), type, c) \/ Asked(Tail(u), type, c)
<1>1. /\ Len(u) \in Nat \ {0} /\ DOMAIN u = 1..Len(u) /\ u[1] = Head(u)
      /\ Tail(u) \in Seq(S) /\ DOMAIN Tail(u) = 1..(Len(u) - 1)
      /\ \A i \in 1..(Len(u) - 1) : Tail(u)[i] = u[i + 1]
  BY HeadTailProperties, LenProperties
<1>2. PICK i \in DOMAIN u : Asks(u[i], type, c)
  BY DEF Asked
<1>3. CASE i = 1
  BY <1>1, <1>2, <1>3
<1>4. CASE i # 1
  <2>1. i - 1 \in DOMAIN Tail(u) /\ Tail(u)[i - 1] = u[i]
    BY <1>1, <1>4
  <2> QED BY <1>2, <2>1, Zenon DEF Asked
<1> QED BY <1>3, <1>4

-----------------------------------------------------------------------------
(* What the engine tells.                                                  *)

\* A set that is refused changes nothing and sends nothing; any other one sends the value
\* that was stored.
LEMMA EventIs ==
    ASSUME DataOK, NEW c \in Cvars, NEW v \in Values
    PROVE  /\ ApplySet(c, v) \in Values
           /\ \/ Event(c, v) = <<[type |-> "event", cvar |-> c, value |-> ApplySet(c, v)]>>
              \/ Event(c, v) = <<>> /\ ApplySet(c, v) = value[c]
<1>1. Accepted[c][v] \in Values \cup {Refused} /\ value[c] \in Values
  BY HudAssumption DEF DataOK
<1>2. CASE Accepted[c][v] = Refused
  BY <1>1, <1>2 DEF ApplySet, Event
<1>3. CASE Accepted[c][v] # Refused
  BY <1>1, <1>3 DEF ApplySet, Event
<1> QED BY <1>2, <1>3

\* A change, told to the subscribed pages and noted for the others, leaves every page that
\* knew the registry's values knowing them.
LEMMA ChangeTold ==
    ASSUME DataOK, QueuesOK, NEW x \in Cvars, NEW v \in Values, NEW q \in Pages
    PROVE  /\ Broadcast(Event(x, v))[q] \in Seq(MayHear(q))
           /\ Missing(x, v)[q] \in SUBSET Cvars
           /\ \A c \in Cvars : q \in served /\ Settled(q, c) =>
                 \/ c \in Missing(x, v)[q]
                 \/ Word(view[q], Broadcast(Event(x, v))[q], c)
                        = [value EXCEPT ![x] = ApplySet(x, v)][c]
<1> DEFINE m == [type |-> "event", cvar |-> x, value |-> ApplySet(x, v)]
           new == [value EXCEPT ![x] = ApplySet(x, v)]
<1>1. /\ ApplySet(x, v) \in Values
      /\ Event(x, v) = <<m>> \/ (Event(x, v) = <<>> /\ ApplySet(x, v) = value[x])
  BY EventIs
<1>2. m \in MayHear(q) /\ m \in Downs
  BY <1>1 DEF MayHear, Downs
<1>3. down[q] \in Seq(MayHear(q)) /\ down[q] \in Seq(Downs) /\ view[q] \in Copies
  BY QueueTypes DEF QueuesOK, DataOK
<1>4. /\ Append(down[q], m) = down[q] \o <<m>> /\ Append(down[q], m) \in Seq(MayHear(q))
      /\ down[q] \o <<>> = down[q]
  BY <1>2, <1>3, AppendIsConcat, AppendProperties, ConcatEmptySeq
<1>5. \/ Broadcast(Event(x, v))[q] = Append(down[q], m)
      \/ /\ Broadcast(Event(x, v))[q] = down[q]
         /\ q \notin subscribed \/ ApplySet(x, v) = value[x]
  BY <1>1, <1>4 DEF Broadcast
<1>6. Missing(x, v)[q] \in SUBSET Cvars /\ missed[q] \subseteq Missing(x, v)[q]
  BY DEF Missing, DataOK
<1>7. ASSUME NEW c \in Cvars, q \in served, Settled(q, c), c \notin Missing(x, v)[q]
      PROVE  Word(view[q], Broadcast(Event(x, v))[q], c) = new[c]
  <2>1. Word(view[q], down[q], c) = value[c]
    BY <1>6, <1>7 DEF Settled
  <2>2. new[c] = IF c = x THEN ApplySet(x, v) ELSE value[c]
    BY DEF DataOK
  <2>3. CASE Broadcast(Event(x, v))[q] = Append(down[q], m)
    <3>1. /\ About(m, c) <=> c = x
          /\ Says(m, c) = ApplySet(x, v)
      BY DEF About, Says
    <3>2. Word(view[q], Append(down[q], m), c)
              = IF About(m, c) THEN Says(m, c) ELSE Word(view[q], down[q], c)
      BY <1>2, <1>3, AppendWord
    <3> HIDE DEF m, new
    <3> QED BY <2>1, <2>2, <2>3, <3>1, <3>2
  <2>4. CASE Broadcast(Event(x, v))[q] = down[q] /\ ApplySet(x, v) = value[x]
    BY <2>1, <2>2, <2>4
  <2>5. CASE Broadcast(Event(x, v))[q] = down[q] /\ q \notin subscribed
    <3>1. ApplySet(x, v) # value[x] => x \in Missing(x, v)[q]
      BY <1>7, <2>5 DEF Missing
    <3> HIDE DEF new
    <3> QED BY <1>7, <2>1, <2>2, <2>5, <3>1
  <2> HIDE DEF m, new
  <2> QED BY <1>5, <2>3, <2>4, <2>5
<1> HIDE DEF m
<1> QED BY <1>3, <1>4, <1>5, <1>6, <1>7

-----------------------------------------------------------------------------
(* The engine's handlers.                                                  *)

\* What each handler leaves: the types, and every page that knew a value knowing it.
EngineKeeps ==
    /\ DataOK'
    /\ down' = [q \in Pages |-> down'[q]]
    /\ \A q \in Pages : down'[q] \in Seq(MayHear(q))
    /\ \A q \in served, c \in Cvars : Settled(q, c) => Settled(q, c)'

EngineFrame == UNCHANGED <<served, live, view, shown, edited>>

\* A page is served when its message is: a fresh one is always heard.
LEMMA FreshHeard ==
    ASSUME NEW p \in Pages, NEW m \in MayAsk(p), NEW heard \in Heard(p, m)
    PROVE  /\ heard \in BOOLEAN
           /\ ~m.old => heard
           /\ heard => p \in served
<1>1. p \notin served => m.old
  BY DEF MayAsk
<1>2. CASE ~m.old
  <2>1. heard \in {TRUE}
    BY <1>2, Zenon DEF Heard
  <2> QED BY <1>1, <1>2, <2>1, Zenon
<1>3. CASE m.old /\ p \in served
  <2>1. heard \in BOOLEAN
    BY <1>3, Zenon DEF Heard
  <2> QED BY <1>3, <2>1, Zenon
<1>4. CASE m.old /\ p \notin served
  <2>1. heard \in {FALSE}
    BY <1>4, Zenon DEF Heard
  <2> QED BY <1>4, <2>1, Zenon
<1> QED BY <1>2, <1>3, <1>4, Zenon

LEMMA ChangeKeeps ==
    ASSUME DataOK, QueuesOK, EngineFrame,
           NEW x \in Cvars, NEW v \in Values, Change(x, v)
    PROVE  EngineKeeps
<1>1. /\ value' = [value EXCEPT ![x] = ApplySet(x, v)]
      /\ down' = Broadcast(Event(x, v))
      /\ missed' = Missing(x, v)
      /\ subscribed' = subscribed
      /\ served' = served /\ live' = live /\ view' = view /\ shown' = shown /\ edited' = edited
  BY DEF Change, EngineFrame
<1>2. \A q \in Pages : /\ down'[q] \in Seq(MayHear(q))
                       /\ missed'[q] \in SUBSET Cvars
                       /\ \A c \in Cvars : q \in served /\ Settled(q, c) =>
                             c \in missed'[q] \/ Word(view[q], down'[q], c) = value'[c]
  BY <1>1, ChangeTold
<1>3. ApplySet(x, v) \in Values
  BY EventIs
<1>4. DataOK'
  <2>1. value' \in [Cvars -> Values]
    BY <1>1, <1>3 DEF DataOK
  <2>2. missed' \in [Pages -> SUBSET Cvars]
    BY <1>1, <1>2 DEF Missing
  <2> QED BY <1>1, <2>1, <2>2 DEF DataOK
<1>5. down' = [q \in Pages |-> down'[q]]
  BY <1>1 DEF Broadcast
<1>6. \A q \in served, c \in Cvars : Settled(q, c) => Settled(q, c)'
  BY <1>1, <1>2 DEF Settled, DataOK
<1> QED BY <1>2, <1>4, <1>5, <1>6 DEF EngineKeeps

\* The list is the last word on every cvar.
LEMMA ListKeeps ==
    ASSUME DataOK, QueuesOK, EngineFrame,
           NEW p \in Pages, NEW heard, HandleList(p, heard)
    PROVE  EngineKeeps /\ (heard => \A c \in Cvars : Settled(p, c)')
<1> DEFINE m == [type |-> "cvars", cvars |-> value]
<1>0. /\ value' = value /\ subscribed' = subscribed
      /\ served' = served /\ live' = live /\ view' = view /\ shown' = shown /\ edited' = edited
  BY DEF HandleList, EngineFrame
<1>1. CASE heard
  <2>1. down' = [down EXCEPT ![p] = Append(@, m)] /\ missed' = [missed EXCEPT ![p] = {}]
    BY <1>1 DEF HandleList
  <2>2. m \in Downs /\ m \in MayHear(p)
    BY DEF DataOK, Downs, MayHear
  <2>3. /\ down[p] \in Seq(MayHear(p)) /\ down[p] \in Seq(Downs) /\ view[p] \in Copies
        /\ down = [q \in Pages |-> down[q]] /\ missed \in [Pages -> SUBSET Cvars]
    BY QueueTypes DEF QueuesOK, DataOK
  <2>4. \A c \in Cvars : Word(view[p], Append(down[p], m), c) = value[c]
    <3>1. \A c \in Cvars : About(m, c) /\ Says(m, c) = value[c]
      BY DEF About, Says
    <3> HIDE DEF m
    <3> QED BY <2>2, <2>3, <3>1, AppendWord
  <2>5. /\ down'[p] = Append(down[p], m) /\ \A q \in Pages : q # p => down'[q] = down[q]
        /\ missed'[p] = {} /\ \A q \in Pages : q # p => missed'[q] = missed[q]
        /\ down' = [q \in Pages |-> down'[q]] /\ missed' \in [Pages -> SUBSET Cvars]
    BY <2>1, <2>3
  <2>6. \A c \in Cvars : Settled(p, c)'
    BY <1>0, <2>4, <2>5 DEF Settled
  <2>7. \A q \in served, c \in Cvars : Settled(q, c) => Settled(q, c)'
    <3> SUFFICES ASSUME NEW q \in served, NEW c \in Cvars, q # p, Settled(q, c)
                 PROVE  Settled(q, c)'
      BY <2>6
    <3>1. q \in Pages
      BY DEF DataOK
    <3> QED BY <1>0, <2>5, <3>1 DEF Settled
  <2>8. \A q \in Pages : down'[q] \in Seq(MayHear(q))
    <3>1. Append(down[p], m) \in Seq(MayHear(p))
      BY <2>2, <2>3, AppendProperties
    <3> QED BY <2>5, <3>1 DEF QueuesOK
  <2>9. DataOK'
    BY <1>0, <2>5 DEF DataOK
  <2> QED BY <2>5, <2>6, <2>7, <2>8, <2>9 DEF EngineKeeps
<1>2. CASE ~heard
  <2>1. down' = down /\ missed' = missed
    BY <1>2 DEF HandleList
  <2> QED BY <1>0, <1>2, <2>1 DEF EngineKeeps, DataOK, QueuesOK, Settled
<1> QED BY <1>1, <1>2

LEMMA SubscribeKeeps ==
    ASSUME DataOK, QueuesOK, EngineFrame,
           NEW p \in Pages, NEW heard, heard => p \in served, HandleSubscribe(p, heard)
    PROVE  EngineKeeps
<1>1. /\ value' = value /\ down' = down /\ missed' = missed
      /\ served' = served /\ live' = live /\ view' = view /\ shown' = shown /\ edited' = edited
  BY DEF HandleSubscribe, EngineFrame
<1>2. subscribed' \subseteq served
  <2>1. CASE heard
    BY <2>1 DEF HandleSubscribe, DataOK
  <2>2. CASE ~heard
    BY <2>2 DEF HandleSubscribe, DataOK
  <2> QED BY <2>1, <2>2
<1> QED BY <1>1, <1>2 DEF EngineKeeps, DataOK, QueuesOK, Settled

\* The result is the last word on the cvar that was set.
LEMMA SetKeeps ==
    ASSUME DataOK, QueuesOK, EngineFrame,
           NEW p \in Pages, NEW m \in MayAsk(p), m.type = "set",
           NEW heard, HandleSet(p, m, heard)
    PROVE  EngineKeeps /\ (heard => Settled(p, m.cvar)')
<1> DEFINE x == m.cvar
           v == m.value
           r == [type |-> "result", cvar |-> x, value |-> ApplySet(x, v)]
           told == Broadcast(Event(x, v))
           lost == Missing(x, v)
<1>0. x \in Cvars /\ v \in Values /\ x \in edited[p]
  BY UpTypes DEF MayAsk
<1> HIDE DEF x, v
<1>1. /\ value' = [value EXCEPT ![x] = ApplySet(x, v)]
      /\ subscribed' = subscribed
      /\ served' = served /\ live' = live /\ view' = view /\ shown' = shown /\ edited' = edited
  BY DEF HandleSet, EngineFrame, x, v
<1>2. /\ \A q \in Pages : /\ told[q] \in Seq(MayHear(q))
                          /\ lost[q] \in SUBSET Cvars
                          /\ \A c \in Cvars : q \in served /\ Settled(q, c) =>
                                c \in lost[q] \/ Word(view[q], told[q], c) = value'[c]
      /\ told = [q \in Pages |-> told[q]] /\ lost = [q \in Pages |-> lost[q]]
  BY <1>0, <1>1, ChangeTold DEF Broadcast, Missing
<1>3. ApplySet(x, v) \in Values /\ value'[x] = ApplySet(x, v)
  BY <1>0, <1>1, EventIs DEF DataOK
<1>4. value' \in [Cvars -> Values]
  BY <1>1, <1>3 DEF DataOK
<1> HIDE DEF told, lost
<1>5. CASE heard
  <2>1. /\ down' = [told EXCEPT ![p] = @ \o Reply(x, v)]
        /\ missed' = [lost EXCEPT ![p] = @ \ {x}]
    BY <1>5 DEF HandleSet, told, lost, x, v
  <2>2. r \in MayHear(p) /\ r \in Downs /\ Reply(x, v) = <<r>>
    BY <1>0, <1>3 DEF MayHear, Downs, Reply
  <2>3. told[p] \in Seq(MayHear(p)) /\ told[p] \in Seq(Downs) /\ view[p] \in Copies
    BY <1>2, UpsAndDowns, SeqMonotonic DEF DataOK
  <2>4. /\ told[p] \o Reply(x, v) = Append(told[p], r)
        /\ Append(told[p], r) \in Seq(MayHear(p))
    BY <2>2, <2>3, AppendIsConcat, AppendProperties
  <2>5. /\ down'[p] = Append(told[p], r) /\ \A q \in Pages : q # p => down'[q] = told[q]
        /\ missed'[p] = lost[p] \ {x} /\ \A q \in Pages : q # p => missed'[q] = lost[q]
        /\ down' = [q \in Pages |-> down'[q]] /\ missed' = [q \in Pages |-> missed'[q]]
    BY <1>2, <2>1, <2>4
  <2>6. \A c \in Cvars : Word(view[p], down'[p], c)
                            = IF c = x THEN value'[x] ELSE Word(view[p], told[p], c)
    <3>1. \A c \in Cvars : (About(r, c) <=> c = x) /\ Says(r, c) = value'[x]
      BY <1>3 DEF About, Says
    <3>2. \A c \in Cvars : Word(view[p], Append(told[p], r), c)
                = IF About(r, c) THEN Says(r, c) ELSE Word(view[p], told[p], c)
      BY <2>2, <2>3, AppendWord
    <3> HIDE DEF r
    <3> QED BY <2>5, <3>1, <3>2
  <2>7. Settled(p, x)'
    BY <1>0, <1>1, <2>6 DEF Settled
  <2>8. \A q \in served, c \in Cvars : Settled(q, c) => Settled(q, c)'
    <3> SUFFICES ASSUME NEW q \in served, NEW c \in Cvars, Settled(q, c), q # p \/ c # x
                 PROVE  Settled(q, c)'
      BY <2>7
    <3>1. q \in Pages
      BY DEF DataOK
    <3>2. c \in lost[q] \/ Word(view[q], told[q], c) = value'[c]
      BY <1>2, <3>1
    <3>3. CASE q = p
      BY <1>1, <2>5, <2>6, <3>2, <3>3 DEF Settled
    <3>4. CASE q # p
      BY <1>1, <2>5, <3>1, <3>2, <3>4 DEF Settled
    <3> QED BY <3>3, <3>4
  <2>9. \A q \in Pages : down'[q] \in Seq(MayHear(q))
    BY <1>2, <2>4, <2>5
  <2>10. missed' \in [Pages -> SUBSET Cvars]
    <3>1. \A q \in Pages : missed'[q] \in SUBSET Cvars
      BY <1>2, <2>5
    <3> QED BY <2>5, <3>1
  <2>11. DataOK'
    BY <1>1, <1>4, <2>10 DEF DataOK
  <2> QED BY <2>5, <2>7, <2>8, <2>9, <2>11 DEF EngineKeeps, x
<1>6. CASE ~heard
  <2>1. down' = told /\ missed' = lost
    BY <1>6 DEF HandleSet, told, lost, x, v
  <2>2. missed' \in [Pages -> SUBSET Cvars]
    BY <1>2, <2>1
  <2>3. DataOK'
    BY <1>1, <1>4, <2>2 DEF DataOK
  <2>4. \A q \in served, c \in Cvars : Settled(q, c) => Settled(q, c)'
    BY <1>1, <1>2, <2>1 DEF Settled, DataOK
  <2> QED BY <1>2, <1>6, <2>1, <2>3, <2>4 DEF EngineKeeps
<1> QED BY <1>5, <1>6

-----------------------------------------------------------------------------
(* Every step keeps the invariant: the engine's and the connection's.       *)

LEMMA HandleMessageKeeps ==
    ASSUME IInv, NEW p \in Pages, HandleMessage(p)
    PROVE  IInv'
<1>0. DataOK /\ CountersOK /\ QueuesOK /\ EditingInv /\ WordInv /\ UntouchedShown
  BY DEF IInv
<1>1. /\ up[p] # <<>> /\ up' = [up EXCEPT ![p] = Tail(@)]
      /\ UNCHANGED <<served, live, view, shown, edited, editing, edits, others, opens>>
  BY DEF HandleMessage, pageVars, counters
<1>2. up[p] \in Seq(MayAsk(p)) /\ up = [q \in Pages |-> up[q]]
  BY <1>0 DEF QueuesOK
<1>3. Head(up[p]) \in MayAsk(p) /\ Tail(up[p]) \in Seq(MayAsk(p))
  BY <1>1, <1>2, HeadTailProperties
<1>4. PICK m \in MayAsk(p) : m = Head(up[p])
  BY <1>3
<1>5. m \in Ups
  BY UpsAndDowns
<1>6. /\ up'[p] = Tail(up[p]) /\ \A q \in Pages : q # p => up'[q] = up[q]
      /\ up' = [q \in Pages |-> up'[q]]
  BY <1>1, <1>2
<1>7. PICK heard \in Heard(p, m) :
         \/ m.type = "list" /\ HandleList(p, heard)
         \/ m.type = "subscribe" /\ HandleSubscribe(p, heard)
         \/ m.type = "set" /\ HandleSet(p, m, heard)
         \/ m.type = "exec" /\ Change(m.cvar, m.value)
  BY <1>4 DEF HandleMessage
<1>8. EngineFrame
  BY <1>1 DEF EngineFrame
<1>9. (~m.old => heard) /\ (heard => p \in served)
  BY <1>3, FreshHeard
<1>10. /\ EngineKeeps
      /\ \A c \in Cvars : Asks(m, "list", c) \/ Asks(m, "set", c) => Settled(p, c)'
  <2>1. CASE m.type = "list" /\ HandleList(p, heard)
    <3>1. EngineKeeps /\ (heard => \A c \in Cvars : Settled(p, c)')
      BY <1>0, <1>8, <2>1, ListKeeps
    <3> QED BY <1>9, <2>1, <3>1 DEF Asks
  <2>2. CASE m.type = "subscribe" /\ HandleSubscribe(p, heard)
    <3>1. EngineKeeps
      BY <1>0, <1>8, <1>9, <2>2, SubscribeKeeps
    <3> QED BY <2>2, <3>1 DEF Asks
  <2>3. CASE m.type = "set" /\ HandleSet(p, m, heard)
    <3>0. m.type = "set" /\ HandleSet(p, m, heard)
      BY <2>3
    <3>1. EngineKeeps /\ (heard => Settled(p, m.cvar)')
      BY <1>0, <1>8, <3>0, SetKeeps
    <3>2. ASSUME NEW c \in Cvars, Asks(m, "list", c) \/ Asks(m, "set", c)
          PROVE  Settled(p, c)'
      <4>1. c = m.cvar /\ ~m.old
        BY <3>0, <3>2 DEF Asks
      <4>2. Settled(p, m.cvar)'
        BY <1>9, <3>1, <4>1
      <4> QED BY <4>1, <4>2
    <3> QED BY <3>1, <3>2
  <2>4. CASE m.type = "exec" /\ Change(m.cvar, m.value)
    <3>1. m.cvar \in Cvars /\ m.value \in Values
      BY <1>5, <2>4, UpTypes
    <3>2. EngineKeeps
      BY <1>0, <1>8, <2>4, <3>1, ChangeKeeps
    <3> QED BY <2>4, <3>2 DEF Asks
  <2> QED BY <1>7, <2>1, <2>2, <2>3, <2>4
<1>11. QueuesOK'
  <2>1. ASSUME NEW q \in Pages
        PROVE  up'[q] \in Seq(MayAsk(q)') /\ down'[q] \in Seq(MayHear(q)')
    <3>1. up'[q] \in Seq(MayAsk(q)) /\ down'[q] \in Seq(MayHear(q))
      BY <1>0, <1>3, <1>6, <1>10 DEF EngineKeeps, QueuesOK
    <3> QED BY <1>1, <3>1, MayGrow
  <2> QED BY <1>6, <1>10, <2>1 DEF QueuesOK, EngineKeeps
<1>12. WordInv'
  <2> SUFFICES ASSUME NEW q \in served, NEW c \in Cvars
               PROVE  Asked(up'[q], "list", c) \/ Asked(up'[q], "set", c) \/ Settled(q, c)'
    BY <1>1 DEF WordInv
  <2>1. Asked(up[q], "list", c) \/ Asked(up[q], "set", c) \/ Settled(q, c)
    BY <1>0 DEF WordInv
  <2>2. q \in Pages
    BY <1>0 DEF DataOK
  <2>3. Settled(q, c) => Settled(q, c)'
    BY <1>10 DEF EngineKeeps
  <2>4. CASE q # p
    BY <1>6, <2>1, <2>2, <2>3, <2>4
  <2>5. CASE q = p
    <3>1. \A t : Asked(up[p], t, c) => Asks(m, t, c) \/ Asked(up'[p], t, c)
      BY <1>1, <1>2, <1>6, <1>4, AskedLater
    <3> QED BY <1>10, <2>1, <2>3, <2>5, <3>1
  <2> QED BY <2>4, <2>5
<1>13. CountersOK' /\ EditingInv' /\ UntouchedShown'
  BY <1>0, <1>1 DEF CountersOK, EditingInv, UntouchedShown
<1> QED BY <1>10, <1>11, <1>12, <1>13 DEF IInv, EngineKeeps

LEMMA OtherSetsKeeps ==
    ASSUME IInv, NEW x \in Cvars, NEW v \in Values, OtherSets(x, v)
    PROVE  IInv'
<1>0. DataOK /\ CountersOK /\ QueuesOK /\ EditingInv /\ WordInv /\ UntouchedShown
  BY DEF IInv
<1>1. /\ others < MaxOthers /\ others' = others + 1 /\ Change(x, v)
      /\ UNCHANGED <<served, up, live, view, shown, edited, editing, edits, opens>>
  BY DEF OtherSets, pageVars
<1>2. EngineKeeps
  BY <1>0, <1>1, ChangeKeeps DEF EngineFrame
<1>3. QueuesOK'
  <2>1. ASSUME NEW q \in Pages
        PROVE  up'[q] \in Seq(MayAsk(q)') /\ down'[q] \in Seq(MayHear(q)')
    <3>1. up'[q] \in Seq(MayAsk(q)) /\ down'[q] \in Seq(MayHear(q))
      BY <1>0, <1>1, <1>2 DEF EngineKeeps, QueuesOK
    <3> QED BY <1>1, <3>1, MayGrow
  <2> QED BY <1>0, <1>1, <1>2, <2>1 DEF QueuesOK, EngineKeeps
<1>4. WordInv'
  BY <1>0, <1>1, <1>2 DEF WordInv, EngineKeeps
<1>5. CountersOK'
  BY <1>0, <1>1, HudAssumption DEF CountersOK
<1>6. EditingInv' /\ UntouchedShown'
  BY <1>0, <1>1 DEF EditingInv, UntouchedShown
<1> QED BY <1>2, <1>3, <1>4, <1>5, <1>6 DEF IInv, EngineKeeps

\* A page that opens a connection has its list coming.
LEMMA OpenKeeps ==
    ASSUME IInv, NEW p \in Pages, Open(p)
    PROVE  IInv'
<1> DEFINE ask == [type |-> "list", old |-> FALSE]
           sub == [type |-> "subscribe", old |-> FALSE]
<1>0. DataOK /\ CountersOK /\ QueuesOK /\ EditingInv /\ WordInv /\ UntouchedShown
  BY DEF IInv
<1>1. /\ opens < MaxOpens /\ opens' = opens + 1
      /\ live' = live \cup {p} /\ served' = served \cup {p}
      /\ up' = [up EXCEPT ![p] = @ \o <<ask, sub>>]
      /\ missed' = [missed EXCEPT ![p] = {}]
      /\ UNCHANGED <<value, subscribed, down, view, shown, editing, edited, edits, others>>
  BY DEF Open
<1>2. DataOK'
  <2>1. missed' \in [Pages -> SUBSET Cvars]
    BY <1>0, <1>1 DEF DataOK
  <2> QED BY <1>0, <1>1, <2>1 DEF DataOK
<1>3. \A q \in Pages : up[q] \in Seq(MayAsk(q)') /\ down[q] \in Seq(MayHear(q)')
  BY <1>0, <1>1, MayGrow DEF QueuesOK
<1>4. ask \in MayAsk(p)' /\ sub \in MayAsk(p)'
  BY <1>1 DEF MayAsk, Ups
<1> HIDE DEF ask, sub
<1>5. <<ask, sub>> \in Seq(MayAsk(p)') /\ <<ask, sub>>[1] = ask /\ 1 \in DOMAIN <<ask, sub>>
  BY <1>4
<1>6. /\ up'[p] = up[p] \o <<ask, sub>> /\ \A q \in Pages : q # p => up'[q] = up[q]
      /\ up' = [q \in Pages |-> up'[q]]
  BY <1>0, <1>1 DEF QueuesOK
<1>7. up'[p] \in Seq(MayAsk(p)')
  BY <1>3, <1>5, <1>6, ConcatProperties
<1>8. QueuesOK'
  BY <1>0, <1>1, <1>3, <1>6, <1>7 DEF QueuesOK
<1>9. WordInv'
  <2> SUFFICES ASSUME NEW q \in served', NEW c \in Cvars
               PROVE  Asked(up'[q], "list", c) \/ Asked(up'[q], "set", c) \/ Settled(q, c)'
    BY DEF WordInv
  <2>1. CASE q = p
    <3>1. Asks(ask, "list", c)
      BY DEF Asks, ask
    <3>2. Asked(up'[p], "list", c)
      BY <1>3, <1>5, <1>6, <3>1, AskedMore
    <3> QED BY <2>1, <3>2
  <2>2. CASE q # p
    <3>1. q \in served /\ q \in Pages
      BY <1>0, <1>1, <2>2 DEF DataOK
    <3>2. up'[q] = up[q] /\ missed'[q] = missed[q]
      BY <1>0, <1>1, <1>6, <2>2, <3>1 DEF DataOK
    <3>3. Settled(q, c)' <=> Settled(q, c)
      BY <1>1, <3>2 DEF Settled
    <3> QED BY <1>0, <3>1, <3>2, <3>3 DEF WordInv
  <2> QED BY <2>1, <2>2
<1>10. CountersOK'
  BY <1>0, <1>1, HudAssumption DEF CountersOK
<1>11. EditingInv' /\ UntouchedShown'
  BY <1>0, <1>1 DEF EditingInv, UntouchedShown
<1> QED BY <1>2, <1>8, <1>9, <1>10, <1>11 DEF IInv

\* What a broken connection leaves behind is old.
LEMMA WsCloseKeeps ==
    ASSUME IInv, NEW p \in Pages, WsClose(p)
    PROVE  IInv'
<1>0. DataOK /\ CountersOK /\ QueuesOK /\ EditingInv /\ WordInv /\ UntouchedShown
  BY DEF IInv
<1>1. /\ p \in served
      /\ served' = served \ {p} /\ subscribed' = subscribed \ {p}
      /\ UNCHANGED <<value, live, view, shown, edited, editing, edits, others, opens, missed>>
  BY DEF WsClose, pageVars, counters
<1>2. PICK n \in 0..Len(up[p]), k \in 0..Len(down[p]) :
         /\ up' = [up EXCEPT ![p] = [i \in 1..n |-> [up[p][i] EXCEPT !.old = TRUE]]]
         /\ down' = [down EXCEPT ![p] = SubSeq(@, 1, k)]
  BY DEF WsClose
<1>3. /\ up[p] \in Seq(MayAsk(p)) /\ down[p] \in Seq(MayHear(p))
      /\ Len(up[p]) \in Nat /\ Len(down[p]) \in Nat
  BY <1>0, LenProperties DEF QueuesOK
<1>4. /\ up'[p] = [i \in 1..n |-> [up[p][i] EXCEPT !.old = TRUE]]
      /\ \A q \in Pages : q # p => up'[q] = up[q]
      /\ down'[p] = SubSeq(down[p], 1, k)
      /\ \A q \in Pages : q # p => down'[q] = down[q]
      /\ up' = [q \in Pages |-> up'[q]] /\ down' = [q \in Pages |-> down'[q]]
  BY <1>0, <1>2 DEF QueuesOK
<1>5. ASSUME NEW m \in MayAsk(p) PROVE [m EXCEPT !.old = TRUE] \in MayAsk(p)'
  <2>1. m \in Ups /\ (m.type = "set" => m.cvar \in edited[p])
    BY DEF MayAsk
  <2>2. [m EXCEPT !.old = TRUE] \in Ups
    <3>1. CASE m \in [type : {"list", "subscribe"}, old : BOOLEAN]
      BY <3>1 DEF Ups
    <3>2. CASE m \in [type : {"set", "exec"}, cvar : Cvars, value : Values, old : BOOLEAN]
      BY <3>2 DEF Ups
    <3> QED BY <2>1, <3>1, <3>2 DEF Ups
  <2>3. /\ [m EXCEPT !.old = TRUE].type = m.type /\ [m EXCEPT !.old = TRUE].old
        /\ m.type = "set" => [m EXCEPT !.old = TRUE].cvar = m.cvar
    <3>1. CASE m \in [type : {"list", "subscribe"}, old : BOOLEAN]
      BY <3>1
    <3>2. CASE m \in [type : {"set", "exec"}, cvar : Cvars, value : Values, old : BOOLEAN]
      BY <3>2
    <3> QED BY <2>1, <3>1, <3>2 DEF Ups
  <2> QED BY <1>1, <2>1, <2>2, <2>3 DEF MayAsk
<1>6. up'[p] \in Seq(MayAsk(p)')
  <2>1. n \in Nat /\ \A i \in 1..n : up[p][i] \in MayAsk(p)
    BY <1>3, ElementOfSeq
  <2>2. \A i \in 1..n : up'[p][i] \in MayAsk(p)'
    BY <1>4, <1>5, <2>1
  <2>3. up'[p] \in [1..n -> MayAsk(p)']
    BY <1>4, <2>2
  <2> QED BY <2>1, <2>3
<1>7. down'[p] \in Seq(MayHear(p)')
  <2>1. SubSeq(down[p], 1, k) \in Seq(MayHear(p))
    BY <1>3, SubSeqProperties
  <2>2. MayHear(p)' = MayHear(p)
    BY <1>1 DEF MayHear
  <2> QED BY <1>4, <2>1, <2>2
<1>8. QueuesOK'
  <2>1. ASSUME NEW q \in Pages, q # p
        PROVE  up'[q] \in Seq(MayAsk(q)') /\ down'[q] \in Seq(MayHear(q)')
    <3>1. up'[q] \in Seq(MayAsk(q)) /\ down'[q] \in Seq(MayHear(q))
      BY <1>0, <1>4, <2>1 DEF QueuesOK
    <3> QED BY <1>1, <2>1, <3>1, MayGrow
  <2> QED BY <1>4, <1>6, <1>7, <2>1 DEF QueuesOK
<1>9. WordInv'
  <2> SUFFICES ASSUME NEW q \in served, q # p, NEW c \in Cvars
               PROVE  Asked(up'[q], "list", c) \/ Asked(up'[q], "set", c) \/ Settled(q, c)'
    BY <1>1 DEF WordInv
  <2>1. q \in Pages
    BY <1>0 DEF DataOK
  <2> QED BY <1>0, <1>1, <1>4, <2>1 DEF WordInv, Settled
<1>10. DataOK' /\ CountersOK' /\ EditingInv' /\ UntouchedShown'
  BY <1>0, <1>1 DEF DataOK, CountersOK, EditingInv, UntouchedShown
<1> QED BY <1>8, <1>9, <1>10 DEF IInv

LEMMA OnCloseKeeps ==
    ASSUME IInv, NEW p \in Pages, OnClose(p)
    PROVE  IInv'
<1>1. /\ p \notin served /\ live' = live \ {p}
      /\ UNCHANGED <<value, served, subscribed, up, down, view, shown, edited, editing, missed,
                     edits, others, opens>>
  BY DEF OnClose, engineVars, counters
<1>2. DataOK'
  BY <1>1 DEF IInv, DataOK
<1>3. QueuesOK'
  BY <1>1 DEF IInv, QueuesOK, MayAsk, MayHear
<1>4. WordInv'
  BY <1>1 DEF IInv, WordInv, Settled
<1>5. CountersOK' /\ EditingInv' /\ UntouchedShown'
  BY <1>1 DEF IInv, CountersOK, EditingInv, UntouchedShown
<1> QED BY <1>2, <1>3, <1>4, <1>5 DEF IInv

-----------------------------------------------------------------------------
(* Every step keeps the invariant: the page's.                              *)

\* What a page sends is lost, or behind everything it asked before.
LEMMA SendKeeps ==
    ASSUME DataOK, QueuesOK, NEW p \in Pages, NEW ms, Send(p, ms),
           \A q \in Pages : edited[q] \subseteq edited'[q],
           UNCHANGED <<served, down>>,
           ms \in Seq({m \in Ups : ~m.old /\ (m.type = "set" => m.cvar \in edited'[p])})
    PROVE  /\ QueuesOK'
           /\ \A q \in Pages : \A t, c : Asked(up[q], t, c) => Asked(up'[q], t, c)
           /\ p \in served => \A i \in DOMAIN ms : \A t, c : Asks(ms[i], t, c) => Asked(up'[p], t, c)
<1> DEFINE sent == p \in live \cap served
<1>1. \A q \in Pages : up[q] \in Seq(MayAsk(q)') /\ down[q] \in Seq(MayHear(q)')
  BY MayGrow DEF QueuesOK
<1>2. p \in served <=> sent
  BY DEF DataOK
<1>3. /\ \A q \in Pages : q # p => up'[q] = up[q]
      /\ up'[p] = IF sent THEN up[p] \o ms ELSE up[p]
      /\ up' = [q \in Pages |-> up'[q]]
  BY DEF Send, QueuesOK
<1>4. CASE sent
  <2>1. {m \in Ups : ~m.old /\ (m.type = "set" => m.cvar \in edited'[p])} \subseteq MayAsk(p)'
    BY <1>2, <1>4 DEF MayAsk
  <2>2. ms \in Seq(MayAsk(p)')
    BY <2>1, SeqMonotonic
  <2>3. up'[p] \in Seq(MayAsk(p)')
    BY <1>1, <1>3, <1>4, <2>2, ConcatProperties
  <2>4. QueuesOK'
    BY <1>1, <1>3, <2>3 DEF QueuesOK
  <2>5. /\ \A t, c : Asked(up[p], t, c) => Asked(up'[p], t, c)
        /\ \A i \in DOMAIN ms : \A t, c : Asks(ms[i], t, c) => Asked(up'[p], t, c)
    BY <1>1, <1>3, <1>4, <2>2, AskedMore
  <2> QED BY <1>3, <2>4, <2>5
<1>5. CASE ~sent
  <2>1. \A q \in Pages : up'[q] = up[q]
    BY <1>3, <1>5
  <2>2. QueuesOK'
    BY <1>1, <1>3, <2>1 DEF QueuesOK
  <2> QED BY <1>2, <1>5, <2>1, <2>2
<1> QED BY <1>4, <1>5

\* An edit of the copy: what was settled stays so for the cvars it leaves alone.
LEMMA WordOfCopy ==
    ASSUME NEW c, NEW d, NEW copy, NEW other, copy[c] = other[c]
    PROVE  Word(copy, d, c) = Word(other, d, c)
  BY DEF Word

\* Edits of the cvars C by the user of page p: the copy becomes new, the messages ms ask for
\* every one of C to be set, and only controls of edited cvars may be left behind.
EditsOf(p, C, new, ms) ==
    /\ view' = [view EXCEPT ![p] = new]
    /\ \A c \in Cvars \ C : new[c] = view[p][c]
    /\ edited' = [edited EXCEPT ![p] = @ \cup C]
    /\ editing' \in [Pages -> Cvars \cup {Nobody}]
    /\ editing'[p] \in C /\ \A q \in Pages : q # p => editing'[q] = editing[q]
    /\ Send(p, ms)
    /\ ms \in Seq({m \in Ups : m.type = "set" /\ ~m.old /\ m.cvar \in C})
    /\ \A c \in C : \E i \in DOMAIN ms : ms[i].cvar = c
    /\ shown' \in [Pages -> Copies]
    /\ \A q \in Pages : q # p => shown'[q] = shown[q]
    /\ \A c \in Cvars : c \notin edited[p] \cup C => shown'[p][c] = new[c]
    /\ UNCHANGED <<value, served, subscribed, live, down, missed>>

LEMMA EditsKeep ==
    ASSUME IInv, CountersOK', NEW p \in Pages, NEW C \in SUBSET Cvars, NEW new \in Copies,
           NEW ms, EditsOf(p, C, new, ms)
    PROVE  IInv'
<1> USE DEF EditsOf
<1>0. DataOK /\ CountersOK /\ QueuesOK /\ EditingInv /\ WordInv /\ UntouchedShown
  BY DEF IInv
<1>1. /\ view'[p] = new /\ \A q \in Pages : q # p => view'[q] = view[q]
      /\ edited'[p] = edited[p] \cup C /\ \A q \in Pages : q # p => edited'[q] = edited[q]
      /\ view' \in [Pages -> Copies] /\ edited' \in [Pages -> SUBSET Cvars]
  BY <1>0 DEF DataOK
<1>2. DataOK'
  BY <1>0, <1>1 DEF DataOK
<1>3. ms \in Seq({m \in Ups : ~m.old /\ (m.type = "set" => m.cvar \in edited'[p])})
  <2>1. {m \in Ups : m.type = "set" /\ ~m.old /\ m.cvar \in C}
           \subseteq {m \in Ups : ~m.old /\ (m.type = "set" => m.cvar \in edited'[p])}
    BY <1>1
  <2> QED BY <2>1, SeqMonotonic
<1>4. \A q \in Pages : edited[q] \subseteq edited'[q]
  BY <1>1
<1>5. /\ QueuesOK'
      /\ \A q \in Pages : \A t, c : Asked(up[q], t, c) => Asked(up'[q], t, c)
      /\ p \in served => \A i \in DOMAIN ms : \A t, c : Asks(ms[i], t, c) => Asked(up'[p], t, c)
  BY <1>0, <1>3, <1>4, SendKeeps
<1>6. WordInv'
  <2> SUFFICES ASSUME NEW q \in served, NEW c \in Cvars
               PROVE  Asked(up'[q], "list", c) \/ Asked(up'[q], "set", c) \/ Settled(q, c)'
    BY DEF WordInv
  <2>1. q \in Pages
    BY <1>0 DEF DataOK
  <2>2. CASE q = p /\ c \in C
    <3>1. PICK i \in DOMAIN ms : ms[i].cvar = c
      BY <2>2
    <3>2. ms[i] \in {m \in Ups : m.type = "set" /\ ~m.old /\ m.cvar \in C}
      BY <3>1, ElementOfSeq, LenProperties
    <3>3. Asks(ms[i], "set", c)
      BY <3>1, <3>2 DEF Asks
    <3> QED BY <1>5, <2>2, <3>3
  <2>3. CASE ~(q = p /\ c \in C)
    <3>1. view'[q][c] = view[q][c]
      BY <1>1, <2>1, <2>3
    <3>2. Word(view'[q], down[q], c) = Word(view[q], down[q], c)
      BY <3>1, WordOfCopy
    <3>3. Settled(q, c) => Settled(q, c)'
      BY <3>2 DEF Settled
    <3> QED BY <1>0, <1>5, <2>1, <3>3 DEF WordInv
  <2> QED BY <2>2, <2>3
<1>7. EditingInv'
  BY <1>0, <1>1 DEF EditingInv
<1>8. UntouchedShown'
  BY <1>0, <1>1 DEF UntouchedShown
<1> QED BY <1>2, <1>5, <1>6, <1>7, <1>8 DEF IInv

LEMMA EditKeeps ==
    ASSUME IInv, NEW p \in Pages, NEW c \in Cvars, NEW v \in Values, Edit(p, c, v)
    PROVE  IInv'
<1> DEFINE m   == [type |-> "set", cvar |-> c, value |-> v, old |-> FALSE]
           new == [view[p] EXCEPT ![c] = v]
<1>0. DataOK /\ CountersOK /\ UntouchedShown /\ EditingInv
  BY DEF IInv
<1>1. /\ edits < MaxEdits /\ edits' = edits + 1
      /\ view' = [view EXCEPT ![p][c] = v]
      /\ editing' = [editing EXCEPT ![p] = c]
      /\ edited' = [edited EXCEPT ![p] = @ \cup {c}]
      /\ Send(p, <<m>>)
      /\ UNCHANGED <<value, served, subscribed, live, down, missed, others, opens>>
  BY DEF Edit, engineVars
<1>2. view[p] \in Copies /\ view = [q \in Pages |-> view[q]]
  BY <1>0 DEF DataOK
<1>3. /\ new \in Copies /\ \A d \in Cvars \ {c} : new[d] = view[p][d]
      /\ view' = [view EXCEPT ![p] = new]
  BY <1>1, <1>2 DEF Copies
<1>4. /\ editing'[p] = c /\ \A q \in Pages : q # p => editing'[q] = editing[q]
      /\ editing' \in [Pages -> Cvars \cup {Nobody}]
  BY <1>0, <1>1 DEF EditingInv
<1>5. /\ <<m>> \in Seq({u \in Ups : u.type = "set" /\ ~u.old /\ u.cvar \in {c}})
      /\ \A d \in {c} : \E i \in DOMAIN <<m>> : <<m>>[i].cvar = d
  <2>1. m \in {u \in Ups : u.type = "set" /\ ~u.old /\ u.cvar \in {c}} /\ m.cvar = c
    BY DEF Ups
  <2> HIDE DEF m
  <2>2. 1 \in DOMAIN <<m>> /\ <<m>>[1] = m
    OBVIOUS
  <2> QED BY <2>1, <2>2
<1>6. /\ shown' \in [Pages -> Copies]
      /\ \A q \in Pages : q # p => shown'[q] = shown[q]
      /\ \A d \in Cvars : d \notin edited[p] \cup {c} => shown'[p][d] = new[d]
  <2>0. shown \in [Pages -> Copies] /\ view'[p] = new
    BY <1>0, <1>2, <1>3 DEF DataOK
  <2>1. CASE c \in DeckCvars
    <3>1. shown' = [shown EXCEPT ![p] = new]
      BY <1>1, <2>0, <2>1 DEF Edit, Redrawn
    <3> QED BY <1>3, <2>0, <3>1
  <2>2. CASE c \notin DeckCvars
    <3>1. shown' = [shown EXCEPT ![p][c] = new[c]]
      BY <1>1, <2>0, <2>2 DEF Edit, Synced
    <3>2. new[c] = v /\ shown[p] \in Copies
      BY <1>2, <2>0 DEF Copies
    <3>3. /\ shown'[p] = [shown[p] EXCEPT ![c] = v]
          /\ \A q \in Pages : q # p => shown'[q] = shown[q]
          /\ shown' = [q \in Pages |-> shown'[q]]
      <4>1. shown' = [shown EXCEPT ![p] = [shown[p] EXCEPT ![c] = v]]
        BY <3>1, <3>2
      <4> QED BY <2>0, <4>1
    <3>4. shown'[p] \in Copies /\ \A d \in Cvars \ {c} : shown'[p][d] = shown[p][d]
      BY <3>2, <3>3 DEF Copies
    <3>5. \A d \in Cvars : d \notin edited[p] => shown[p][d] = view[p][d]
      BY <1>0 DEF UntouchedShown
    <3>6. shown' \in [Pages -> Copies]
      BY <2>0, <3>3, <3>4
    <3> QED BY <1>3, <3>3, <3>4, <3>5, <3>6
  <2> QED BY <2>1, <2>2
<1>7. CountersOK'
  BY <1>0, <1>1, HudAssumption DEF CountersOK
<1> HIDE DEF m, new
<1>8. EditsOf(p, {c}, new, <<m>>)
  BY <1>1, <1>3, <1>4, <1>5, <1>6 DEF EditsOf
<1>9. {c} \in SUBSET Cvars
  OBVIOUS
<1> QED BY <1>3, <1>7, <1>8, <1>9, EditsKeep

Settings == Seq([cvar : Cvars, value : Values])

\* The copy after some settings has their values, and the others as they were.
LEMMA OverwrittenIs ==
    ASSUME NEW copy \in Copies, NEW s \in Settings
    PROVE  /\ Overwritten(copy, s) \in Copies
           /\ \A c \in Cvars \ {s[i].cvar : i \in DOMAIN s} : Overwritten(copy, s)[c] = copy[c]
<1>1. Len(s) \in Nat /\ DOMAIN s = 1..Len(s) /\ \A i \in 1..Len(s) : s[i].value \in Values
  <2>1. \A i \in 1..Len(s) : s[i] \in [cvar : Cvars, value : Values]
    BY ElementOfSeq DEF Settings
  <2> QED BY <2>1, LenProperties DEF Settings
<1>2. ASSUME NEW c \in Cvars
      PROVE  /\ Overwritten(copy, s)[c] \in Values \cup {Unlisted}
             /\ c \notin {s[i].cvar : i \in DOMAIN s} => Overwritten(copy, s)[c] = copy[c]
  <2> DEFINE hits == {i \in DOMAIN s : s[i].cvar = c}
  <2>1. Overwritten(copy, s)[c] = IF hits = {} THEN copy[c] ELSE s[Max(hits)].value
    BY DEF Overwritten
  <2>2. hits \in SUBSET (1..Len(s)) /\ copy[c] \in Values \cup {Unlisted}
    BY <1>1 DEF Copies
  <2>3. hits # {} => Max(hits) \in 1..Len(s)
    <3> HIDE DEF hits
    <3> QED BY <1>1, <2>2, MaxPosition
  <2>4. c \notin {s[i].cvar : i \in DOMAIN s} => hits = {}
    OBVIOUS
  <2> HIDE DEF hits
  <2> QED BY <1>1, <2>1, <2>2, <2>3, <2>4
<1>3. Overwritten(copy, s) = [c \in Cvars |-> Overwritten(copy, s)[c]]
  BY DEF Overwritten
<1> QED BY <1>2, <1>3 DEF Copies

LEMMA SetAllKeeps ==
    ASSUME IInv, NEW p \in Pages, NEW s \in Settings, s # <<>>, SetAll(p, s),
           shown' \in [Pages -> Copies],
           \A q \in Pages : q # p => shown'[q] = shown[q],
           \A c \in Cvars \ {s[i].cvar : i \in DOMAIN s} : shown'[p][c] = view[p][c],
           UNCHANGED <<value, served, subscribed, live, down, missed, others, opens>>
    PROVE  IInv'
<1> DEFINE C   == {s[i].cvar : i \in DOMAIN s}
           new == Overwritten(view[p], s)
           ms  == [i \in DOMAIN s |-> [type |-> "set", cvar |-> s[i].cvar,
                                       value |-> s[i].value, old |-> FALSE]]
<1>0. DataOK /\ CountersOK /\ EditingInv
  BY DEF IInv
<1>1. /\ edits + Len(s) <= MaxEdits /\ edits' = edits + Len(s)
      /\ view' = [view EXCEPT ![p] = new]
      /\ editing' = [editing EXCEPT ![p] = Last(s).cvar]
      /\ edited' = [edited EXCEPT ![p] = @ \cup C]
      /\ Send(p, ms)
  BY DEF SetAll
<1>2. /\ Len(s) \in Nat \ {0} /\ DOMAIN s = 1..Len(s)
      /\ \A i \in 1..Len(s) : s[i] \in [cvar : Cvars, value : Values]
  BY ElementOfSeq, LenProperties, EmptySeq DEF Settings
<1>3. C \in SUBSET Cvars /\ Last(s).cvar \in C
  BY <1>2 DEF Last
<1>4. new \in Copies /\ \A c \in Cvars \ C : new[c] = view[p][c]
  BY <1>0, OverwrittenIs DEF DataOK
<1>5. ms \in Seq({m \in Ups : m.type = "set" /\ ~m.old /\ m.cvar \in C})
  <2>1. \A i \in 1..Len(s) : ms[i] \in {m \in Ups : m.type = "set" /\ ~m.old /\ m.cvar \in C}
    <3> SUFFICES ASSUME NEW i \in 1..Len(s)
                 PROVE  ms[i] \in {m \in Ups : m.type = "set" /\ ~m.old /\ m.cvar \in C}
      OBVIOUS
    <3>1. ms[i] = [type |-> "set", cvar |-> s[i].cvar, value |-> s[i].value, old |-> FALSE]
      BY <1>2
    <3>2. s[i].cvar \in C /\ s[i].cvar \in Cvars /\ s[i].value \in Values
      BY <1>2
    <3> HIDE DEF C, ms
    <3> QED BY <3>1, <3>2 DEF Ups
  <2>2. ms \in [1..Len(s) -> {m \in Ups : m.type = "set" /\ ~m.old /\ m.cvar \in C}]
    BY <1>2, <2>1
  <2> HIDE DEF C, ms
  <2> QED BY <1>2, <2>2
<1>6. \A c \in C : \E i \in DOMAIN ms : ms[i].cvar = c
  OBVIOUS
<1>7. /\ editing'[p] \in C /\ \A q \in Pages : q # p => editing'[q] = editing[q]
      /\ editing' \in [Pages -> Cvars \cup {Nobody}]
  BY <1>0, <1>1, <1>3 DEF EditingInv
<1>8. CountersOK'
  BY <1>0, <1>1, <1>2, HudAssumption DEF CountersOK
<1>9. \A c \in Cvars : c \notin edited[p] \cup C => shown'[p][c] = new[c]
  BY <1>4
<1> HIDE DEF C, new, ms
<1>10. EditsOf(p, C, new, ms)
  BY <1>1, <1>4, <1>5, <1>6, <1>7, <1>9 DEF EditsOf
<1> QED BY <1>3, <1>4, <1>8, <1>10, EditsKeep

LEMMA ResetGroupKeeps ==
    ASSUME IInv, NEW p \in Pages, ResetGroup(p)
    PROVE  IInv'
<1> DEFINE order == SetToSeq(Cvars)
           s     == [i \in DOMAIN order |-> [cvar |-> order[i], value |-> Defaults[order[i]]]]
<1>0. DataOK
  BY DEF IInv
<1>1. order \in [1..Cardinality(Cvars) -> Cvars] /\ Cardinality(Cvars) \in Nat \ {0}
  <2>1. PICK n \in Nat : ExistsBijection(1..n, Cvars)
    BY HudAssumption, FS_NatBijection
  <2>2. Cardinality(Cvars) = n /\ n # 0
    BY <2>1, HudAssumption, FS_CountingElements, FS_EmptySet
  <2>3. \E f \in [1..n -> Cvars] : IsInjective(f)
    BY <2>1 DEF ExistsBijection, Bijection, Injection, IsInjective
  <2> QED BY <2>2, <2>3 DEF SetToSeq
<1> HIDE DEF order
<1>2. s \in Settings /\ s # <<>>
  <2> DEFINE n == Cardinality(Cvars)
  <2>1. n \in Nat \ {0} /\ order \in [1..n -> Cvars]
    BY <1>1
  <2> HIDE DEF n
  <2>2. s \in [1..n -> [cvar : Cvars, value : Values]] /\ DOMAIN s = 1..n
    BY <2>1, HudAssumption
  <2> HIDE DEF s
  <2>3. s \in Settings
    <3> DEFINE T == [cvar : Cvars, value : Values]
    <3>1. \A i \in 1..n : s[i] \in T
      BY <2>2
    <3>2. s = [i \in 1..n |-> s[i]]
      BY <2>2
    <3> HIDE DEF T
    <3>3. s \in Seq(T)
      BY <2>1, <3>1, <3>2
    <3> QED BY <3>3 DEF Settings, T
  <2>4. s # <<>>
    BY <2>1, <2>2
  <2> QED BY <2>3, <2>4
<1>3. SetAll(p, s) /\ Redrawn(p)
  BY DEF ResetGroup, order
<1>4. UNCHANGED <<value, served, subscribed, live, down, missed, others, opens>>
  BY DEF ResetGroup, engineVars
<1> HIDE DEF s
<1>5. view'[p] = Overwritten(view[p], s)
  BY <1>0, <1>3 DEF SetAll, DataOK
<1>6. /\ Overwritten(view[p], s) \in Copies
      /\ \A c \in Cvars \ {s[i].cvar : i \in DOMAIN s} : Overwritten(view[p], s)[c] = view[p][c]
  BY <1>0, <1>2, OverwrittenIs DEF DataOK
<1>7. /\ shown'[p] = Overwritten(view[p], s)
      /\ \A q \in Pages : q # p => shown'[q] = shown[q]
      /\ shown' \in [Pages -> Copies]
  BY <1>0, <1>3, <1>5, <1>6 DEF Redrawn, DataOK
<1> QED BY <1>2, <1>3, <1>4, <1>6, <1>7, SetAllKeeps

LEMMA ApplyPresetKeeps ==
    ASSUME IInv, NEW p \in Pages, NEW s \in Presets, ApplyPreset(p, s)
    PROVE  IInv'
<1>0. DataOK
  BY DEF IInv
<1>1. s \in Settings /\ s # <<>>
  BY HudAssumption DEF Settings
<1>2. /\ Head(s) = s[1] /\ 1 \in DOMAIN s /\ Head(s).cvar \in Cvars /\ Head(s).value \in Values
  <2>1. Head(s) \in [cvar : Cvars, value : Values]
    BY <1>1, HeadTailProperties DEF Settings
  <2>2. Len(s) \in Nat \ {0} /\ DOMAIN s = 1..Len(s)
    BY <1>1, LenProperties, EmptySeq DEF Settings
  <2> QED BY <2>1, <2>2
<1>3. /\ SetAll(p, s)
      /\ shown' = [shown EXCEPT ![p] = [view[p] EXCEPT ![Head(s).cvar] = Head(s).value]]
      /\ UNCHANGED <<value, served, subscribed, live, down, missed, others, opens>>
  BY DEF ApplyPreset, engineVars
<1>4. view[p] \in Copies /\ shown \in [Pages -> Copies]
  BY <1>0 DEF DataOK
<1>5. /\ [view[p] EXCEPT ![Head(s).cvar] = Head(s).value] \in Copies
      /\ \A c \in Cvars \ {s[i].cvar : i \in DOMAIN s} :
            [view[p] EXCEPT ![Head(s).cvar] = Head(s).value][c] = view[p][c]
  BY <1>2, <1>4 DEF Copies
<1>6. /\ shown' \in [Pages -> Copies]
      /\ \A q \in Pages : q # p => shown'[q] = shown[q]
      /\ shown'[p] = [view[p] EXCEPT ![Head(s).cvar] = Head(s).value]
  BY <1>3, <1>4, <1>5
<1> QED BY <1>1, <1>3, <1>5, <1>6, SetAllKeeps

LEMMA ExecLineKeeps ==
    ASSUME IInv, NEW p \in Pages, NEW c \in Cvars, NEW v \in Values, ExecLine(p, c, v)
    PROVE  IInv'
<1> DEFINE m == [type |-> "exec", cvar |-> c, value |-> v, old |-> FALSE]
<1>0. DataOK /\ CountersOK /\ QueuesOK /\ EditingInv /\ WordInv /\ UntouchedShown
  BY DEF IInv
<1>1. /\ edits < MaxEdits /\ edits' = edits + 1 /\ Send(p, <<m>>)
      /\ UNCHANGED <<value, served, subscribed, live, view, shown, editing, edited, down, missed,
                     others, opens>>
  BY DEF ExecLine, engineVars, pageVars
<1>2. m \in {u \in Ups : ~u.old /\ (u.type = "set" => u.cvar \in edited'[p])}
  BY DEF Ups
<1> HIDE DEF m
<1>3. <<m>> \in Seq({u \in Ups : ~u.old /\ (u.type = "set" => u.cvar \in edited'[p])})
  BY <1>2
<1>4. /\ QueuesOK'
      /\ \A q \in Pages : \A t, d : Asked(up[q], t, d) => Asked(up'[q], t, d)
  BY <1>0, <1>1, <1>3, SendKeeps
<1>5. WordInv'
  BY <1>0, <1>1, <1>4 DEF WordInv, Settled, DataOK
<1>6. CountersOK'
  BY <1>0, <1>1, HudAssumption DEF CountersOK
<1>7. DataOK' /\ EditingInv' /\ UntouchedShown'
  BY <1>0, <1>1 DEF DataOK, EditingInv, UntouchedShown
<1> QED BY <1>4, <1>5, <1>6, <1>7 DEF IInv

LEMMA EditEndsKeeps ==
    ASSUME IInv, NEW p \in Pages, EditEnds(p)
    PROVE  IInv'
<1>1. /\ editing' = [editing EXCEPT ![p] = Nobody]
      /\ UNCHANGED <<value, served, subscribed, up, down, live, view, shown, edited, missed,
                     edits, others, opens>>
  BY DEF EditEnds, engineVars, counters
<1>2. EditingInv'
  BY <1>1 DEF IInv, EditingInv
<1>3. DataOK' /\ CountersOK' /\ UntouchedShown'
  BY <1>1 DEF IInv, DataOK, CountersOK, UntouchedShown
<1>4. QueuesOK' /\ WordInv'
  BY <1>1 DEF IInv, QueuesOK, MayAsk, MayHear, WordInv, Settled
<1> QED BY <1>2, <1>3, <1>4 DEF IInv

LEMMA RenderDeckKeeps ==
    ASSUME IInv, NEW p \in Pages, RenderDeck(p)
    PROVE  IInv'
<1>1. /\ shown' = [shown EXCEPT ![p] = view[p]]
      /\ UNCHANGED <<value, served, subscribed, up, down, live, view, editing, edited, missed,
                     edits, others, opens>>
  BY DEF RenderDeck, Redrawn, engineVars, counters
<1>2. DataOK' /\ UntouchedShown'
  <2>1. shown \in [Pages -> Copies] /\ view \in [Pages -> Copies]
    BY DEF IInv, DataOK
  <2>2. shown' \in [Pages -> Copies] /\ shown'[p] = view[p]
        /\ \A q \in Pages : q # p => shown'[q] = shown[q]
    BY <1>1, <2>1
  <2>3. DataOK'
    BY <1>1, <2>2 DEF IInv, DataOK
  <2>4. UntouchedShown'
    BY <1>1, <2>2 DEF IInv, UntouchedShown
  <2> QED BY <2>3, <2>4
<1>3. CountersOK' /\ EditingInv'
  BY <1>1 DEF IInv, CountersOK, EditingInv
<1>4. QueuesOK' /\ WordInv'
  BY <1>1 DEF IInv, QueuesOK, MayAsk, MayHear, WordInv, Settled
<1> QED BY <1>2, <1>3, <1>4 DEF IInv

\* A message that is handled was part of the last word already; the control it concerns is
\* built anew, or its cvar was edited, or it showed this value.
LEMMA ReceiveKeeps ==
    ASSUME IInv, NEW p \in Pages, Receive(p)
    PROVE  IInv'
<1>0. DataOK /\ CountersOK /\ QueuesOK /\ EditingInv /\ WordInv /\ UntouchedShown
  BY DEF IInv
<1>1. /\ down[p] # <<>> /\ down' = [down EXCEPT ![p] = Tail(@)]
      /\ UNCHANGED <<value, served, subscribed, live, editing, edited, edits, others, opens, up,
                     missed>>
  BY DEF Receive, engineVars, counters
<1>2. down[p] \in Seq(MayHear(p)) /\ down[p] \in Seq(Downs) /\ down = [q \in Pages |-> down[q]]
  BY <1>0, QueueTypes DEF QueuesOK
<1>3. Head(down[p]) \in MayHear(p) /\ Tail(down[p]) \in Seq(MayHear(p))
  BY <1>1, <1>2, HeadTailProperties
<1>4. PICK m \in MayHear(p) : m = Head(down[p])
  BY <1>3
<1>5. /\ m \in Downs /\ (m.type = "result" => m.cvar \in edited[p])
      /\ m.type \in {"cvars", "result", "event"}
      /\ m.type = "cvars" => m.cvars \in [Cvars -> Values]
      /\ m.type # "cvars" => m.cvar \in Cvars /\ m.value \in Values
  BY DownTypes DEF MayHear
<1>6. /\ view' = [view EXCEPT ![p] = Merged(@, m)]
      /\ \/ Redraws(m) /\ Redrawn(p)
         \/ m.type = "event" /\ Rebuilds(p, m) /\ Synced(p, m.cvar)
         \/ /\ ~Redraws(m)
            /\ m.type = "event" => ~Rebuilds(p, m)
            /\ UNCHANGED shown
  BY <1>4 DEF Receive
<1>7. view[p] \in Copies /\ view \in [Pages -> Copies] /\ shown \in [Pages -> Copies]
  BY <1>0 DEF DataOK
<1>8. Merged(view[p], m) \in Copies
  BY <1>5, <1>7 DEF Merged, Copies
<1>9. /\ view'[p] = Merged(view[p], m) /\ \A q \in Pages : q # p => view'[q] = view[q]
      /\ view' \in [Pages -> Copies]
      /\ down'[p] = Tail(down[p]) /\ \A q \in Pages : q # p => down'[q] = down[q]
      /\ down' = [q \in Pages |-> down'[q]]
  BY <1>1, <1>2, <1>6, <1>7, <1>8
<1>10. /\ shown' \in [Pages -> Copies]
       /\ \A q \in Pages : q # p => shown'[q] = shown[q]
       /\ \A c \in Cvars : c \in edited[p] \/ shown'[p][c] = view'[p][c]
  <2>1. CASE Redraws(m) /\ Redrawn(p)
    <3>1. shown' = [shown EXCEPT ![p] = Merged(view[p], m)]
      BY <1>9, <2>1 DEF Redrawn
    <3> QED BY <1>7, <1>8, <1>9, <3>1
  <2>2. CASE m.type = "event" /\ Rebuilds(p, m) /\ Synced(p, m.cvar)
    <3>1. m.cvar \in Cvars /\ m.value \in Values /\ shown[p] \in Copies
      BY <1>5, <1>7, <2>2
    <3>2. view'[p] = [view[p] EXCEPT ![m.cvar] = m.value]
      BY <1>9, <2>2 DEF Merged
    <3>3. view'[p][m.cvar] = m.value /\ \A c \in Cvars \ {m.cvar} : view'[p][c] = view[p][c]
      BY <1>7, <3>1, <3>2 DEF Copies
    <3>4. shown' = [shown EXCEPT ![p][m.cvar] = m.value]
      BY <2>2, <3>3 DEF Synced
    <3>5. /\ shown'[p] = [shown[p] EXCEPT ![m.cvar] = m.value]
          /\ \A q \in Pages : q # p => shown'[q] = shown[q]
          /\ shown' = [q \in Pages |-> shown'[q]]
      BY <1>7, <3>4
    <3>6. /\ shown'[p] \in Copies /\ shown'[p][m.cvar] = m.value
          /\ \A c \in Cvars \ {m.cvar} : shown'[p][c] = shown[p][c]
      BY <3>1, <3>5 DEF Copies
    <3>7. shown' \in [Pages -> Copies]
      BY <1>7, <3>5, <3>6
    <3>8. \A c \in Cvars : c \in edited[p] \/ shown[p][c] = view[p][c]
      BY <1>0 DEF UntouchedShown
    <3> QED BY <3>3, <3>5, <3>6, <3>7, <3>8
  <2>3. CASE ~Redraws(m) /\ (m.type = "event" => ~Rebuilds(p, m)) /\ UNCHANGED shown
    <3>1. m.type # "cvars" /\ m.cvar \in Cvars
      BY <1>5, <2>3 DEF Redraws
    <3>2. view'[p] = [view[p] EXCEPT ![m.cvar] = m.value]
      BY <1>9, <3>1 DEF Merged
    <3>3. m.cvar \in edited[p] \/ view[p][m.cvar] = m.value
      <4>1. CASE m.type = "result"
        BY <1>5, <4>1
      <4>2. CASE m.type = "event"
        <5>1. editing[p] = m.cvar \/ view[p][m.cvar] = m.value
          BY <2>3, <4>2 DEF Rebuilds
        <5>2. editing[p] = m.cvar => m.cvar \in edited[p]
          BY <1>0, <3>1, HudAssumption DEF EditingInv
        <5> QED BY <5>1, <5>2
      <4> QED BY <1>5, <3>1, <4>1, <4>2
    <3>4. \A c \in Cvars : c \in edited[p] \/ view'[p][c] = view[p][c]
      BY <1>7, <3>1, <3>2, <3>3 DEF Copies
    <3>5. \A c \in Cvars : c \in edited[p] \/ shown[p][c] = view[p][c]
      BY <1>0 DEF UntouchedShown
    <3> QED BY <1>7, <2>3, <3>4, <3>5
  <2> QED BY <1>6, <2>1, <2>2, <2>3
<1>11. DataOK'
  BY <1>0, <1>1, <1>9, <1>10 DEF DataOK
<1>12. QueuesOK'
  <2>1. ASSUME NEW q \in Pages
        PROVE  up'[q] \in Seq(MayAsk(q)') /\ down'[q] \in Seq(MayHear(q)')
    <3>1. up'[q] \in Seq(MayAsk(q)) /\ down'[q] \in Seq(MayHear(q))
      BY <1>0, <1>1, <1>3, <1>9 DEF QueuesOK
    <3> QED BY <1>1, <3>1, MayGrow
  <2> QED BY <1>0, <1>1, <1>9, <2>1 DEF QueuesOK
<1>13. WordInv'
  <2>1. \A c \in Cvars : Word(view'[p], down'[p], c) = Word(view[p], down[p], c)
    BY <1>1, <1>2, <1>4, <1>7, <1>9, TailWord
  <2>2. \A q \in Pages, c \in Cvars : Settled(q, c) => Settled(q, c)'
    BY <1>1, <1>9, <2>1 DEF Settled
  <2> QED BY <1>0, <1>1, <2>2 DEF WordInv, DataOK
<1>14. UntouchedShown'
  BY <1>0, <1>1, <1>9, <1>10 DEF UntouchedShown
<1>15. CountersOK' /\ EditingInv'
  BY <1>0, <1>1 DEF CountersOK, EditingInv
<1> QED BY <1>11, <1>12, <1>13, <1>14, <1>15 DEF IInv

-----------------------------------------------------------------------------
LEMMA InitIInv == Init => IInv
<1> SUFFICES ASSUME Init PROVE IInv
  OBVIOUS
<1>1. DataOK /\ UntouchedShown
  BY HudAssumption DEF Init, DataOK, UntouchedShown, Copies
<1>2. CountersOK /\ EditingInv
  BY HudAssumption DEF Init, CountersOK, EditingInv
<1>3. QueuesOK
  BY EmptySeq DEF Init, QueuesOK
<1>4. WordInv
  BY DEF Init, WordInv
<1> QED BY <1>1, <1>2, <1>3, <1>4 DEF IInv

LEMMA NextIInv == IInv /\ [Next]_vars => IInv'
<1> SUFFICES ASSUME IInv, [Next]_vars PROVE IInv'
  OBVIOUS
<1>1. ASSUME NEW c \in Cvars, NEW v \in Values, OtherSets(c, v) PROVE IInv'
  BY <1>1, OtherSetsKeeps
<1>2. ASSUME NEW p \in Pages,
             \/ HandleMessage(p) \/ Receive(p)
             \/ Open(p) \/ WsClose(p) \/ OnClose(p)
             \/ \E c \in Cvars, v \in Values : Edit(p, c, v) \/ ExecLine(p, c, v)
             \/ \E preset \in Presets : ApplyPreset(p, preset)
             \/ ResetGroup(p) \/ EditEnds(p) \/ RenderDeck(p)
      PROVE  IInv'
  <2>1. CASE HandleMessage(p)
    BY <2>1, HandleMessageKeeps
  <2>2. CASE Receive(p)
    BY <2>2, ReceiveKeeps
  <2>3. CASE Open(p)
    BY <2>3, OpenKeeps
  <2>4. CASE WsClose(p)
    BY <2>4, WsCloseKeeps
  <2>5. CASE OnClose(p)
    BY <2>5, OnCloseKeeps
  <2>6. ASSUME NEW c \in Cvars, NEW v \in Values, Edit(p, c, v) PROVE IInv'
    BY <2>6, EditKeeps
  <2>7. ASSUME NEW c \in Cvars, NEW v \in Values, ExecLine(p, c, v) PROVE IInv'
    BY <2>7, ExecLineKeeps
  <2>8. ASSUME NEW preset \in Presets, ApplyPreset(p, preset) PROVE IInv'
    BY <2>8, ApplyPresetKeeps
  <2>9. CASE ResetGroup(p)
    BY <2>9, ResetGroupKeeps
  <2>10. CASE EditEnds(p)
    BY <2>10, EditEndsKeeps
  <2>11. CASE RenderDeck(p)
    BY <2>11, RenderDeckKeeps
  <2> QED BY <1>2, <2>1, <2>2, <2>3, <2>4, <2>5, <2>6, <2>7, <2>8, <2>9, <2>10, <2>11
<1>3. CASE UNCHANGED vars
  <2>1. UNCHANGED <<value, served, subscribed, live, view, shown, editing, edited, missed, up,
                    down, edits, others, opens>>
    BY <1>3 DEF vars, engineVars, pageVars, counters
  <2>2. DataOK' /\ CountersOK' /\ EditingInv' /\ UntouchedShown'
    BY <2>1 DEF IInv, DataOK, CountersOK, EditingInv, UntouchedShown
  <2>3. QueuesOK' /\ WordInv'
    BY <2>1 DEF IInv, QueuesOK, MayAsk, MayHear, WordInv, Settled
  <2> QED BY <2>2, <2>3 DEF IInv
<1> QED BY <1>1, <1>2, <1>3 DEF Next

LEMMA Inductive == Spec => []IInv
  BY InitIInv, NextIInv, PTL DEF Spec

-----------------------------------------------------------------------------
(* The theorems.                                                           *)

\* The registry, the connections and what the pages hold keep their types: only served pages
\* subscribe, and nothing but cvars of the deck is ever edited or missed.
THEOREM TypeCorrect == Spec => []TypeOK
<1>1. IInv => TypeOK
  <2> SUFFICES ASSUME IInv PROVE TypeOK
    OBVIOUS
  <2>1. DataOK /\ CountersOK /\ QueuesOK /\ EditingInv
    BY DEF IInv
  <2>2. up \in [Pages -> Seq(Ups)] /\ down \in [Pages -> Seq(Downs)]
    <3>1. \A p \in Pages : up[p] \in Seq(Ups) /\ down[p] \in Seq(Downs)
      BY <2>1, QueueTypes
    <3> QED BY <2>1, <3>1 DEF QueuesOK
  <2> QED BY <2>1, <2>2 DEF TypeOK, DataOK, CountersOK, EditingInv
<1> QED BY <1>1, Inductive, PTL

\* Whatever overtakes what between a page and the engine, the last word a served page hears
\* of a cvar is the registry's value, unless it has still to be asked for, or the cvar
\* changed between the page's list and its subscription.
THEOREM LastWordCorrect == Spec => []LastWordHolds
<1>1. IInv => LastWordHolds
  <2>1. \A p, c : LastWord(p, c) = Word(view[p], down[p], c)
    BY DEF LastWord, Word
  <2>2. \A p, t, c : Pending(p, t, c) <=> Asked(up[p], t, c)
    BY DEF Pending, Asked, Asks
  <2> QED BY <2>1, <2>2 DEF IInv, WordInv, Settled, LastWordHolds
<1> QED BY <1>1, Inductive, PTL

\* No message leaves a control stale whose cvar the page's user never edited.
THEOREM UntouchedCorrect == Spec => []UntouchedShown
<1>1. IInv => UntouchedShown
  BY DEF IInv
<1> QED BY <1>1, Inductive, PTL

=============================================================================
