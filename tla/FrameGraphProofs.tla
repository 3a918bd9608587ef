-------------------------- MODULE FrameGraphProofs --------------------------
(* Proofs about FrameGraph: for any number of back buffers and of filter iterations *)
(* and any sequence of settings, the GPU finds every command of every list ready,   *)
(* and each frame that is over is whole.                                            *)
EXTENDS FrameGraph, WellFoundedInduction, TLAPS

\* Induction, from the minimum of the numbers that are left out.
LEMMA Induction ==
    ASSUME NEW S \in SUBSET Nat, 0 \in S, \A n \in S : n + 1 \in S
    PROVE  S = Nat
  <1> SUFFICES ASSUME Nat \ S # {} PROVE FALSE
    OBVIOUS
  <1> DEFINE T == Nat \ S
             R == {ss \in Nat \X Nat : ss[1] < ss[2]}
  <1>1. T \subseteq Nat /\ T # {}
    OBVIOUS
  <1>2. IsWellFoundedOn(R, Nat)
    BY NatLessThanWellFounded DEF OpToRel
  <1> HIDE DEF R, T
  <1>3. PICK m \in T : \A y \in T : <<y, m>> \notin R
    BY <1>1, <1>2, WFMin
  <1>4. m \in Nat /\ m \notin S /\ m # 0
    BY <1>3 DEF T
  <1>5. m - 1 \in Nat /\ m - 1 < m /\ (m - 1) + 1 = m
    BY <1>4
  <1>6. m - 1 \notin S
    BY <1>4, <1>5
  <1>7. <<m - 1, m>> \in R
    BY <1>4, <1>5 DEF R
  <1> QED BY <1>3, <1>5, <1>6, <1>7 DEF T

\* The loop over the iterations: each takes up what the one before recorded.
LEMMA IteratedStep ==
    ASSUME NEW rec, NEW n \in Nat
    PROVE  \E f : /\ Iterated(rec, n) = f[n]
                  /\ f[0] = rec
                  /\ \A k \in 1..n : f[k] = Iteration(f[k - 1], k - 1)
  <1> DEFINE B(f, m) == [k \in 0..m |-> IF k = 0 THEN rec ELSE Iteration(f[k - 1], k - 1)]
             S == {m \in Nat : \E f : f = B(f, m)}
  <1>1. 0 \in S
    <2> DEFINE f == [k \in 0..0 |-> rec]
    <2>1. f = B(f, 0)
      OBVIOUS
    <2> QED BY <2>1
  <1>2. ASSUME NEW m \in S PROVE m + 1 \in S
    <2>0. m \in Nat /\ m + 1 \in Nat
      OBVIOUS
    <2>1. PICK f : f = B(f, m)
      BY <1>2
    <2> DEFINE g == [k \in 0..(m + 1) |-> IF k <= m THEN f[k] ELSE Iteration(f[m], m)]
    <2>2. ASSUME NEW k \in 0..(m + 1)
          PROVE  g[k] = IF k = 0 THEN rec ELSE Iteration(g[k - 1], k - 1)
      <3>1. CASE k <= m
        <4>1. k \in 0..m /\ g[k] = f[k]
          BY <2>0, <3>1
        <4>2. f[k] = IF k = 0 THEN rec ELSE Iteration(f[k - 1], k - 1)
          BY <2>1, <4>1
        <4>3. k # 0 => g[k - 1] = f[k - 1]
          BY <2>0, <4>1
        <4> QED BY <4>1, <4>2, <4>3
      <3>2. CASE ~(k <= m)
        <4>1. k = m + 1 /\ k - 1 = m /\ k # 0 /\ m <= m /\ m \in 0..(m + 1)
          BY <2>0, <3>2
        <4>2. g[k] = Iteration(f[m], m) /\ g[m] = f[m]
          BY <3>2, <4>1
        <4> QED BY <4>1, <4>2
      <3> QED BY <3>1, <3>2
    <2>3. g = B(g, m + 1)
      BY <2>2
    <2> HIDE DEF g
    <2> QED BY <2>0, <2>3
  <1>3. n \in S
    <2>1. S \in SUBSET Nat
      OBVIOUS
    <2> HIDE DEF S
    <2> QED BY <1>1, <1>2, <2>1, Induction
  <1> DEFINE a == CHOOSE f : f = B(f, n)
  <1>4. a = B(a, n)
    BY <1>3
  <1>5. Iterated(rec, n) = a[n]
    BY Zenon DEF Iterated
  <1>6. a[0] = rec /\ \A k \in 1..n : a[k] = Iteration(a[k - 1], k - 1)
    <2> HIDE DEF a
    <2>1. \A k \in 0..n : a[k] = B(a, n)[k]
      BY <1>4
    <2> QED BY <2>1
  <1> QED BY <1>5, <1>6

-----------------------------------------------------------------------------
(* A list of commands as the GPU runs it.  The state it runs in is what a  *)
(* command depends on; none changes the camera, the objects or the tile.   *)

Now == [actual |-> actual, pending |-> pending, mem |-> mem, screen |-> screen,
        camera |-> camera, made |-> made, tile |-> tile]

\* Ready, Sound, Age, Passes and Drawn in the state s.
ConflictsIn(d, s) ==
    \E p \in s.pending, a \in Accesses(d) : p.res = a.res /\ (p.write \/ a.write)

Source(d) == CHOOSE r \in DOMAIN d.inputs : d.inputs[r] = "indirect"

AgeIn(d, s) == IF d.inputs = None THEN s.camera.age ELSE s.mem[Source(d)].age

SoundIn(d, s) ==
    /\ ~ConflictsIn(d, s)
    /\ s.tile # "part"
    /\ \A r \in DOMAIN d.inputs : s.mem[r].kind = d.inputs[r] /\ s.mem[r].age = AgeIn(d, s)
    /\ s.camera.keep =>
         \A h \in DOMAIN d.history :
            s.mem[h].kind = d.history[h] /\ s.mem[h].age = s.camera.age + 1

PassesIn(d, s) ==
    IF d.inputs = None THEN 0
    ELSE s.mem[Source(d)].passes + (IF "atrous" \in d.objects THEN 1 ELSE 0)

DrawnIn(d, s) ==
    [r \in DOMAIN s.mem |->
        IF r \notin DOMAIN d.outputs THEN s.mem[r]
        ELSE IF SoundIn(d, s) THEN Content(AgeIn(d, s), d.outputs[r], PassesIn(d, s)) ELSE Undefined]

ReadyIn(cmd, s) ==
    /\ cmd.op = "transition" => s.actual[cmd.res] = cmd.before
    /\ cmd.op = "copy"       => s.actual[cmd.res] = "COPY"
    /\ cmd.op = "present"    => s.actual[cmd.res] = "PRESENT"
    /\ cmd.op = "draw"       =>
          /\ cmd.objects \subseteq s.made
          /\ ~ConflictsIn(cmd, s)
          /\ \A r \in DOMAIN cmd.inputs : s.actual[r] = "PSR"
          /\ \A r \in DOMAIN cmd.outputs \cap Textures : s.actual[r] = "RT"

\* What executing the command makes of s.
After(cmd, s) ==
    [actual  |-> IF cmd.op = "transition" THEN [s.actual EXCEPT ![cmd.res] = cmd.after]
                 ELSE s.actual,
     pending |-> IF cmd.op = "draw" THEN s.pending \cup Accesses(cmd)
                 ELSE IF cmd.op \in {"transition", "uav"} THEN {p \in s.pending : p.res # cmd.res}
                 ELSE IF cmd.op = "end" THEN {}
                 ELSE s.pending,
     mem     |-> IF cmd.op = "draw" THEN DrawnIn(cmd, s)
                 ELSE IF cmd.op = "copy" THEN [s.mem EXCEPT ![Readback] = s.mem[cmd.res]]
                 ELSE IF cmd.op = "present" THEN [s.mem EXCEPT ![cmd.res] = Undefined]
                 ELSE s.mem,
     screen  |-> IF cmd.op = "present" THEN s.mem[cmd.res] ELSE s.screen,
     camera  |-> s.camera, made |-> s.made, tile |-> s.tile]

\* The GPU runs l from s to t, and finds every command ready.
Run(l, s, t) ==
    \E st : /\ st[0] = s /\ st[Len(l)] = t
            /\ \A k \in 1..Len(l) : ReadyIn(l[k], st[k - 1]) /\ st[k] = After(l[k], st[k - 1])

IsList(l) == \E S : l \in Seq(S)

\* The empty list runs from each state to itself.
LEMMA RunNil == \A s : IsList(<<>>) /\ Run(<<>>, s, s)
  <1> TAKE s
  <1>1. IsList(<<>>)
    <2>1. <<>> \in Seq({})
      OBVIOUS
    <2> QED BY <2>1 DEF IsList
  <1>2. Run(<<>>, s, s)
    <2> DEFINE st == [k \in {0} |-> s]
    <2>1. st[0] = s /\ Len(<<>>) = 0
      OBVIOUS
    <2> HIDE DEF st
    <2> QED BY <2>1 DEF Run
  <1> QED BY <1>1, <1>2

\* A command that is ready where a list ends can follow it.
LEMMA RunThen ==
    ASSUME NEW l, NEW s, NEW t, NEW c, IsList(l), Run(l, s, t), ReadyIn(c, t)
    PROVE  IsList(Append(l, c)) /\ Run(Append(l, c), s, After(c, t))
  <1>1. PICK S : l \in Seq(S)
    BY DEF IsList
  <1> DEFINE n == Len(l)
             a == Append(l, c)
  <1>2. /\ a \in Seq(S \cup {c}) /\ n \in Nat /\ Len(a) = n + 1 /\ a[n + 1] = c
        /\ \A k \in 1..n : a[k] = l[k]
    BY <1>1
  <1>3. PICK st : /\ st[0] = s /\ st[n] = t
                  /\ \A k \in 1..n : ReadyIn(l[k], st[k - 1]) /\ st[k] = After(l[k], st[k - 1])
    BY Zenon DEF Run
  <1> DEFINE u == [k \in 0..(n + 1) |-> IF k <= n THEN st[k] ELSE After(c, t)]
  <1> HIDE DEF n, a
  <1>4. u[0] = s /\ u[n] = t /\ u[n + 1] = After(c, t)
    BY <1>2, <1>3
  <1>5. ASSUME NEW k \in 1..(n + 1)
        PROVE  ReadyIn(a[k], u[k - 1]) /\ u[k] = After(a[k], u[k - 1])
    <2>1. CASE k \in 1..n
      <3>1. u[k] = st[k] /\ u[k - 1] = st[k - 1] /\ a[k] = l[k]
        BY <1>2, <2>1
      <3> QED BY <1>3, <2>1, <3>1
    <2>2. CASE k = n + 1
      <3>1. k - 1 = n
        BY <1>2, <2>2
      <3> QED BY <1>2, <1>4, <2>2, <3>1
    <2> QED BY <1>2, <2>1, <2>2
  <1> HIDE DEF u
  <1>6. Run(a, s, After(c, t))
    BY <1>2, <1>4, <1>5, Zenon DEF Run
  <1> QED BY <1>2, <1>6 DEF IsList, a

\* The first command of a list is ready, and the rest runs from what it leaves.
LEMMA RunHead ==
    ASSUME NEW q, NEW s, NEW t, IsList(q), q # <<>>, Run(q, s, t)
    PROVE  /\ ReadyIn(Head(q), s)
           /\ IsList(Tail(q)) /\ Run(Tail(q), After(Head(q), s), t)
  <1>1. PICK S : q \in Seq(S)
    BY DEF IsList
  <1> DEFINE n == Len(q)
             r == Tail(q)
  <1>2. /\ r \in Seq(S) /\ n \in Nat /\ n >= 1 /\ Len(r) = n - 1 /\ Head(q) = q[1]
        /\ \A k \in 1..(n - 1) : r[k] = q[k + 1]
    BY <1>1
  <1>3. PICK st : /\ st[0] = s /\ st[n] = t
                  /\ \A k \in 1..n : ReadyIn(q[k], st[k - 1]) /\ st[k] = After(q[k], st[k - 1])
    BY Zenon DEF Run
  <1> DEFINE u == [k \in 0..(n - 1) |-> st[k + 1]]
  <1> HIDE DEF n, r
  <1>4. ReadyIn(q[1], s) /\ st[1] = After(q[1], s)
    <2>1. 1 \in 1..n /\ 1 - 1 = 0
      BY <1>2
    <2>2. ReadyIn(q[1], st[1 - 1]) /\ st[1] = After(q[1], st[1 - 1])
      BY <1>3, <2>1
    <2> QED BY <1>3, <2>1, <2>2
  <1>5. u[0] = st[1] /\ u[n - 1] = t
    BY <1>2, <1>3
  <1>6. ASSUME NEW k \in 1..(n - 1)
        PROVE  ReadyIn(r[k], u[k - 1]) /\ u[k] = After(r[k], u[k - 1])
    <2>1. k + 1 \in 1..n /\ (k + 1) - 1 = k /\ k - 1 \in 0..(n - 1) /\ k \in 0..(n - 1)
          /\ (k - 1) + 1 = k
      BY <1>2
    <2>2. u[k] = st[k + 1] /\ u[k - 1] = st[k] /\ r[k] = q[k + 1]
      BY <1>2, <2>1
    <2>3. ReadyIn(q[k + 1], st[(k + 1) - 1]) /\ st[k + 1] = After(q[k + 1], st[(k + 1) - 1])
      BY <1>3, <2>1
    <2> QED BY <2>1, <2>2, <2>3
  <1> HIDE DEF u
  <1>7. Run(r, After(q[1], s), t)
    BY <1>2, <1>4, <1>5, <1>6, Zenon DEF Run
  <1> QED BY <1>2, <1>4, <1>7 DEF IsList, r

-----------------------------------------------------------------------------
(* Recording.  Records(rec, P, back, R, W, m, s0): running rec.list from   *)
(* s0 leaves the offscreen slots P to be read and the others to be drawn   *)
(* to, the back buffer in the state back, at most reads of R and writes of *)
(* W pending, and in the resources of DOMAIN m what m says.                *)

TexOf(P) == [s \in Slots |-> IF s \in P THEN "PSR" ELSE "RT"]

ActualOf(P, back) ==
    [t \in Textures |-> IF t[1] = "tex" THEN (IF t[2] \in P THEN "PSR" ELSE "RT")
                        ELSE IF t = Back(target) THEN back ELSE "PRESENT"]

Accessed(R, W) == [res : R, write : {FALSE}] \cup [res : W, write : {TRUE}]

Known(s, P, back, R, W, m, s0) ==
    /\ s.actual = ActualOf(P, back)
    /\ s.pending \subseteq Accessed(R, W)
    /\ \A r \in DOMAIN m : s.mem[r] = m[r]
    /\ DOMAIN s.mem = Resources
    /\ s.camera = s0.camera /\ s.made = s0.made /\ s.tile = s0.tile

Records(rec, P, back, R, W, m, s0) ==
    \E l, s : /\ rec = [list |-> l, tex |-> TexOf(P)]
              /\ IsList(l) /\ Run(l, s0, s)
              /\ Known(s, P, back, R, W, m, s0)

\* Fewer accesses may be pending than are allowed for, and more be known than is needed.
LEMMA Weaken ==
    ASSUME NEW rec, NEW P, NEW back, NEW R, NEW W, NEW m, NEW s0,
           Records(rec, P, back, R, W, m, s0),
           NEW R2, NEW W2, NEW m2, R \subseteq R2, W \subseteq W2,
           \A r \in DOMAIN m2 : r \in DOMAIN m /\ m2[r] = m[r]
    PROVE  Records(rec, P, back, R2, W2, m2, s0)
  <1>1. PICK l, s : /\ rec = [list |-> l, tex |-> TexOf(P)]
                    /\ IsList(l) /\ Run(l, s0, s)
                    /\ Known(s, P, back, R, W, m, s0)
    BY Zenon DEF Records
  <1>2. Accessed(R, W) \subseteq Accessed(R2, W2)
    BY DEF Accessed
  <1>3. Known(s, P, back, R2, W2, m2, s0)
    BY <1>1, <1>2 DEF Known
  <1> QED BY <1>1, <1>3, Zenon DEF Records

\* A barrier waits for the accesses of its resource.
LEMMA Waited ==
    ASSUME NEW R, NEW W, NEW q \in SUBSET Accessed(R, W), NEW r
    PROVE  {p \in q : p.res # r} \subseteq Accessed(R \ {r}, W \ {r})
  BY DEF Accessed

\* Recording one more command.
LEMMA Emitted ==
    ASSUME NEW rec, NEW P, NEW back, NEW R, NEW W, NEW m, NEW s0,
           Records(rec, P, back, R, W, m, s0), NEW c,
           NEW P2, NEW back2, NEW R2, NEW W2, NEW m2,
           \A s : Known(s, P, back, R, W, m, s0) =>
                     ReadyIn(c, s) /\ Known(After(c, s), P2, back2, R2, W2, m2, s0)
    PROVE  Records([list |-> Append(rec.list, c), tex |-> TexOf(P2)],
                   P2, back2, R2, W2, m2, s0)
  <1>1. PICK l, s : /\ rec = [list |-> l, tex |-> TexOf(P)]
                    /\ IsList(l) /\ Run(l, s0, s)
                    /\ Known(s, P, back, R, W, m, s0)
    BY Zenon DEF Records
  <1>2. ReadyIn(c, s) /\ Known(After(c, s), P2, back2, R2, W2, m2, s0)
    BY <1>1
  <1>3. IsList(Append(l, c)) /\ Run(Append(l, c), s0, After(c, s))
    BY <1>1, <1>2, RunThen
  <1>4. rec.list = l
    BY <1>1
  <1> DEFINE l2 == Append(l, c)
             s2 == After(c, s)
  <1>5. /\ [list |-> Append(rec.list, c), tex |-> TexOf(P2)] = [list |-> l2, tex |-> TexOf(P2)]
        /\ IsList(l2) /\ Run(l2, s0, s2) /\ Known(s2, P2, back2, R2, W2, m2, s0)
    BY <1>2, <1>3, <1>4
  <1> HIDE DEF l2, s2
  <1> QED BY <1>5, Zenon DEF Records

-----------------------------------------------------------------------------
(* The commands that frames are made of.                                   *)

\* An offscreen slot and a back buffer are told apart by their textures.
LEMMA SlotTextures ==
    /\ \A s \in Slots : Tex(s) \in Textures /\ Tex(s)[1] = "tex" /\ Tex(s)[2] = s
    /\ \A t \in Textures : t[1] = "tex" => t[2] \in Slots /\ t = Tex(t[2])
    /\ \A t \in Textures : t[1] # "tex" => \E i \in 0..(BackBuffers - 1) : t = Back(i)
    /\ \A i \in 0..(BackBuffers - 1) : Back(i) \in Textures /\ Back(i)[1] # "tex"
  BY DEF Textures, Tex, Back

\* A barrier on an offscreen slot.
LEMMA Moved ==
    ASSUME NEW rec, NEW P \in SUBSET Slots, NEW back, NEW R, NEW W, NEW m, NEW s0,
           Records(rec, P, back, R, W, m, s0), NEW slot \in Slots,
           NEW P2 \in {P \cup {slot}, P \ {slot}},
           NEW was \in {"PSR", "RT"}, NEW will \in {"PSR", "RT"},
           was = "PSR" <=> slot \in P, will = "PSR" <=> slot \in P2
    PROVE  Records([list |-> Append(rec.list, Transition(Tex(slot), was, will)),
                    tex  |-> TexOf(P2)],
                   P2, back, R \ {Tex(slot)}, W \ {Tex(slot)}, m, s0)
  <1> DEFINE c == Transition(Tex(slot), was, will)
  <1>0. /\ c.op = "transition" /\ c.res = Tex(slot) /\ c.before = was /\ c.after = will
    BY DEF Transition
  <1> HIDE DEF c
  <1>1. ASSUME NEW s, Known(s, P, back, R, W, m, s0)
        PROVE  ReadyIn(c, s) /\ Known(After(c, s), P2, back, R \ {Tex(slot)}, W \ {Tex(slot)}, m, s0)
    <2>1. s.actual = ActualOf(P, back)
      BY <1>1 DEF Known
    <2>2. s.actual[Tex(slot)] = was
      BY <2>1, SlotTextures DEF ActualOf
    <2>3. ReadyIn(c, s)
      BY <1>0, <2>2 DEF ReadyIn
    <2>4. [s.actual EXCEPT ![Tex(slot)] = will] = ActualOf(P2, back)
      <3> DEFINE a == [s.actual EXCEPT ![Tex(slot)] = will]
      <3>1. DOMAIN a = Textures /\ \A t \in Textures : a[t] = IF t = Tex(slot) THEN will ELSE s.actual[t]
        BY <2>1 DEF ActualOf
      <3> HIDE DEF a
      <3>2. ASSUME NEW t \in Textures PROVE a[t] = ActualOf(P2, back)[t]
        <4>1. CASE t = Tex(slot)
          BY <3>1, <4>1, SlotTextures DEF ActualOf
        <4>2. CASE t # Tex(slot)
          <5>1. t[1] = "tex" => (t[2] \in P <=> t[2] \in P2)
            BY <4>2, SlotTextures
          <5> QED BY <2>1, <3>1, <4>2, <5>1 DEF ActualOf
        <4> QED BY <4>1, <4>2
      <3>3. a = [t \in Textures |-> a[t]]
        BY <2>1 DEF a, ActualOf
      <3>4. ActualOf(P2, back) = [t \in Textures |-> ActualOf(P2, back)[t]]
        BY DEF ActualOf
      <3> QED BY <3>2, <3>3, <3>4 DEF a
    <2>5. /\ After(c, s).actual = [s.actual EXCEPT ![Tex(slot)] = will]
          /\ After(c, s).pending = {p \in s.pending : p.res # Tex(slot)}
          /\ After(c, s).mem = s.mem /\ After(c, s).camera = s.camera
          /\ After(c, s).made = s.made /\ After(c, s).tile = s.tile
      BY <1>0 DEF After
    <2>6. After(c, s).pending \subseteq Accessed(R \ {Tex(slot)}, W \ {Tex(slot)})
      BY <1>1, <2>5, Waited DEF Known
    <2> QED BY <1>1, <2>3, <2>4, <2>5, <2>6 DEF Known
  <1>2. Records([list |-> Append(rec.list, c), tex |-> TexOf(P2)],
                P2, back, R \ {Tex(slot)}, W \ {Tex(slot)}, m, s0)
    BY <1>1, Emitted
  <1> QED BY <1>2 DEF c

\* The renderer knows the state each slot is in.
LEMMA RecordsTex ==
    ASSUME NEW rec, NEW P, NEW back, NEW R, NEW W, NEW m, NEW s0,
           Records(rec, P, back, R, W, m, s0)
    PROVE  rec.tex = TexOf(P)
  BY DEF Records

\* ToState before a slot is read.
LEMMA ToRead ==
    ASSUME NEW rec, NEW P \in SUBSET Slots, NEW back, NEW R, NEW W, NEW m, NEW s0,
           Records(rec, P, back, R, W, m, s0), NEW slot \in Slots \ P
    PROVE  Records(ToState(rec, slot, "PSR"), P \cup {slot}, back,
                   R \ {Tex(slot)}, W \ {Tex(slot)}, m, s0)
  <1>1. rec.tex = TexOf(P)
    BY RecordsTex
  <1>2. rec.tex[slot] = "RT" /\ [rec.tex EXCEPT ![slot] = "PSR"] = TexOf(P \cup {slot})
    BY <1>1 DEF TexOf
  <1>3. ToState(rec, slot, "PSR") =
          [list |-> Append(rec.list, Transition(Tex(slot), "RT", "PSR")), tex |-> TexOf(P \cup {slot})]
    BY <1>2 DEF ToState
  <1>4. Records([list |-> Append(rec.list, Transition(Tex(slot), "RT", "PSR")),
                 tex  |-> TexOf(P \cup {slot})],
                P \cup {slot}, back, R \ {Tex(slot)}, W \ {Tex(slot)}, m, s0)
    BY Moved
  <1> QED BY <1>3, <1>4

\* ToState before a slot is drawn to: no command if it can be already.
LEMMA ToDraw ==
    ASSUME NEW rec, NEW P \in SUBSET Slots, NEW back, NEW R, NEW W, NEW m, NEW s0,
           Records(rec, P, back, R, W, m, s0), NEW slot \in Slots
    PROVE  /\ slot \in P => Records(ToState(rec, slot, "RT"), P \ {slot}, back,
                                    R \ {Tex(slot)}, W \ {Tex(slot)}, m, s0)
           /\ slot \notin P => ToState(rec, slot, "RT") = rec
  <1>1. rec.tex = TexOf(P)
    BY RecordsTex
  <1>2. ASSUME slot \in P
        PROVE  Records(ToState(rec, slot, "RT"), P \ {slot}, back,
                       R \ {Tex(slot)}, W \ {Tex(slot)}, m, s0)
    <2>2. rec.tex[slot] = "PSR" /\ [rec.tex EXCEPT ![slot] = "RT"] = TexOf(P \ {slot})
      BY <1>1, <1>2 DEF TexOf
    <2>3. ToState(rec, slot, "RT") =
            [list |-> Append(rec.list, Transition(Tex(slot), "PSR", "RT")), tex |-> TexOf(P \ {slot})]
      BY <2>2 DEF ToState
    <2>4. Records([list |-> Append(rec.list, Transition(Tex(slot), "PSR", "RT")),
                   tex  |-> TexOf(P \ {slot})],
                  P \ {slot}, back, R \ {Tex(slot)}, W \ {Tex(slot)}, m, s0)
      BY <1>2, Moved
    <2> QED BY <2>3, <2>4
  <1>3. slot \notin P => ToState(rec, slot, "RT") = rec
    BY <1>1 DEF TexOf, ToState
  <1> QED BY <1>2, <1>3

\* A barrier on the back buffer.
LEMMA BackMoved ==
    ASSUME NEW rec, NEW P, NEW back, NEW R, NEW W, NEW m, NEW s0,
           Records(rec, P, back, R, W, m, s0), NEW back2, target \in 0..(BackBuffers - 1)
    PROVE  Records(Emit(rec, Transition(Back(target), back, back2)), P, back2,
                   R \ {Back(target)}, W \ {Back(target)}, m, s0)
  <1> DEFINE c == Transition(Back(target), back, back2)
             b == Back(target)
  <1>0. /\ c.op = "transition" /\ c.res = b /\ c.before = back /\ c.after = back2
        /\ b \in Textures /\ b[1] # "tex"
    BY SlotTextures DEF Transition
  <1> HIDE DEF c, b
  <1>1. ASSUME NEW s, Known(s, P, back, R, W, m, s0)
        PROVE  ReadyIn(c, s) /\ Known(After(c, s), P, back2, R \ {b}, W \ {b}, m, s0)
    <2>1. s.actual = ActualOf(P, back)
      BY <1>1 DEF Known
    <2>2. s.actual[b] = back
      BY <1>0, <2>1 DEF ActualOf, b
    <2>3. ReadyIn(c, s)
      BY <1>0, <2>2 DEF ReadyIn
    <2>4. [s.actual EXCEPT ![b] = back2] = ActualOf(P, back2)
      BY <1>0, <2>1 DEF ActualOf, b
    <2>5. /\ After(c, s).actual = [s.actual EXCEPT ![b] = back2]
          /\ After(c, s).pending = {p \in s.pending : p.res # b}
          /\ After(c, s).mem = s.mem /\ After(c, s).camera = s.camera
          /\ After(c, s).made = s.made /\ After(c, s).tile = s.tile
      BY <1>0 DEF After
    <2>6. After(c, s).pending \subseteq Accessed(R \ {b}, W \ {b})
      BY <1>1, <2>5, Waited DEF Known
    <2> QED BY <1>1, <2>3, <2>4, <2>5, <2>6 DEF Known
  <1>2. Records([list |-> Append(rec.list, c), tex |-> TexOf(P)],
                P, back2, R \ {b}, W \ {b}, m, s0)
    BY <1>1, Emitted
  <1>3. Emit(rec, c) = [list |-> Append(rec.list, c), tex |-> TexOf(P)]
    BY DEF Records, Emit
  <1> QED BY <1>2, <1>3 DEF c, b

\* The barrier between SHADE and the filter, on the average that both write.
LEMMA UavWaited ==
    ASSUME NEW rec, NEW P, NEW back, NEW R, NEW W, NEW m, NEW s0,
           Records(rec, P, back, R, W, m, s0), NEW res
    PROVE  Records(Emit(rec, UavBarrier(res)), P, back, R \ {res}, W \ {res}, m, s0)
  <1> DEFINE c == UavBarrier(res)
  <1>0. c.op = "uav" /\ c.res = res
    BY DEF UavBarrier
  <1> HIDE DEF c
  <1>1. ASSUME NEW s, Known(s, P, back, R, W, m, s0)
        PROVE  ReadyIn(c, s) /\ Known(After(c, s), P, back, R \ {res}, W \ {res}, m, s0)
    <2>1. ReadyIn(c, s)
      BY <1>0 DEF ReadyIn
    <2>2. /\ After(c, s).actual = s.actual
          /\ After(c, s).pending = {p \in s.pending : p.res # res}
          /\ After(c, s).mem = s.mem /\ After(c, s).camera = s.camera
          /\ After(c, s).made = s.made /\ After(c, s).tile = s.tile
      BY <1>0 DEF After
    <2>3. After(c, s).pending \subseteq Accessed(R \ {res}, W \ {res})
      BY <1>1, <2>2, Waited DEF Known
    <2> QED BY <1>1, <2>1, <2>2, <2>3 DEF Known
  <1>2. Records([list |-> Append(rec.list, c), tex |-> TexOf(P)],
                P, back, R \ {res}, W \ {res}, m, s0)
    BY <1>1, Emitted
  <1>3. Emit(rec, c) = [list |-> Append(rec.list, c), tex |-> TexOf(P)]
    BY DEF Records, Emit
  <1> QED BY <1>2, <1>3 DEF c

\* A draw none of whose accesses is still pending on what it writes, or pending as a
\* write on what it reads.
LEMMA Unconflicted ==
    ASSUME NEW d, NEW s, NEW R, NEW W, s.pending \subseteq Accessed(R, W),
           (R \cup W) \cap DOMAIN d.outputs = {},
           W \cap (DOMAIN d.inputs \cup DOMAIN d.history) = {}
    PROVE  ~ConflictsIn(d, s)
  <1> SUFFICES ASSUME NEW p \in s.pending, NEW a \in Accesses(d), p.res = a.res,
                      p.write \/ a.write
               PROVE  FALSE
    BY DEF ConflictsIn
  <1>1. \/ p.res \in R /\ p.write = FALSE
        \/ p.res \in W /\ p.write = TRUE
    BY DEF Accessed
  <1>2. \/ a.res \in DOMAIN d.inputs \cup DOMAIN d.history /\ a.write = FALSE
        \/ a.res \in DOMAIN d.outputs /\ a.write = TRUE
    BY DEF Accesses
  <1> QED BY <1>1, <1>2

\* A draw that is recorded in order: what it reads and writes is in the right state,
\* nothing it needs is pending, its inputs hold what they are taken for; it leaves
\* q passes of the filter, and m2 in the memory.
Ordered(d, P, back, R, W, m, s0, q, m2) ==
    /\ d.op = "draw" /\ d.objects \subseteq s0.made /\ s0.tile # "part" /\ s0.camera.age = 0
    /\ \A r \in DOMAIN d.inputs : \E s \in P : r = Tex(s)
    /\ \A r \in DOMAIN d.outputs \cap Textures :
          (\E s \in Slots \ P : r = Tex(s)) \/ (back = "RT" /\ r = Back(target))
    /\ (R \cup W) \cap DOMAIN d.outputs = {}
    /\ W \cap (DOMAIN d.inputs \cup DOMAIN d.history) = {}
    /\ \A r \in DOMAIN d.inputs : r \in DOMAIN m /\ m[r].kind = d.inputs[r] /\ m[r].age = 0
    /\ s0.camera.keep =>
          \A h \in DOMAIN d.history : h \in DOMAIN m /\ m[h].kind = d.history[h] /\ m[h].age = 1
    /\ \/ d.inputs = None /\ q = 0
       \/ /\ d.inputs # None
          /\ \E src \in DOMAIN d.inputs :
                /\ \A r \in DOMAIN d.inputs : d.inputs[r] = "indirect" <=> r = src
                /\ q = m[src].passes + (IF "atrous" \in d.objects THEN 1 ELSE 0)
    /\ DOMAIN m2 \subseteq Resources
    /\ \A r \in DOMAIN m2 : IF r \in DOMAIN d.outputs THEN m2[r] = Content(0, d.outputs[r], q)
                            ELSE r \in DOMAIN m /\ m2[r] = m[r]

\* A draw in order finds everything ready and leaves what it is recorded for.
LEMMA Drawing ==
    ASSUME NEW rec, NEW P \in SUBSET Slots, NEW back, NEW R, NEW W, NEW m, NEW s0,
           Records(rec, P, back, R, W, m, s0), target \in 0..(BackBuffers - 1),
           NEW d, NEW q, NEW m2, Ordered(d, P, back, R, W, m, s0, q, m2)
    PROVE  Records(Emit(rec, d), P, back, R \cup DOMAIN d.inputs \cup DOMAIN d.history,
                   W \cup DOMAIN d.outputs, m2, s0)
  <1> DEFINE R2 == R \cup DOMAIN d.inputs \cup DOMAIN d.history
             W2 == W \cup DOMAIN d.outputs
  <1>1. ASSUME NEW s, Known(s, P, back, R, W, m, s0)
        PROVE  ReadyIn(d, s) /\ Known(After(d, s), P, back, R2, W2, m2, s0)
    <2>1. /\ s.actual = ActualOf(P, back) /\ s.pending \subseteq Accessed(R, W)
          /\ \A r \in DOMAIN m : s.mem[r] = m[r]
          /\ DOMAIN s.mem = Resources
          /\ s.camera = s0.camera /\ s.made = s0.made /\ s.tile = s0.tile
      BY <1>1 DEF Known
    <2>2. ~ConflictsIn(d, s)
      BY <2>1, Unconflicted DEF Ordered
    <2>3. \A r \in DOMAIN d.inputs : s.actual[r] = "PSR"
      BY <2>1, SlotTextures DEF ActualOf, Ordered
    <2>4. \A r \in DOMAIN d.outputs \cap Textures : s.actual[r] = "RT"
      BY <2>1, SlotTextures DEF ActualOf, Ordered
    <2>5. ReadyIn(d, s)
      BY <2>1, <2>2, <2>3, <2>4 DEF ReadyIn, Ordered
    <2>6. AgeIn(d, s) = 0 /\ PassesIn(d, s) = q
      <3>1. CASE d.inputs = None /\ q = 0
        BY <2>1, <3>1 DEF AgeIn, PassesIn, Ordered
      <3>2. CASE d.inputs # None
        <4>1. PICK src \in DOMAIN d.inputs :
                 /\ \A r \in DOMAIN d.inputs : d.inputs[r] = "indirect" <=> r = src
                 /\ q = m[src].passes + (IF "atrous" \in d.objects THEN 1 ELSE 0)
          BY <3>2 DEF Ordered
        <4>2. Source(d) = src
          BY <4>1 DEF Source
        <4> QED BY <2>1, <3>2, <4>1, <4>2 DEF AgeIn, PassesIn, Ordered
      <3> QED BY <3>1, <3>2 DEF Ordered
    <2>7. SoundIn(d, s)
      BY <2>1, <2>2, <2>6 DEF SoundIn, Ordered
    <2>8. /\ DOMAIN DrawnIn(d, s) = Resources
          /\ \A r \in Resources : DrawnIn(d, s)[r] =
                IF r \in DOMAIN d.outputs THEN Content(0, d.outputs[r], q) ELSE s.mem[r]
      BY <2>1, <2>6, <2>7 DEF DrawnIn
    <2>9. /\ After(d, s).actual = s.actual
          /\ After(d, s).pending = s.pending \cup Accesses(d)
          /\ After(d, s).mem = DrawnIn(d, s) /\ After(d, s).camera = s.camera
          /\ After(d, s).made = s.made /\ After(d, s).tile = s.tile
      BY DEF After, Ordered
    <2>10. DOMAIN After(d, s).mem = Resources
      BY <2>8, <2>9
    <2>11. \A r \in DOMAIN m2 : After(d, s).mem[r] = m2[r]
      <3> TAKE r \in DOMAIN m2
      <3>1. CASE r \in DOMAIN d.outputs
        <4>1. m2[r] = Content(0, d.outputs[r], q) /\ r \in Resources
          BY <3>1 DEF Ordered
        <4> QED BY <2>8, <2>9, <3>1, <4>1
      <3>2. CASE r \notin DOMAIN d.outputs
        <4>1. r \in DOMAIN m /\ m2[r] = m[r]
          BY <3>2 DEF Ordered
        <4>2. r \in Resources
          BY DEF Ordered
        <4> QED BY <2>1, <2>8, <2>9, <3>2, <4>1, <4>2
      <3> QED BY <3>1, <3>2
    <2>12. After(d, s).pending \subseteq Accessed(R2, W2)
      BY <2>1, <2>9 DEF Accessed, Accesses
    <2> QED BY <2>1, <2>5, <2>9, <2>10, <2>11, <2>12 DEF Known
  <1>2. Records([list |-> Append(rec.list, d), tex |-> TexOf(P)], P, back, R2, W2, m2, s0)
    <2> HIDE DEF R2, W2
    <2> QED BY <1>1, Emitted
  <1>3. Emit(rec, d) = [list |-> Append(rec.list, d), tex |-> TexOf(P)]
    BY DEF Records, Emit
  <1> QED BY <1>2, <1>3

-----------------------------------------------------------------------------
(* The list of a frame, pass by pass.                                      *)

\* No two resources of a frame are the same.
LEMMA Distinct ==
    /\ \A i, j \in Slots : Tex(i) = Tex(j) => i = j
    /\ \A i \in Slots : \A b : Tex(i) # Back(b)
    /\ \A i \in Slots : \A pair : Tex(i) \notin Histories \X {pair}
    /\ \A b, pair : Back(b) \notin Histories \X {pair}
    /\ accumPair \in {0, 1} => (Histories \X {accumPair}) \cap (Histories \X {Other(accumPair)}) = {}
    /\ \A h \in Histories : \A pair : <<h, pair>> \in Histories \X {pair} /\ <<h, pair>>[1] = h
  BY DEF Tex, Back, Histories, Other

\* What each resource is drawn for.
LEMMA Purposes ==
    /\ Purpose(Tex(0)) = "indirect" /\ Purpose(Tex(1)) = "indirect" /\ Purpose(Tex(2)) = "direct"
    /\ Purpose(Tex(3)) = "albedo" /\ Purpose(Tex(4)) = "gbuf" /\ Purpose(Tex(5)) = "variance"
    /\ \A b : Purpose(Back(b)) = "picture"
    /\ \A pair : \A r \in Histories \X {pair} : Purpose(r) = r[1] /\ r[1] \in Histories
  BY DEF Purpose, Tex, Back, Histories

\* The resources of a frame are resources.
LEMMA AllResources ==
    /\ \A i \in Slots : Tex(i) \in Resources
    /\ target \in 0..(BackBuffers - 1) => Back(target) \in Resources
    /\ accumPair \in {0, 1} => Histories \X {accumPair} \subseteq Resources
    /\ accumPair \in {0, 1} => Histories \X {Other(accumPair)} \subseteq Resources
    /\ (Histories \X {0, 1}) \cap Textures = {}
  BY DEF Resources, Textures, Histories, Tex, Back, Other

\* The filter's source and target are the slots 0 and 1 in turn.
LEMMA Parity ==
    \A k \in Nat : /\ k % 2 \in {0, 1} /\ (k + 1) % 2 = 1 - (k % 2) /\ (k + 2) % 2 = k % 2
                   /\ k % 2 \in Slots /\ (k + 1) % 2 \in Slots
  BY DEF Slots

\* What the denoiser needs.
LEMMA DenoiserMade ==
    DenoiseReady <=> {"offscreen", "moments", "shade", "atrous", "composite"} \subseteq made
  <1>1. Range(DenoiserObjects) = {"offscreen", "moments", "shade", "atrous", "composite"}
    BY DEF Range, DenoiserObjects
  <1> QED BY <1>1 DEF DenoiseReady

\* ToDraw, whatever state the slot is in.
LEMMA ToDrawOrNot ==
    ASSUME NEW rec, NEW P \in SUBSET Slots, NEW back, NEW R, NEW W, NEW m, NEW s0,
           Records(rec, P, back, R, W, m, s0), NEW slot \in Slots
    PROVE  Records(ToState(rec, slot, "RT"), P \ {slot}, back, R, W, m, s0)
  <1>1. CASE slot \in P
    <2>1. Records(ToState(rec, slot, "RT"), P \ {slot}, back, R \ {Tex(slot)}, W \ {Tex(slot)}, m, s0)
      BY <1>1, ToDraw
    <2>2. R \ {Tex(slot)} \subseteq R /\ W \ {Tex(slot)} \subseteq W
      OBVIOUS
    <2> QED BY <2>1, <2>2, Weaken
  <1>2. CASE slot \notin P
    <2>1. ToState(rec, slot, "RT") = rec /\ P \ {slot} = P
      BY <1>2, ToDraw
    <2> QED BY <2>1
  <1> QED BY <1>1, <1>2

\* AllToTargets leaves every slot to be drawn to.
LEMMA AllDrawn ==
    ASSUME NEW rec, NEW P \in SUBSET Slots, NEW back, NEW R, NEW W, NEW m, NEW s0,
           Records(rec, P, back, R, W, m, s0)
    PROVE  Records(AllToTargets(rec), {}, back, R, W, m, s0)
  <1> DEFINE K(r, Q) == Q \in SUBSET Slots /\ Records(r, Q, back, R, W, m, s0)
  <1>1. ASSUME NEW r, NEW Q, K(r, Q), NEW slot \in Slots
        PROVE  K(ToState(r, slot, "RT"), Q \ {slot})
    BY <1>1, ToDrawOrNot
  <1>2. 0 \in Slots /\ 1 \in Slots /\ 2 \in Slots /\ 3 \in Slots /\ 4 \in Slots /\ 5 \in Slots
    BY DEF Slots
  <1>3. K(rec, P)
    OBVIOUS
  <1> HIDE DEF K
  <1> DEFINE r0 == ToState(rec, 0, "RT")
             r1 == ToState(r0, 1, "RT")
             r2 == ToState(r1, 2, "RT")
             r3 == ToState(r2, 3, "RT")
             r4 == ToState(r3, 4, "RT")
             r5 == ToState(r4, 5, "RT")
             Q == (((((P \ {0}) \ {1}) \ {2}) \ {3}) \ {4}) \ {5}
  <1>4. AllToTargets(rec) = r5
    BY DEF AllToTargets
  <1>5. K(r0, P \ {0})
    BY <1>1, <1>2, <1>3
  <1>6. K(r1, (P \ {0}) \ {1})
    BY <1>1, <1>2, <1>5
  <1>7. K(r2, ((P \ {0}) \ {1}) \ {2})
    BY <1>1, <1>2, <1>6
  <1>8. K(r3, (((P \ {0}) \ {1}) \ {2}) \ {3})
    BY <1>1, <1>2, <1>7
  <1>9. K(r4, ((((P \ {0}) \ {1}) \ {2}) \ {3}) \ {4})
    BY <1>1, <1>2, <1>8
  <1>10. K(r5, Q)
    BY <1>1, <1>2, <1>9
  <1>11. Q = {}
    BY DEF Slots
  <1> HIDE DEF r5, Q
  <1> QED BY <1>4, <1>10, <1>11 DEF K

\* The state a list starts in, as far as its draws depend on it.
Ground(s0) ==
    /\ target \in 0..(BackBuffers - 1) /\ accumPair \in {0, 1}
    /\ s0.made = made /\ s0.tile # "part" /\ s0.camera.age = 0
    /\ {"list", "fence", "voxels", "brick", "camera", "history", "noise", "palette",
        "rootSig", "pso", "targets"} \subseteq made

NewHistory == Histories \X {accumPair}
OldHistory == Histories \X {Other(accumPair)}

\* Before iteration k, and before the composite pass when k iterations are over.
FrameMem(k) ==
    [r \in {Tex(k % 2), Tex(2), Tex(3), Tex(4), Tex(5)} \cup NewHistory |->
        IF r = Tex(k % 2) THEN Content(0, "indirect", k)
        ELSE IF k > 0 /\ r = <<"accum", accumPair>> THEN Content(0, "filtered", 1)
        ELSE Content(0, Purpose(r), 0)]

ReadSlots(k) == {4, 5} \cup (IF k = 0 THEN {} ELSE {(k + 1) % 2})

Reading(k) == OldHistory \cup (IF k = 0 THEN {} ELSE {Tex((k + 1) % 2), Tex(4), Tex(5)})

Writing(k) ==
    {Tex(k % 2), Tex(2), Tex(3)} \cup (IF k = 0 THEN NewHistory \ {<<"accum", accumPair>>} ELSE NewHistory)

At(rec, k, s0) == Records(rec, ReadSlots(k), "PRESENT", Reading(k), Writing(k), FrameMem(k), s0)

\* SHADE, its barriers included.
LEMMA ShadedAt ==
    ASSUME NEW rec, NEW m, NEW s0, Ground(s0), DenoiseReady,
           Records(rec, {}, "PRESENT", {}, {}, m, s0),
           s0.camera.keep =>
              \A h \in OldHistory : /\ h \in DOMAIN m /\ m[h].age = 1
                                  /\ m[h].kind = IF h[1] = "accum" THEN "filtered" ELSE h[1]
    PROVE  At(Shaded(rec), 0, s0)
  <1> DEFINE d == ShadePass
             all == AllToTargets(rec)
             out == {Tex(0), Tex(2), Tex(3), Tex(4), Tex(5)} \cup NewHistory
             f   == FrameMem(0)
  <1>1. Records(all, {}, "PRESENT", {}, {}, m, s0)
    <2>1. {} \in SUBSET Slots
      OBVIOUS
    <2> QED BY <2>1, AllDrawn
  <1>2. /\ d.op = "draw" /\ d.inputs = None /\ DOMAIN d.inputs = {}
        /\ DOMAIN d.history = OldHistory
        /\ \A h \in OldHistory : d.history[h] = IF h[1] = "accum" THEN "filtered" ELSE Purpose(h)
        /\ DOMAIN d.outputs = out /\ \A r \in out : d.outputs[r] = Purpose(r)
        /\ d.objects = SceneObjects \cup {"shade", "offscreen", "moments"}
    BY DEF ShadePass, Draw, None, For, Filtered, OldHistory, NewHistory
  <1>3. d.objects \subseteq s0.made
    <2>1. "shade" \in made /\ "offscreen" \in made /\ "moments" \in made
      BY DenoiserMade DEF DenoiseReady
    <2> QED BY <1>2, <2>1 DEF Ground, SceneObjects
  <1>4. DOMAIN f = out /\ \A r \in out : f[r] = Content(0, Purpose(r), 0)
    <2>1. 0 % 2 = 0
      OBVIOUS
    <2> QED BY <2>1, Purposes DEF FrameMem
  <1> HIDE DEF d, all, f
  <1>5. /\ \A r \in out \cap Textures : \E s \in Slots \ {} : r = Tex(s)
        /\ out \subseteq Resources
    BY AllResources DEF Ground, Slots, NewHistory
  <1>6. s0.camera.keep =>
           \A h \in DOMAIN d.history : h \in DOMAIN m /\ m[h].kind = d.history[h] /\ m[h].age = 1
    BY <1>2, Purposes DEF OldHistory
  <1> HIDE DEF out
  <1>7. Records(Emit(all, d), {}, "PRESENT", {} \cup DOMAIN d.inputs \cup DOMAIN d.history,
                {} \cup DOMAIN d.outputs, f, s0)
    <2>1. {} \in SUBSET Slots /\ target \in 0..(BackBuffers - 1)
      BY DEF Ground
    <2>2. Ordered(d, {}, "PRESENT", {}, {}, m, s0, 0, f)
      BY <1>2, <1>3, <1>4, <1>5, <1>6 DEF Ground, Ordered
    <2> HIDE DEF f
    <2> QED BY <1>1, <2>1, <2>2, Drawing
  <1> DEFINE e  == Emit(all, d)
             e4 == ToState(e, 4, "PSR")
             e5 == ToState(e4, 5, "PSR")
             a  == <<"accum", accumPair>>
             u  == Emit(e5, UavBarrier(a))
  <1>8. Records(e, {}, "PRESENT", OldHistory, out, f, s0)
    BY <1>2, <1>7
  <1>9. Shaded(rec) = u
    BY DEF Shaded, d, all
  <1> HIDE DEF e, a
  <1>10. Records(e4, {4}, "PRESENT", OldHistory \ {Tex(4)}, out \ {Tex(4)}, f, s0)
    <2>1. {} \in SUBSET Slots /\ 4 \in Slots \ {} /\ {} \cup {4} = {4}
      BY DEF Slots
    <2>2. Records(e4, {} \cup {4}, "PRESENT", OldHistory \ {Tex(4)}, out \ {Tex(4)}, f, s0)
      BY <1>8, <2>1, ToRead
    <2> QED BY <2>1, <2>2
  <1> HIDE DEF e4
  <1>11. Records(e5, {4, 5}, "PRESENT", (OldHistory \ {Tex(4)}) \ {Tex(5)},
                 (out \ {Tex(4)}) \ {Tex(5)}, f, s0)
    <2>1. {4} \in SUBSET Slots /\ 5 \in Slots \ {4} /\ {4} \cup {5} = {4, 5}
      BY DEF Slots
    <2>2. Records(e5, {4} \cup {5}, "PRESENT", (OldHistory \ {Tex(4)}) \ {Tex(5)},
                 (out \ {Tex(4)}) \ {Tex(5)}, f, s0)
      BY <1>10, <2>1, ToRead
    <2> QED BY <2>1, <2>2
  <1> HIDE DEF e5
  <1>12. Records(u, {4, 5}, "PRESENT", ((OldHistory \ {Tex(4)}) \ {Tex(5)}) \ {a},
                 ((out \ {Tex(4)}) \ {Tex(5)}) \ {a}, f, s0)
    BY <1>11, UavWaited
  <1> HIDE DEF u
  <1>13. {4, 5} = ReadSlots(0)
    BY DEF ReadSlots
  <1>14. ((OldHistory \ {Tex(4)}) \ {Tex(5)}) \ {a} \subseteq Reading(0)
    BY DEF Reading
  <1>15. ((out \ {Tex(4)}) \ {Tex(5)}) \ {a} \subseteq Writing(0)
    <2>1. 0 % 2 = 0
      OBVIOUS
    <2>2. Writing(0) = {Tex(0), Tex(2), Tex(3)} \cup (NewHistory \ {<<"accum", accumPair>>})
      BY <2>1 DEF Writing
    <2> QED BY <2>2 DEF out, a
  <1>16. Records(u, ReadSlots(0), "PRESENT", Reading(0), Writing(0), f, s0)
    <2>1. \A r \in DOMAIN f : r \in DOMAIN f /\ f[r] = f[r]
      OBVIOUS
    <2>2. Records(u, ReadSlots(0), "PRESENT", ((OldHistory \ {Tex(4)}) \ {Tex(5)}) \ {a},
                 ((out \ {Tex(4)}) \ {Tex(5)}) \ {a}, f, s0)
      BY <1>12, <1>13
    <2> QED BY <1>14, <1>15, <2>1, <2>2, Weaken
  <1> QED BY <1>9, <1>16 DEF At, f

\* FrameMem, resource by resource.
LEMMA FrameMems ==
    ASSUME NEW k \in Nat, accumPair \in {0, 1}
    PROVE  /\ DOMAIN FrameMem(k) = {Tex(k % 2), Tex(2), Tex(3), Tex(4), Tex(5)} \cup NewHistory
           /\ FrameMem(k)[Tex(k % 2)] = Content(0, "indirect", k)
           /\ FrameMem(k)[Tex(2)] = Content(0, "direct", 0)
           /\ FrameMem(k)[Tex(3)] = Content(0, "albedo", 0)
           /\ FrameMem(k)[Tex(4)] = Content(0, "gbuf", 0)
           /\ FrameMem(k)[Tex(5)] = Content(0, "variance", 0)
           /\ \A r \in NewHistory : FrameMem(k)[r] = IF k > 0 /\ r = <<"accum", accumPair>>
                                                  THEN Content(0, "filtered", 1)
                                                  ELSE Content(0, Purpose(r), 0)
           /\ DOMAIN FrameMem(k) \subseteq Resources
  <1> DEFINE s == k % 2
  <1>1. s \in {0, 1} /\ s \in Slots /\ 2 \in Slots /\ 3 \in Slots /\ 4 \in Slots /\ 5 \in Slots
    BY Parity DEF Slots
  <1> HIDE DEF s
  <1>2. /\ Tex(2) # Tex(s) /\ Tex(3) # Tex(s) /\ Tex(4) # Tex(s) /\ Tex(5) # Tex(s)
        /\ \A i \in Slots : Tex(i) \notin NewHistory
        /\ <<"accum", accumPair>> \in NewHistory
    BY <1>1, Distinct DEF NewHistory, Histories
  <1>3. {Tex(s), Tex(2), Tex(3), Tex(4), Tex(5)} \cup NewHistory \subseteq Resources
    BY <1>1, AllResources DEF NewHistory
  <1>4. FrameMem(k) = [r \in {Tex(s), Tex(2), Tex(3), Tex(4), Tex(5)} \cup NewHistory |->
                        IF r = Tex(s) THEN Content(0, "indirect", k)
                        ELSE IF k > 0 /\ r = <<"accum", accumPair>> THEN Content(0, "filtered", 1)
                        ELSE Content(0, Purpose(r), 0)]
    BY DEF FrameMem, s
  <1>5. /\ DOMAIN FrameMem(k) = {Tex(s), Tex(2), Tex(3), Tex(4), Tex(5)} \cup NewHistory
        /\ FrameMem(k)[Tex(s)] = Content(0, "indirect", k)
        /\ FrameMem(k)[Tex(2)] = Content(0, "direct", 0)
        /\ FrameMem(k)[Tex(3)] = Content(0, "albedo", 0)
        /\ FrameMem(k)[Tex(4)] = Content(0, "gbuf", 0)
        /\ FrameMem(k)[Tex(5)] = Content(0, "variance", 0)
    <2>1. <<"accum", accumPair>> \notin {Tex(s), Tex(2), Tex(3), Tex(4), Tex(5)}
      BY <1>1, <1>2
    <2> QED BY <1>2, <1>4, <2>1, Purposes
  <1>6. \A r \in NewHistory : FrameMem(k)[r] = IF k > 0 /\ r = <<"accum", accumPair>>
                                            THEN Content(0, "filtered", 1)
                                            ELSE Content(0, Purpose(r), 0)
    BY <1>1, <1>2, <1>4
  <1> QED BY <1>3, <1>5, <1>6 DEF s

\* One iteration of the filter: it reads what SHADE or the iteration before wrote.
LEMMA IterationAt ==
    ASSUME NEW rec, NEW k \in Nat, NEW s0, Ground(s0), DenoiseReady, At(rec, k, s0)
    PROVE  At(Iteration(rec, k), k + 1, s0)
  <1> DEFINE src == k % 2
             dst == (k + 1) % 2
             rs  == ToState(rec, src, "PSR")
             rd  == ToState(rs, dst, "RT")
             d   == AtrousPass(src, dst, k)
             fed == IF k = 0 THEN {<<"accum", accumPair>>} ELSE {}
             R   == OldHistory \cup (IF k = 0 THEN {} ELSE {Tex(4), Tex(5)})
             W   == {Tex(2), Tex(3)} \cup (NewHistory \ fed)
             m   == FrameMem(k)
             m2  == FrameMem(k + 1)
  <1>1. /\ src \in {0, 1} /\ dst = 1 - src /\ (k + 2) % 2 = src /\ (k + 1) + 1 = k + 2
        /\ k + 1 \in Nat /\ k + 1 # 0 /\ k + 1 > 0
    BY Parity
  <1>2. Iteration(rec, k) = Emit(rd, d)
    BY DEF Iteration
  <1>3. /\ DOMAIN m = {Tex(src), Tex(2), Tex(3), Tex(4), Tex(5)} \cup NewHistory
        /\ m[Tex(src)] = Content(0, "indirect", k)
        /\ m[Tex(2)] = Content(0, "direct", 0) /\ m[Tex(3)] = Content(0, "albedo", 0)
        /\ m[Tex(4)] = Content(0, "gbuf", 0) /\ m[Tex(5)] = Content(0, "variance", 0)
        /\ \A r \in NewHistory : m[r] = IF k > 0 /\ r = <<"accum", accumPair>>
                                     THEN Content(0, "filtered", 1) ELSE Content(0, Purpose(r), 0)
    BY FrameMems DEF Ground
  <1>4. /\ DOMAIN m2 = {Tex(dst), Tex(2), Tex(3), Tex(4), Tex(5)} \cup NewHistory
        /\ m2[Tex(dst)] = Content(0, "indirect", k + 1)
        /\ m2[Tex(2)] = Content(0, "direct", 0) /\ m2[Tex(3)] = Content(0, "albedo", 0)
        /\ m2[Tex(4)] = Content(0, "gbuf", 0) /\ m2[Tex(5)] = Content(0, "variance", 0)
        /\ \A r \in NewHistory : m2[r] = IF r = <<"accum", accumPair>>
                                      THEN Content(0, "filtered", 1) ELSE Content(0, Purpose(r), 0)
        /\ DOMAIN m2 \subseteq Resources
    BY <1>1, FrameMems DEF Ground
  <1>5. Records(rec, ReadSlots(k), "PRESENT", Reading(k), Writing(k), m, s0)
    BY DEF At
  <1>6. /\ ReadSlots(k) = {4, 5} \cup (IF k = 0 THEN {} ELSE {dst})
        /\ Reading(k) = OldHistory \cup (IF k = 0 THEN {} ELSE {Tex(dst), Tex(4), Tex(5)})
        /\ Writing(k) = {Tex(src), Tex(2), Tex(3)} \cup (NewHistory \ fed)
    BY DEF ReadSlots, Reading, Writing
  <1>7. /\ ReadSlots(k + 1) = {4, 5} \cup {src}
        /\ Reading(k + 1) = OldHistory \cup {Tex(src), Tex(4), Tex(5)}
        /\ Writing(k + 1) = {Tex(dst), Tex(2), Tex(3)} \cup NewHistory
    BY <1>1 DEF ReadSlots, Reading, Writing
  <1>8. /\ d.op = "draw" /\ d.objects = {"list", "atrous", "offscreen"}
        /\ DOMAIN d.inputs = {Tex(src), Tex(4), Tex(5)} /\ DOMAIN d.history = {}
        /\ \A r \in DOMAIN d.inputs : d.inputs[r] = Purpose(r)
        /\ DOMAIN d.outputs = {Tex(dst)} \cup fed
        /\ \A r \in DOMAIN d.outputs : d.outputs[r] = IF r[1] = "accum" THEN "filtered" ELSE Purpose(r)
    BY DEF AtrousPass, Draw, For, None, Filtered, Feedback
  <1>9. src \in Slots /\ dst \in Slots /\ src # dst /\ src \notin {2, 3, 4, 5} /\ dst \notin {2, 3, 4, 5}
        /\ Slots = {0, 1, 2, 3, 4, 5}
    BY <1>1 DEF Slots
  <1> HIDE DEF src, dst, d, m, m2, rs, rd
  <1>10. Records(rs, ReadSlots(k) \cup {src}, "PRESENT", Reading(k) \ {Tex(src)},
                 Writing(k) \ {Tex(src)}, m, s0)
    <2>1. ReadSlots(k) \in SUBSET Slots /\ src \in Slots \ ReadSlots(k)
      BY <1>6, <1>9
    <2> QED BY <1>5, <2>1, ToRead DEF rs
  <1>11. Records(rd, {4, 5} \cup {src}, "PRESENT", R, W, m, s0)
    <2>1. ReadSlots(k) \cup {src} \in SUBSET Slots /\ \A r \in DOMAIN m : r \in DOMAIN m /\ m[r] = m[r]
      BY <1>6, <1>9
    <2>2. CASE k = 0
      <3>1. ReadSlots(k) \cup {src} = {4, 5} \cup {src} /\ dst \notin ReadSlots(k) \cup {src}
        BY <1>6, <1>9, <2>2
      <3>2. rd = rs
        BY <1>9, <1>10, <2>1, <3>1, ToDraw DEF rd
      <3>3. Reading(k) \ {Tex(src)} \subseteq R /\ Writing(k) \ {Tex(src)} \subseteq W
        BY <1>6, <2>2
      <3> HIDE DEF R, W
      <3>4. Records(rs, {4, 5} \cup {src}, "PRESENT", Reading(k) \ {Tex(src)}, Writing(k) \ {Tex(src)}, m, s0)
        BY <1>10, <3>1
      <3>5. Records(rs, {4, 5} \cup {src}, "PRESENT", R, W, m, s0)
        BY <2>1, <3>3, <3>4, Weaken
      <3> QED BY <3>2, <3>5
    <2>3. CASE k # 0
      <3> DEFINE P0 == ReadSlots(k) \cup {src}
                 R1 == Reading(k) \ {Tex(src)}
                 W1 == Writing(k) \ {Tex(src)}
                 R2 == R1 \ {Tex(dst)}
                 W2 == W1 \ {Tex(dst)}
      <3>1. P0 \ {dst} = {4, 5} \cup {src} /\ dst \in P0
        BY <1>6, <1>9, <2>3
      <3>2. R2 \subseteq R /\ W2 \subseteq W
        BY <1>6, <2>3
      <3> HIDE DEF R, W, P0, R1, W1, R2, W2
      <3>3. Records(rd, P0 \ {dst}, "PRESENT", R2, W2, m, s0)
        <4>1. Records(rs, P0, "PRESENT", R1, W1, m, s0)
          BY <1>10 DEF P0, R1, W1
        <4>2. P0 \in SUBSET Slots
          BY <2>1 DEF P0
        <4> QED BY <1>9, <3>1, <4>1, <4>2, ToDraw DEF rd, R2, W2
      <3>4. Records(rd, {4, 5} \cup {src}, "PRESENT", R2, W2, m, s0)
        BY <3>1, <3>3
      <3> QED BY <2>1, <3>2, <3>4, Weaken
    <2> QED BY <2>2, <2>3
  <1>12. Ordered(d, {4, 5} \cup {src}, "PRESENT", R, W, m, s0, k + 1, m2)
    <2>1. /\ \A i, j \in Slots : Tex(i) = Tex(j) => i = j
          /\ \A i \in Slots : Tex(i) \notin NewHistory /\ Tex(i) \notin OldHistory
          /\ NewHistory \cap OldHistory = {}
          /\ fed \subseteq NewHistory /\ \A r \in fed : k = 0 /\ r = <<"accum", accumPair>> /\ r[1] = "accum"
          /\ NewHistory \cap Textures = {}
          /\ fed \cap Textures = {}
      BY Distinct, AllResources DEF Ground, NewHistory, OldHistory, Histories
    <2>2. /\ Purpose(Tex(src)) = "indirect" /\ Purpose(Tex(dst)) = "indirect"
          /\ Purpose(Tex(4)) = "gbuf" /\ Purpose(Tex(5)) = "variance"
          /\ Tex(dst)[1] # "accum"
      BY <1>1, Purposes DEF Tex
    <2>3. d.op = "draw" /\ d.objects \subseteq s0.made /\ s0.tile # "part" /\ s0.camera.age = 0
      BY <1>8, DenoiserMade DEF Ground
    <2>4. /\ \A r \in DOMAIN d.inputs : \E s \in {4, 5} \cup {src} : r = Tex(s)
          /\ \A r \in DOMAIN d.outputs \cap Textures :
                (\E s \in Slots \ ({4, 5} \cup {src}) : r = Tex(s)) \/ ("PRESENT" = "RT" /\ r = Back(target))
      BY <1>8, <1>9, <2>1
    <2>5. /\ (R \cup W) \cap DOMAIN d.outputs = {}
          /\ W \cap (DOMAIN d.inputs \cup DOMAIN d.history) = {}
      BY <1>8, <1>9, <2>1
    <2>6. \A r \in DOMAIN d.inputs : r \in DOMAIN m /\ m[r].kind = d.inputs[r] /\ m[r].age = 0
      BY <1>3, <1>8, <2>2 DEF Content
    <2>7. /\ d.inputs # None
          /\ \E t \in DOMAIN d.inputs :
                /\ \A r \in DOMAIN d.inputs : d.inputs[r] = "indirect" <=> r = t
                /\ k + 1 = m[t].passes + (IF "atrous" \in d.objects THEN 1 ELSE 0)
      <3>1. Tex(src) \in DOMAIN d.inputs /\ m[Tex(src)].passes = k /\ "atrous" \in d.objects
        BY <1>3, <1>8 DEF Content
      <3>2. \A r \in DOMAIN d.inputs : d.inputs[r] = "indirect" <=> r = Tex(src)
        BY <1>8, <1>9, <2>1, <2>2
      <3>3. DOMAIN None = {}
        BY DEF None, For
      <3> QED BY <3>1, <3>2, <3>3
    <2>8. ASSUME NEW r \in DOMAIN m2
          PROVE  IF r \in DOMAIN d.outputs THEN m2[r] = Content(0, d.outputs[r], k + 1)
                 ELSE r \in DOMAIN m /\ m2[r] = m[r]
      <3>1. CASE r = Tex(dst)
        BY <1>4, <1>8, <2>2, <3>1
      <3>2. CASE r \in fed
        BY <1>4, <1>8, <2>1, <3>2
      <3>3. CASE r \in {Tex(2), Tex(3), Tex(4), Tex(5)}
        BY <1>3, <1>4, <1>8, <1>9, <2>1, <3>3
      <3>4. CASE r \in NewHistory \ fed
        <4>1. r \notin DOMAIN d.outputs /\ r \in DOMAIN m
          BY <1>3, <1>8, <1>9, <2>1, <3>4
        <4>2. m2[r] = m[r]
          BY <1>3, <1>4, <3>4
        <4> QED BY <4>1, <4>2
      <3> QED BY <1>4, <3>1, <3>2, <3>3, <3>4
    <2>9. s0.camera.keep =>
             \A h \in DOMAIN d.history : h \in DOMAIN m /\ m[h].kind = d.history[h] /\ m[h].age = 1
      BY <1>8
    <2> HIDE DEF R, W, fed
    <2> QED BY <1>4, <2>3, <2>4, <2>5, <2>6, <2>7, <2>8, <2>9 DEF Ordered
  <1>13. Records(Emit(rd, d), {4, 5} \cup {src}, "PRESENT", (R \cup DOMAIN d.inputs) \cup DOMAIN d.history,
                 W \cup DOMAIN d.outputs, m2, s0)
    <2>1. {4, 5} \cup {src} \in SUBSET Slots /\ target \in 0..(BackBuffers - 1)
      BY <1>9 DEF Ground
    <2> HIDE DEF R, W
    <2> QED BY <1>11, <1>12, <2>1, Drawing
  <1>14. Records(Emit(rd, d), {4, 5} \cup {src}, "PRESENT", Reading(k + 1), Writing(k + 1), m2, s0)
    <2>1. /\ (R \cup DOMAIN d.inputs) \cup DOMAIN d.history \subseteq Reading(k + 1)
          /\ W \cup DOMAIN d.outputs \subseteq Writing(k + 1)
      BY <1>7, <1>8, Distinct DEF NewHistory, Histories
    <2>2. \A r \in DOMAIN m2 : r \in DOMAIN m2 /\ m2[r] = m2[r]
      OBVIOUS
    <2> HIDE DEF R, W
    <2> QED BY <1>13, <2>1, <2>2, Weaken
  <1> QED BY <1>2, <1>7, <1>14 DEF At, m2

\* All of them.
LEMMA IteratedAt ==
    ASSUME NEW rec, NEW n \in Nat, NEW s0, Ground(s0), DenoiseReady, At(rec, 0, s0)
    PROVE  At(Iterated(rec, n), n, s0)
  <1>1. PICK f : /\ Iterated(rec, n) = f[n]
                 /\ f[0] = rec
                 /\ \A k \in 1..n : f[k] = Iteration(f[k - 1], k - 1)
    BY IteratedStep
  <1> DEFINE S == {k \in Nat : k <= n => At(f[k], k, s0)}
  <1>2. 0 \in S
    BY <1>1
  <1>3. ASSUME NEW k \in S PROVE k + 1 \in S
    <2>1. k \in Nat /\ k + 1 \in Nat /\ (k <= n => At(f[k], k, s0))
      OBVIOUS
    <2> SUFFICES ASSUME k + 1 <= n PROVE At(f[k + 1], k + 1, s0)
      BY <2>1
    <2>2. k <= n /\ k + 1 \in 1..n /\ (k + 1) - 1 = k
      BY <2>1
    <2>3. f[k + 1] = Iteration(f[k], k)
      BY <1>1, <2>2
    <2> QED BY <2>1, <2>2, <2>3, IterationAt
  <1>4. S \in SUBSET Nat
    OBVIOUS
  <1>5. n \in S /\ n <= n
    <2> HIDE DEF S
    <2> QED BY <1>2, <1>3, <1>4, Induction
  <1> QED BY <1>1, <1>5

\* A pass that draws the back buffer, between its two barriers.
LEMMA BackDrawn ==
    ASSUME NEW rec, NEW P \in SUBSET Slots, NEW R, NEW W, NEW m, NEW s0,
           Records(rec, P, "PRESENT", R, W, m, s0), target \in 0..(BackBuffers - 1),
           NEW d, NEW q, NEW m2,
           Ordered(d, P, "RT", R \ {Back(target)}, W \ {Back(target)}, m, s0, q, m2)
    PROVE  \E R2, W2 : Records(ToBack(rec, d), P, "PRESENT", R2, W2, m2, s0)
  <1> DEFINE b  == Back(target)
             r1 == Emit(rec, Transition(b, "PRESENT", "RT"))
             r2 == Emit(r1, d)
             r3 == Emit(r2, Transition(b, "RT", "PRESENT"))
             R1 == R \ {b}
             W1 == W \ {b}
             R2 == (R1 \cup DOMAIN d.inputs) \cup DOMAIN d.history
             W2 == W1 \cup DOMAIN d.outputs
  <1>1. ToBack(rec, d) = r3
    BY DEF ToBack
  <1>2. Records(r1, P, "RT", R1, W1, m, s0)
    BY BackMoved
  <1>3. Ordered(d, P, "RT", R1, W1, m, s0, q, m2)
    OBVIOUS
  <1> HIDE DEF r1, R1, W1
  <1>4. Records(r2, P, "RT", R2, W2, m2, s0)
    BY <1>2, <1>3, Drawing
  <1> HIDE DEF r2, R2, W2
  <1>5. Records(r3, P, "PRESENT", R2 \ {b}, W2 \ {b}, m2, s0)
    BY <1>4, BackMoved
  <1> QED BY <1>1, <1>5

PictureMem(n) ==
    [r \in {Back(target)} \cup NewHistory |->
        IF r = Back(target) THEN Content(0, "picture", n)
        ELSE IF r = <<"accum", accumPair>> THEN Content(0, "filtered", 1)
        ELSE Content(0, Purpose(r), 0)]

\* The composite pass reads what the last iteration wrote.
LEMMA CompositedAt ==
    ASSUME NEW rec, NEW n \in Nat \ {0}, NEW s0, Ground(s0), DenoiseReady, At(rec, n, s0)
    PROVE  \E R, W : Records(Composited(rec, n), {}, "PRESENT", R, W, PictureMem(n), s0)
  <1> DEFINE src == n % 2
             oth == (n + 1) % 2
             r1  == ToState(rec, src, "PSR")
             r2  == ToState(r1, 2, "PSR")
             r3  == ToState(r2, 3, "PSR")
             b   == Back(target)
             d   == CompositePass(src)
             R   == OldHistory \cup {Tex(oth), Tex(4), Tex(5)}
             W   == NewHistory
             m   == FrameMem(n)
             m2  == PictureMem(n)
  <1>1. /\ src \in {0, 1} /\ oth = 1 - src /\ src \in Slots /\ oth \in Slots
        /\ src # oth /\ src \notin {2, 3, 4, 5} /\ oth \notin {2, 3, 4, 5}
        /\ Slots = {0, 1, 2, 3, 4, 5} /\ n > 0 /\ n # 0 /\ n \in Nat
    BY Parity DEF Slots
  <1>2. Composited(rec, n) = AllToTargets(ToBack(r3, d))
    BY DEF Composited, FinalSlot
  <1>3. /\ DOMAIN m = {Tex(src), Tex(2), Tex(3), Tex(4), Tex(5)} \cup NewHistory
        /\ m[Tex(src)] = Content(0, "indirect", n)
        /\ m[Tex(2)] = Content(0, "direct", 0) /\ m[Tex(3)] = Content(0, "albedo", 0)
        /\ \A r \in NewHistory : m[r] = IF r = <<"accum", accumPair>>
                                     THEN Content(0, "filtered", 1) ELSE Content(0, Purpose(r), 0)
    <2>1. n \in Nat /\ accumPair \in {0, 1}
      BY DEF Ground
    <2> HIDE DEF src
    <2>2. /\ DOMAIN m = {Tex(n % 2), Tex(2), Tex(3), Tex(4), Tex(5)} \cup NewHistory
          /\ m[Tex(n % 2)] = Content(0, "indirect", n)
          /\ m[Tex(2)] = Content(0, "direct", 0) /\ m[Tex(3)] = Content(0, "albedo", 0)
      BY <2>1, FrameMems
    <2>3. \A r \in NewHistory : m[r] = IF n > 0 /\ r = <<"accum", accumPair>>
                                       THEN Content(0, "filtered", 1) ELSE Content(0, Purpose(r), 0)
      BY <2>1, FrameMems
    <2> HIDE DEF m
    <2>4. n > 0 /\ n % 2 = src
      BY <1>1 DEF src
    <2> QED BY <2>2, <2>3, <2>4
  <1>4. Records(rec, {4, 5, oth}, "PRESENT", OldHistory \cup {Tex(oth), Tex(4), Tex(5)},
                {Tex(src), Tex(2), Tex(3)} \cup NewHistory, m, s0)
    <2>1. /\ ReadSlots(n) = {4, 5, oth}
          /\ Reading(n) = OldHistory \cup {Tex(oth), Tex(4), Tex(5)}
          /\ Writing(n) = {Tex(src), Tex(2), Tex(3)} \cup NewHistory
      BY <1>1 DEF ReadSlots, Reading, Writing
    <2>2. Records(rec, ReadSlots(n), "PRESENT", Reading(n), Writing(n), m, s0)
      BY DEF At
    <2> QED BY <2>1, <2>2, Zenon
  <1>5. /\ d.op = "draw" /\ d.objects = {"list", "composite", "offscreen", "noise", "targets"}
        /\ DOMAIN d.inputs = {Tex(src), Tex(2), Tex(3)} /\ DOMAIN d.history = {}
        /\ \A r \in DOMAIN d.inputs : d.inputs[r] = Purpose(r)
        /\ DOMAIN d.outputs = {b} /\ d.outputs[b] = Purpose(b)
    BY DEF CompositePass, Draw, For, None
  <1>6. /\ b \in Textures /\ b \in Resources
        /\ \A i \in Slots : Tex(i) # b /\ Tex(i) \notin NewHistory /\ Tex(i) \notin OldHistory
        /\ b \notin NewHistory /\ b \notin OldHistory /\ NewHistory \cap OldHistory = {}
        /\ \A i, j \in Slots : Tex(i) = Tex(j) => i = j
        /\ NewHistory \subseteq Resources
    BY Distinct, AllResources, SlotTextures DEF Ground, NewHistory, OldHistory
  <1>7. /\ DOMAIN m2 = {b} \cup NewHistory /\ m2[b] = Content(0, "picture", n)
        /\ \A r \in NewHistory : m2[r] = IF r = <<"accum", accumPair>>
                                      THEN Content(0, "filtered", 1) ELSE Content(0, Purpose(r), 0)
    BY <1>6 DEF PictureMem
  <1> HIDE DEF src, oth, d, m, m2, r1, r2, r3, b
  <1>8. /\ {4, 5, oth} \in SUBSET Slots /\ src \in Slots \ {4, 5, oth}
        /\ {4, 5, oth} \cup {src} \in SUBSET Slots /\ 2 \in Slots \ ({4, 5, oth} \cup {src})
        /\ ({4, 5, oth} \cup {src}) \cup {2} \in SUBSET Slots
        /\ 3 \in Slots \ (({4, 5, oth} \cup {src}) \cup {2})
        /\ (({4, 5, oth} \cup {src}) \cup {2}) \cup {3} = Slots
    BY <1>1
  <1>9. Records(r3, Slots, "PRESENT", R, W, m, s0)
    <2> DEFINE P0 == {4, 5, oth}
               P1 == P0 \cup {src}
               P2 == P1 \cup {2}
               W0 == {Tex(src), Tex(2), Tex(3)} \cup NewHistory
               R1 == R \ {Tex(src)}
               W1 == W0 \ {Tex(src)}
               R2 == R1 \ {Tex(2)}
               W2 == W1 \ {Tex(2)}
               R3 == R2 \ {Tex(3)}
               W3 == W2 \ {Tex(3)}
    <2>1. /\ P0 \in SUBSET Slots /\ src \in Slots \ P0 /\ P1 \in SUBSET Slots /\ 2 \in Slots \ P1
          /\ P2 \in SUBSET Slots /\ 3 \in Slots \ P2 /\ P2 \cup {3} = Slots
      BY <1>8
    <2>2. R3 \subseteq R /\ W3 \subseteq W
      OBVIOUS
    <2>3. Records(rec, P0, "PRESENT", R, W0, m, s0)
      BY <1>4
    <2>4. \A r \in DOMAIN m : r \in DOMAIN m /\ m[r] = m[r]
      OBVIOUS
    <2>5. P1 = P0 \cup {src} /\ P2 = P1 \cup {2} /\ R1 = R \ {Tex(src)} /\ W1 = W0 \ {Tex(src)}
      OBVIOUS
    <2>6. R2 = R1 \ {Tex(2)} /\ W2 = W1 \ {Tex(2)} /\ R3 = R2 \ {Tex(3)} /\ W3 = W2 \ {Tex(3)}
      OBVIOUS
    <2> HIDE DEF P0, P1, P2, R, W, W0, R1, W1, R2, W2, R3, W3
    <2>7. Records(r1, P1, "PRESENT", R1, W1, m, s0)
      BY <2>1, <2>3, <2>5, ToRead DEF r1
    <2>8. Records(r2, P2, "PRESENT", R2, W2, m, s0)
      BY <2>1, <2>5, <2>6, <2>7, ToRead DEF r2
    <2>9. Records(r3, Slots, "PRESENT", R3, W3, m, s0)
      BY <2>1, <2>6, <2>8, ToRead DEF r3
    <2> QED BY <2>2, <2>4, <2>9, Weaken
  <1>10. R \ {b} = R /\ W \ {b} = W
    BY <1>1, <1>6
  <1>11. Ordered(d, Slots, "RT", R, W, m, s0, n, m2)
    <2>1. /\ Purpose(Tex(src)) = "indirect" /\ Purpose(Tex(2)) = "direct"
          /\ Purpose(Tex(3)) = "albedo" /\ Purpose(b) = "picture"
      BY <1>1, Purposes DEF b
    <2>2. d.op = "draw" /\ d.objects \subseteq s0.made /\ s0.tile # "part" /\ s0.camera.age = 0
      BY <1>5, DenoiserMade DEF Ground
    <2>3. /\ \A r \in DOMAIN d.inputs : \E s \in Slots : r = Tex(s)
          /\ \A r \in DOMAIN d.outputs \cap Textures :
                (\E s \in Slots \ Slots : r = Tex(s)) \/ ("RT" = "RT" /\ r = Back(target))
      BY <1>1, <1>5 DEF b
    <2>4. /\ (R \cup W) \cap DOMAIN d.outputs = {}
          /\ W \cap (DOMAIN d.inputs \cup DOMAIN d.history) = {}
      BY <1>1, <1>5, <1>6
    <2>5. \A r \in DOMAIN d.inputs : r \in DOMAIN m /\ m[r].kind = d.inputs[r] /\ m[r].age = 0
      BY <1>3, <1>5, <2>1 DEF Content
    <2>6. /\ d.inputs # None
          /\ \E t \in DOMAIN d.inputs :
                /\ \A r \in DOMAIN d.inputs : d.inputs[r] = "indirect" <=> r = t
                /\ n = m[t].passes + (IF "atrous" \in d.objects THEN 1 ELSE 0)
      <3>1. Tex(src) \in DOMAIN d.inputs /\ m[Tex(src)].passes = n /\ "atrous" \notin d.objects
        BY <1>3, <1>5 DEF Content
      <3>2. \A r \in DOMAIN d.inputs : d.inputs[r] = "indirect" <=> r = Tex(src)
        BY <1>1, <1>5, <1>6, <2>1
      <3>3. DOMAIN None = {}
        BY DEF None, For
      <3>4. n = n + 0
        BY <1>1
      <3> QED BY <3>1, <3>2, <3>3, <3>4
    <2>7. ASSUME NEW r \in DOMAIN m2
          PROVE  IF r \in DOMAIN d.outputs THEN m2[r] = Content(0, d.outputs[r], n)
                 ELSE r \in DOMAIN m /\ m2[r] = m[r]
      BY <1>3, <1>5, <1>6, <1>7, <2>1
    <2>8. s0.camera.keep =>
             \A h \in DOMAIN d.history : h \in DOMAIN m /\ m[h].kind = d.history[h] /\ m[h].age = 1
      BY <1>5
    <2>9. DOMAIN m2 \subseteq Resources
      BY <1>6, <1>7
    <2> HIDE DEF R, W
    <2> QED BY <2>2, <2>3, <2>4, <2>5, <2>6, <2>7, <2>8, <2>9 DEF Ordered
  <1>12. PICK R2, W2 : Records(ToBack(r3, d), Slots, "PRESENT", R2, W2, m2, s0)
    <2>1. Ordered(d, Slots, "RT", R \ {Back(target)}, W \ {Back(target)}, m, s0, n, m2)
      BY <1>10, <1>11 DEF b
    <2>2. Slots \in SUBSET Slots /\ target \in 0..(BackBuffers - 1)
      BY DEF Ground
    <2> HIDE DEF R, W
    <2> QED BY <1>9, <2>1, <2>2, BackDrawn
  <1>13. Records(AllToTargets(ToBack(r3, d)), {}, "PRESENT", R2, W2, m2, s0)
    <2>1. Slots \in SUBSET Slots
      OBVIOUS
    <2> QED BY <1>12, <2>1, AllDrawn
  <1> QED BY <1>2, <1>13 DEF m2

Pair(f) == IF f.mode = "QUALITY" THEN {"accum", "hitPos"} ELSE {}

PlainMem(f) == [r \in {Back(target)} \cup (Pair(f) \X {accumPair}) |-> Content(0, Purpose(r), 0)]

\* The single pass of a frame without a denoiser.
LEMMA SingleAt ==
    ASSUME NEW rec, NEW m, NEW s0, NEW f, Ground(s0),
           Records(rec, {}, "PRESENT", {}, {}, m, s0),
           s0.camera.keep =>
              \A h \in Pair(f) \X {Other(accumPair)} :
                 h \in DOMAIN m /\ m[h].age = 1 /\ m[h].kind = h[1]
    PROVE  \E R, W : Records(ToBack(rec, SinglePass(f)), {}, "PRESENT", R, W, PlainMem(f), s0)
  <1> DEFINE d   == SinglePass(f)
             b   == Back(target)
             now == Pair(f) \X {accumPair}
             old == Pair(f) \X {Other(accumPair)}
             m2  == PlainMem(f)
  <1>1. /\ d.op = "draw" /\ d.objects = SceneObjects \cup {"rootSig", "pso", "targets"}
        /\ d.inputs = None /\ DOMAIN d.inputs = {}
        /\ DOMAIN d.history = old /\ \A h \in old : d.history[h] = Purpose(h)
        /\ DOMAIN d.outputs = {b} \cup now /\ \A r \in {b} \cup now : d.outputs[r] = Purpose(r)
    BY DEF SinglePass, Draw, For, None, Pair
  <1>2. now \subseteq Histories \X {accumPair} /\ old \subseteq Histories \X {Other(accumPair)}
    BY DEF Pair, Histories
  <1>3. /\ b \in Textures /\ b \in Resources /\ now \subseteq Resources /\ now \cap Textures = {}
        /\ b \notin now /\ b \notin old /\ now \cap old = {}
        /\ \A h \in old : Purpose(h) = h[1]
    BY <1>2, Distinct, AllResources, SlotTextures, Purposes DEF Ground, Histories
  <1>4. DOMAIN m2 = {b} \cup now /\ \A r \in {b} \cup now : m2[r] = Content(0, Purpose(r), 0)
    BY DEF PlainMem
  <1> HIDE DEF d, b, now, old, m2
  <1>5. Ordered(d, {}, "RT", {}, {}, m, s0, 0, m2)
    <2>1. d.op = "draw" /\ d.objects \subseteq s0.made /\ s0.tile # "part" /\ s0.camera.age = 0
      BY <1>1 DEF Ground, SceneObjects
    <2>2. \A r \in DOMAIN d.outputs \cap Textures : r = Back(target)
      BY <1>1, <1>3 DEF b
    <2>3. s0.camera.keep =>
             \A h \in DOMAIN d.history : h \in DOMAIN m /\ m[h].kind = d.history[h] /\ m[h].age = 1
      BY <1>1, <1>3 DEF old
    <2>4. DOMAIN m2 \subseteq Resources
      BY <1>3, <1>4
    <2>5. \A r \in DOMAIN m2 : r \in DOMAIN d.outputs /\ m2[r] = Content(0, d.outputs[r], 0)
      BY <1>1, <1>4
    <2> QED BY <1>1, <2>1, <2>2, <2>3, <2>4, <2>5 DEF Ordered
  <1>6. {} \in SUBSET Slots /\ target \in 0..(BackBuffers - 1) /\ {} \ {Back(target)} = {}
    BY DEF Ground
  <1>7. Ordered(d, {}, "RT", {} \ {Back(target)}, {} \ {Back(target)}, m, s0, 0, m2)
    BY <1>5, <1>6
  <1>8. \E R, W : Records(ToBack(rec, d), {}, "PRESENT", R, W, m2, s0)
    BY <1>6, <1>7, BackDrawn
  <1> QED BY <1>8 DEF d, m2

\* What a frame rendered under a scene key leaves in the histories of a pair: the
\* average filtered once if the denoiser ran, raw otherwise.
Left(memory, pair, key) ==
    key[1] = "QUALITY" =>
        LET multi == DenoiseReady /\ key[2] # "NONE" IN
        \A h \in (IF multi THEN Histories ELSE {"accum", "hitPos"}) :
            memory[<<h, pair>>] = IF multi /\ h = "accum" THEN Content(0, "filtered", 1) ELSE Content(0, h, 0)

\* The history that a list may blend.
Kept(memory, f) ==
    /\ f.mode = "QUALITY"
    /\ \A h \in (IF Multipass(f) THEN Histories ELSE {"accum", "hitPos"}) :
          /\ memory[<<h, Other(accumPair)>>].age = 1
          /\ memory[<<h, Other(accumPair)>>].kind = IF Multipass(f) /\ h = "accum" THEN "filtered" ELSE h

\* The list of a frame, in either mode.
LEMMA FrameRecorded ==
    ASSUME NEW s0, NEW f \in Frames, Ground(s0), FrameAssumption, texState = TexOf({}),
           s0.actual = Targets, s0.pending = {}, DOMAIN s0.mem = Resources,
           s0.camera.keep => Kept(s0.mem, f)
    PROVE  \E l, t : /\ Recorded(f) = [list |-> l, tex |-> TexOf({})]
                     /\ IsList(l) /\ Run(l, s0, t)
                     /\ t.actual = Targets /\ DOMAIN t.mem = Resources
                     /\ t.mem[Back(target)] = Shown(f)
                     /\ Left(t.mem, accumPair, Key(f))
  <1> DEFINE rec == [list |-> <<>>, tex |-> texState]
             b   == Back(target)
             r   == Recorded(f)
  <1>1. Targets = ActualOf({}, "PRESENT")
    BY DEF Targets, ActualOf
  <1>2. Records(rec, {}, "PRESENT", {}, {}, s0.mem, s0)
    <2>1. Known(s0, {}, "PRESENT", {}, {}, s0.mem, s0)
      BY <1>1 DEF Known
    <2>2. IsList(<<>>) /\ Run(<<>>, s0, s0)
      BY RunNil
    <2>3. rec = [list |-> <<>>, tex |-> TexOf({})]
      OBVIOUS
    <2> HIDE DEF rec
    <2> QED BY <2>1, <2>2, <2>3, Zenon DEF Records
  <1> HIDE DEF rec
  <1>3. \A R, W, m : Records(r, {}, "PRESENT", R, W, m, s0) =>
           \E l, t : /\ r = [list |-> l, tex |-> TexOf({})] /\ IsList(l) /\ Run(l, s0, t)
                     /\ t.actual = Targets /\ DOMAIN t.mem = Resources
                     /\ \A x \in DOMAIN m : t.mem[x] = m[x]
    <2> HIDE DEF r
    <2> TAKE R, W, m
    <2> HAVE Records(r, {}, "PRESENT", R, W, m, s0)
    <2>1. PICK l, s : /\ r = [list |-> l, tex |-> TexOf({})]
                      /\ IsList(l) /\ Run(l, s0, s)
                      /\ Known(s, {}, "PRESENT", R, W, m, s0)
      BY Zenon DEF Records
    <2>2. s.actual = Targets /\ DOMAIN s.mem = Resources /\ \A x \in DOMAIN m : s.mem[x] = m[x]
      BY <1>1, <2>1 DEF Known
    <2> QED BY <2>1, <2>2, Zenon
  <1>4. f.iters \in Int /\ f.mode \in {"PERFORMANCE", "QUALITY"} /\ IterMax \in Nat \ {0}
    BY DEF FrameAssumption
  <1>5. \A m : (\E R, W : Records(r, {}, "PRESENT", R, W, m, s0))
               /\ b \in DOMAIN m /\ m[b] = Shown(f)
               /\ (f.mode = "QUALITY" =>
                    \A h \in (IF Multipass(f) THEN Histories ELSE {"accum", "hitPos"}) :
                       /\ <<h, accumPair>> \in DOMAIN m
                       /\ m[<<h, accumPair>>] = IF Multipass(f) /\ h = "accum" THEN Content(0, "filtered", 1)
                                                ELSE Content(0, h, 0))
            => \E l, t : /\ r = [list |-> l, tex |-> TexOf({})]
                         /\ IsList(l) /\ Run(l, s0, t)
                         /\ t.actual = Targets /\ DOMAIN t.mem = Resources
                         /\ t.mem[b] = Shown(f)
                         /\ Left(t.mem, accumPair, Key(f))
    <2> HIDE DEF r, b
    <2> SUFFICES ASSUME NEW m, NEW R, NEW W, Records(r, {}, "PRESENT", R, W, m, s0),
                        b \in DOMAIN m, m[b] = Shown(f),
                        f.mode = "QUALITY" =>
                          \A h \in (IF Multipass(f) THEN Histories ELSE {"accum", "hitPos"}) :
                             /\ <<h, accumPair>> \in DOMAIN m
                             /\ m[<<h, accumPair>>] = IF Multipass(f) /\ h = "accum"
                                                      THEN Content(0, "filtered", 1) ELSE Content(0, h, 0)
                 PROVE  \E l, t : /\ r = [list |-> l, tex |-> TexOf({})]
                                  /\ IsList(l) /\ Run(l, s0, t)
                                  /\ t.actual = Targets /\ DOMAIN t.mem = Resources
                                  /\ t.mem[b] = Shown(f)
                                  /\ Left(t.mem, accumPair, Key(f))
      BY Zenon
    <2>1. PICK l, t : /\ r = [list |-> l, tex |-> TexOf({})] /\ IsList(l) /\ Run(l, s0, t)
                      /\ t.actual = Targets /\ DOMAIN t.mem = Resources
                      /\ \A x \in DOMAIN m : t.mem[x] = m[x]
      BY <1>3
    <2>2. t.mem[b] = Shown(f)
      BY <2>1
    <2>3. Left(t.mem, accumPair, Key(f))
      <3> SUFFICES ASSUME f.mode = "QUALITY",
                          NEW h \in (IF Multipass(f) THEN Histories ELSE {"accum", "hitPos"})
                   PROVE  t.mem[<<h, accumPair>>] = IF Multipass(f) /\ h = "accum"
                                                    THEN Content(0, "filtered", 1) ELSE Content(0, h, 0)
        BY DEF Left, Key, Multipass
      <3> QED BY <2>1
    <2> QED BY <2>1, <2>2, <2>3, Zenon
  <1>6. CASE Multipass(f)
    <2> DEFINE n  == Clamped(f.iters)
               r1 == Shaded(rec)
               r2 == Iterated(r1, n)
               m  == PictureMem(n)
    <2>0. DenoiseReady /\ f.mode = "QUALITY" /\ n \in Nat \ {0}
      BY <1>4, <1>6 DEF Multipass, Clamped
    <2>1. r = Composited(r2, n)
      BY <1>6 DEF Recorded, rec
    <2>2. Shown(f) = Content(0, "picture", n)
      BY <1>6 DEF Shown
    <2> HIDE DEF n, r
    <2>3. At(r1, 0, s0)
      <3>1. s0.camera.keep =>
              \A h \in OldHistory : /\ h \in DOMAIN s0.mem /\ s0.mem[h].age = 1
                                  /\ s0.mem[h].kind = IF h[1] = "accum" THEN "filtered" ELSE h[1]
        <4> SUFFICES ASSUME s0.camera.keep, NEW g \in Histories
                     PROVE  /\ <<g, Other(accumPair)>> \in DOMAIN s0.mem
                            /\ s0.mem[<<g, Other(accumPair)>>].age = 1
                            /\ s0.mem[<<g, Other(accumPair)>>].kind = IF g = "accum" THEN "filtered" ELSE g
          BY DEF OldHistory
        <4>1. <<g, Other(accumPair)>> \in Resources
          BY AllResources DEF Ground
        <4> QED BY <1>6, <4>1 DEF Kept
      <3> QED BY <1>2, <2>0, <3>1, ShadedAt
    <2> HIDE DEF r1
    <2>4. At(r2, n, s0)
      BY <2>0, <2>3, IteratedAt
    <2> HIDE DEF r2
    <2>5. \E R, W : Records(r, {}, "PRESENT", R, W, m, s0)
      BY <2>0, <2>1, <2>4, CompositedAt
    <2>6. /\ b \in DOMAIN m /\ m[b] = Shown(f)
          /\ \A h \in Histories : /\ <<h, accumPair>> \in DOMAIN m
                                  /\ m[<<h, accumPair>>] = IF h = "accum" THEN Content(0, "filtered", 1)
                                                           ELSE Content(0, h, 0)
      <3>1. b \notin NewHistory /\ \A h \in Histories : <<h, accumPair>> \in NewHistory
        BY Distinct DEF NewHistory
      <3>2. DOMAIN m = {b} \cup NewHistory /\ m[b] = Content(0, "picture", n)
        BY DEF PictureMem
      <3>3. ASSUME NEW h \in Histories
            PROVE  m[<<h, accumPair>>] = IF h = "accum" THEN Content(0, "filtered", 1) ELSE Content(0, h, 0)
        <4>1. Purpose(<<h, accumPair>>) = h
          BY Purposes
        <4> QED BY <3>1, <4>1 DEF PictureMem
      <3> QED BY <2>2, <3>1, <3>2, <3>3
    <2> HIDE DEF m, b
    <2>7. \E l, t : /\ r = [list |-> l, tex |-> TexOf({})]
                    /\ IsList(l) /\ Run(l, s0, t)
                    /\ t.actual = Targets /\ DOMAIN t.mem = Resources
                    /\ t.mem[b] = Shown(f)
                    /\ Left(t.mem, accumPair, Key(f))
      BY <1>5, <1>6, <2>5, <2>6
    <2> QED BY <2>7 DEF b, r
  <1>7. CASE ~Multipass(f)
    <2> DEFINE m == PlainMem(f)
    <2>1. r = ToBack(rec, SinglePass(f))
      BY <1>7 DEF Recorded, rec
    <2>2. Shown(f) = Content(0, "picture", 0)
      BY <1>7 DEF Shown
    <2> HIDE DEF r
    <2>3. s0.camera.keep =>
             \A h \in Pair(f) \X {Other(accumPair)} :
                h \in DOMAIN s0.mem /\ s0.mem[h].age = 1 /\ s0.mem[h].kind = h[1]
      <3> SUFFICES ASSUME s0.camera.keep, NEW g \in Pair(f)
                   PROVE  /\ <<g, Other(accumPair)>> \in DOMAIN s0.mem
                          /\ s0.mem[<<g, Other(accumPair)>>].age = 1
                          /\ s0.mem[<<g, Other(accumPair)>>].kind = g
        OBVIOUS
      <3>1. g \in {"accum", "hitPos"} /\ g \in Histories
        BY DEF Pair, Histories
      <3>2. <<g, Other(accumPair)>> \in Resources
        BY <3>1, AllResources DEF Ground
      <3> QED BY <1>7, <3>1, <3>2 DEF Kept
    <2>4. \E R, W : Records(r, {}, "PRESENT", R, W, m, s0)
      BY <1>2, <2>1, <2>3, SingleAt
    <2>5. b \in DOMAIN m /\ m[b] = Shown(f)
      BY <2>2, Purposes DEF PlainMem
    <2>6. f.mode = "QUALITY" =>
             \A h \in {"accum", "hitPos"} : /\ <<h, accumPair>> \in DOMAIN m
                                            /\ m[<<h, accumPair>>] = Content(0, h, 0)
      <3> SUFFICES ASSUME f.mode = "QUALITY", NEW h \in {"accum", "hitPos"}
                   PROVE  <<h, accumPair>> \in DOMAIN m /\ m[<<h, accumPair>>] = Content(0, h, 0)
        OBVIOUS
      <3>1. h \in Histories /\ h \in Pair(f)
        BY DEF Pair, Histories
      <3>2. Purpose(<<h, accumPair>>) = h
        BY <3>1, Purposes
      <3> QED BY <3>1, <3>2 DEF PlainMem
    <2> HIDE DEF m, b
    <2>7. \E l, t : /\ r = [list |-> l, tex |-> TexOf({})]
                    /\ IsList(l) /\ Run(l, s0, t)
                    /\ t.actual = Targets /\ DOMAIN t.mem = Resources
                    /\ t.mem[b] = Shown(f)
                    /\ Left(t.mem, accumPair, Key(f))
      BY <1>5, <1>7, <2>4, <2>5, <2>6
    <2> QED BY <2>7 DEF b, r
  <1> QED BY <1>6, <1>7

-----------------------------------------------------------------------------
(* The inductive invariant.                                                *)

Busy == pc \in {"wait", "capture"}

\* What the commands left in the queue lead to.
Ends(t) ==
    /\ t.actual = Targets /\ t.pending = {} /\ DOMAIN t.mem = Resources
    /\ pc = "wait" => t.screen = Shown(frame) /\ Left(t.mem, accumPair, Key(frame))
    /\ pc = "capture" => Left(t.mem, Other(accumPair), accKey)

\* Between two frames the GPU is idle, and the history is what the key says.
QueueRuns ==
    /\ Busy => IsList(queue) /\ \E t : Run(queue, Now, t) /\ Ends(t)
    /\ ~Busy => queue = <<>> /\ pending = {} /\ actual = Targets
    /\ pc = "drain" => Left(mem, Other(accumPair), accKey)

Bookkeeping ==
    /\ pc \in {"off", "init", "drain", "headless", "capture", "wait"}
    /\ target \in 0..(BackBuffers - 1) /\ accumPair \in {0, 1}
    /\ texState = TexOf({}) /\ DOMAIN mem = Resources
    /\ pc \in {"off", "init"} => accKey = NoKey
    /\ pc = "wait" => accKey = Key(frame)

\* Only a finished tile leaves the bake thread.
WholeTile ==
    /\ tile # "part"
    /\ baker \in {"ranked", "writing", "written", "done"} => bnTile = "real"

\* Of what Init went past, only the denoiser's objects may be missing.
Built ==
    /\ pc = "off" => step = 1
    /\ pc = "init" =>
          /\ step \in 1..Len(InitOrder)
          /\ \A i \in 1..(step - 1) : InitOrder[i] \in Range(DenoiserObjects) \cup made
    /\ pc = "drain" \/ Busy =>
          \A i \in 1..Len(InitOrder) : InitOrder[i] \in Range(DenoiserObjects) \cup made

IInv == QueueRuns /\ Bookkeeping /\ WholeTile /\ Built

\* What Init creates, one by one.
LEMMA Order ==
    /\ Len(InitOrder) = 19 /\ DOMAIN InitOrder = 1..19
    /\ InitOrder[1] = "device" /\ InitOrder[2] = "queue" /\ InitOrder[3] = "swapchain"
    /\ InitOrder[4] = "targets" /\ InitOrder[5] = "list" /\ InitOrder[6] = "fence"
    /\ InitOrder[7] = "rootSig" /\ InitOrder[8] = "pso" /\ InitOrder[9] = "voxels"
    /\ InitOrder[10] = "brick" /\ InitOrder[11] = "camera" /\ InitOrder[12] = "history"
    /\ InitOrder[13] = "offscreen" /\ InitOrder[14] = "moments" /\ InitOrder[15] = "shade"
    /\ InitOrder[16] = "atrous" /\ InitOrder[17] = "composite"
    /\ InitOrder[18] = "noise" /\ InitOrder[19] = "palette"
    /\ NoiseStep = 18
    /\ Range(DenoiserObjects) = {"offscreen", "moments", "shade", "atrous", "composite"}
  <1>1. /\ Len(InitOrder) = 19 /\ DOMAIN InitOrder = 1..19
        /\ InitOrder[1] = "device" /\ InitOrder[2] = "queue" /\ InitOrder[3] = "swapchain"
        /\ InitOrder[4] = "targets" /\ InitOrder[5] = "list" /\ InitOrder[6] = "fence"
        /\ InitOrder[7] = "rootSig" /\ InitOrder[8] = "pso" /\ InitOrder[9] = "voxels"
        /\ InitOrder[10] = "brick" /\ InitOrder[11] = "camera" /\ InitOrder[12] = "history"
        /\ InitOrder[13] = "offscreen" /\ InitOrder[14] = "moments" /\ InitOrder[15] = "shade"
        /\ InitOrder[16] = "atrous" /\ InitOrder[17] = "composite"
        /\ InitOrder[18] = "noise" /\ InitOrder[19] = "palette"
    BY SMTT(60) DEF InitOrder, DenoiserObjects
  <1>2. \A n \in 1..19 : InitOrder[n] = "noise" <=> n = 18
    <2> TAKE n \in 1..19
    <2>1. n = 1 \/ n = 2 \/ n = 3 \/ n = 4 \/ n = 5 \/ n = 6 \/ n = 7 \/ n = 8 \/ n = 9 \/ n = 10
          \/ n = 11 \/ n = 12 \/ n = 13 \/ n = 14 \/ n = 15 \/ n = 16 \/ n = 17 \/ n = 18 \/ n = 19
      OBVIOUS
    <2> QED BY <1>1, <2>1
  <1>3. NoiseStep = 18
    BY <1>1, <1>2 DEF NoiseStep
  <1>4. Range(DenoiserObjects) = {"offscreen", "moments", "shade", "atrous", "composite"}
    BY DEF Range, DenoiserObjects
  <1> QED BY <1>1, <1>3, <1>4

\* The draws of the GPU, in the state it is in.
LEMMA NowDraws ==
    ASSUME NEW d
    PROVE  (Conflicts(d) <=> ConflictsIn(d, Now)) /\ Drawn(d) = DrawnIn(d, Now)
  <1>1. Conflicts(d) <=> ConflictsIn(d, Now)
    BY DEF Conflicts, ConflictsIn, Now
  <1>2. Age(d) = AgeIn(d, Now) /\ Passes(d) = PassesIn(d, Now)
    BY DEF Age, AgeIn, Passes, PassesIn, Source, Now
  <1>3. Sound(d) <=> SoundIn(d, Now)
    BY <1>1, <1>2 DEF Sound, SoundIn, Now
  <1>4. Drawn(d) = DrawnIn(d, Now)
    BY <1>2, <1>3 DEF Drawn, DrawnIn, Now
  <1> QED BY <1>1, <1>4

LEMMA InitIInv ==
    ASSUME Init, FrameAssumption PROVE IInv
  <1>1. 0 \in 0..(BackBuffers - 1)
    BY DEF FrameAssumption
  <1>2. QueueRuns /\ Bookkeeping
    BY <1>1 DEF Init, QueueRuns, Busy, Bookkeeping, TexOf, NoKey
  <1>3. WholeTile /\ Built
    BY DEF Init, WholeTile, Built, Busy
  <1> QED BY <1>2, <1>3 DEF IInv

\* A process that ends leaves nothing but the cache file.
LEMMA GoneIInv ==
    ASSUME Gone, FrameAssumption PROVE IInv'
  <1>1. 0 \in 0..(BackBuffers - 1)
    BY DEF FrameAssumption
  <1>2. Targets' = Targets
    BY DEF Targets, Textures, Tex, Back, Slots
  <1>3. QueueRuns'
    BY <1>2 DEF Gone, QueueRuns, Busy
  <1>4. Bookkeeping'
    BY <1>1 DEF Gone, Bookkeeping, TexOf, NoKey, Resources
  <1>5. WholeTile' /\ Built'
    BY DEF Gone, WholeTile, Built, Busy
  <1> QED BY <1>3, <1>4, <1>5 DEF IInv

\* What has run is what was expected.
LEMMA AllRun ==
    ASSUME NEW s, NEW t, Run(<<>>, s, t) PROVE s = t
  <1>1. Len(<<>>) = 0
    OBVIOUS
  <1> QED BY <1>1 DEF Run

\* Once the GPU is idle, the frame or the screenshot is over.
LEMMA IdleIInv ==
    ASSUME IInv, Busy, Idle
    PROVE  /\ actual = Targets /\ pending = {} /\ queue = <<>>
           /\ pc = "wait" => screen = Shown(frame) /\ Left(mem, accumPair, Key(frame))
           /\ pc = "capture" => Left(mem, Other(accumPair), accKey)
  <1>1. PICK t : Run(queue, Now, t) /\ Ends(t)
    BY DEF IInv, QueueRuns
  <1>2. queue = <<>> /\ pending = {}
    BY DEF Idle
  <1>3. t = Now
    BY <1>1, <1>2, AllRun
  <1>4. Now.actual = actual /\ Now.mem = mem /\ Now.screen = screen
    BY DEF Now
  <1> QED BY <1>1, <1>2, <1>3, <1>4 DEF Ends

\* In every state the invariant allows, the GPU finds its next command ready, and a
\* frame that is over is whole.
LEMMA IInvSafe ==
    ASSUME IInv PROVE UsesSound /\ FrameWhole
  <1>1. UsesSound
    <2> SUFFICES ASSUME queue # <<>> PROVE Ready(Head(queue))
      BY DEF UsesSound
    <2>1. IsList(queue) /\ \E t : Run(queue, Now, t)
      BY DEF IInv, QueueRuns
    <2>2. ReadyIn(Head(queue), Now)
      BY <2>1, RunHead
    <2> DEFINE c == Head(queue)
    <2> HIDE DEF c
    <2>3. Conflicts(c) <=> ConflictsIn(c, Now)
      BY NowDraws
    <2>4. ReadyIn(c, Now)
      BY <2>2 DEF c
    <2>5. Ready(c)
      BY <2>3, <2>4 DEF Ready, ReadyIn, Now
    <2> QED BY <2>5 DEF c
  <1>2. FrameWhole
    <2> SUFFICES ASSUME pc = "wait", Idle
                 PROVE  /\ screen = Shown(frame)
                        /\ frame.mode = "QUALITY" =>
                             mem[<<"accum", accumPair>>] =
                                Content(0, IF Multipass(frame) THEN "filtered" ELSE "accum",
                                        IF Multipass(frame) THEN 1 ELSE 0)
      BY DEF FrameWhole
    <2>1. screen = Shown(frame) /\ Left(mem, accumPair, Key(frame))
      BY IdleIInv DEF Busy
    <2>2. "accum" \in Histories
      BY DEF Histories
    <2> QED BY <2>1, <2>2 DEF Left, Key, Multipass
  <1> QED BY <1>1, <1>2

-----------------------------------------------------------------------------
(* Each step preserves it.                                                 *)

LEMMA StartIInv ==
    ASSUME IInv, Start PROVE IInv'
  <1>1. QueueRuns'
    BY DEF IInv, QueueRuns, Start, Busy, gpu, Targets
  <1>2. Bookkeeping'
    BY DEF IInv, Bookkeeping, Start, gpu, Resources
  <1>3. WholeTile'
    BY DEF IInv, WholeTile, Start, bake
  <1>4. Built'
    BY Order DEF IInv, Built, Start, Busy
  <1> QED BY <1>1, <1>2, <1>3, <1>4 DEF IInv

LEMMA InitObjectIInv ==
    ASSUME IInv, InitObject PROVE IInv'
  <1>1. /\ pc = "init" /\ step \in 1..19 /\ made' = made \cup {InitOrder[step]}
        /\ step' = step + 1 /\ pc' = IF step = 19 THEN "drain" ELSE "init"
        /\ \A i \in 1..(step - 1) : InitOrder[i] \in Range(DenoiserObjects) \cup made
    BY Order DEF IInv, Built, InitObject
  <1>2. QueueRuns'
    <2>1. accKey' = NoKey
      BY <1>1 DEF IInv, Bookkeeping, InitObject
    <2>2. Left(mem, Other(accumPair), accKey)'
      BY <2>1 DEF Left, NoKey
    <2> QED BY <1>1, <2>2 DEF IInv, QueueRuns, InitObject, Busy, gpu, Targets
  <1>3. Bookkeeping'
    BY <1>1 DEF IInv, Bookkeeping, InitObject, gpu, Resources
  <1>4. WholeTile'
    <2>1. CASE step = NoiseStep
      BY <2>1 DEF IInv, WholeTile, InitObject, LoadTile
    <2>2. CASE step # NoiseStep
      BY <2>2 DEF IInv, WholeTile, InitObject
    <2> QED BY <2>1, <2>2
  <1>5. Built'
    <2>1. ASSUME NEW i \in 1..step PROVE InitOrder[i] \in Range(DenoiserObjects) \cup made'
      <3>1. CASE i = step
        BY <1>1, <3>1
      <3>2. CASE i # step
        <4>1. i \in 1..(step - 1)
          BY <1>1, <3>2
        <4> QED BY <1>1, <4>1
      <3> QED BY <3>1, <3>2
    <2>2. step # 19 => step' \in 1..19 /\ step' - 1 = step
      BY <1>1
    <2>3. CASE step = 19
      BY <1>1, <2>1, <2>3, Order DEF Built, Busy
    <2>4. CASE step # 19
      BY <1>1, <2>1, <2>2, <2>4, Order DEF Built, Busy
    <2> QED BY <2>3, <2>4
  <1> QED BY <1>2, <1>3, <1>4, <1>5 DEF IInv

LEMMA InitFailsIInv ==
    ASSUME IInv, InitFails PROVE IInv'
  <1>1. /\ pc = "init" /\ step \in 1..19 /\ made' = made
        /\ \A i \in 1..(step - 1) : InitOrder[i] \in Range(DenoiserObjects) \cup made
        /\ \/ InitOrder[step] \in Range(DenoiserObjects) /\ pc' = "init" /\ step' = 18
           \/ pc' = "headless"
    BY Order DEF IInv, Built, InitFails
  <1>2. QueueRuns'
    BY <1>1 DEF IInv, QueueRuns, InitFails, Busy, gpu, Targets
  <1>3. Bookkeeping'
    BY <1>1 DEF IInv, Bookkeeping, InitFails, gpu, Resources
  <1>4. WholeTile'
    BY DEF IInv, WholeTile, InitFails, bake
  <1>5. Built'
    <2>1. CASE InitOrder[step] \in Range(DenoiserObjects) /\ pc' = "init" /\ step' = 18
      <3>1. step >= 13
        <4>1. step = 1 \/ step = 2 \/ step = 3 \/ step = 4 \/ step = 5 \/ step = 6 \/ step = 7
              \/ step = 8 \/ step = 9 \/ step = 10 \/ step = 11 \/ step = 12 \/ step >= 13
          BY <1>1
        <4> QED BY <2>1, <4>1, Order
      <3>2. ASSUME NEW i \in 1..17 PROVE InitOrder[i] \in Range(DenoiserObjects) \cup made
        <4>1. CASE i < step
          <5>1. i \in 1..(step - 1)
            BY <1>1, <4>1
          <5> QED BY <1>1, <5>1
        <4>2. CASE ~(i < step)
          <5>1. i = 13 \/ i = 14 \/ i = 15 \/ i = 16 \/ i = 17
            BY <1>1, <3>1, <4>2
          <5> QED BY <5>1, Order
        <4> QED BY <4>1, <4>2
      <3> QED BY <1>1, <2>1, <3>2, Order DEF Built, Busy
    <2>2. CASE pc' = "headless"
      BY <2>2 DEF Built, Busy
    <2> QED BY <1>1, <2>1, <2>2
  <1> QED BY <1>2, <1>3, <1>4, <1>5 DEF IInv

LEMMA VoxelsIInv ==
    ASSUME IInv, pc = "drain", VoxelsWritten PROVE IInv'
  <1>1. QueueRuns'
    <2>1. Left(mem, Other(accumPair), accKey)'
      BY DEF VoxelsWritten, Left, NoKey
    <2> QED BY <2>1 DEF IInv, QueueRuns, VoxelsWritten, Busy, Targets
  <1>2. Bookkeeping'
    BY DEF IInv, Bookkeeping, VoxelsWritten, Outdated, Resources
  <1>3. WholeTile' /\ Built'
    BY DEF IInv, WholeTile, Built, VoxelsWritten, Busy, bake
  <1> QED BY <1>1, <1>2, <1>3 DEF IInv

LEMMA SaveScreenshotIInv ==
    ASSUME IInv, SaveScreenshot PROVE IInv'
  <1>1. Busy /\ pc = "capture" /\ Idle /\ made' = made
    BY DEF SaveScreenshot, Busy
  <1>2. QueueRuns'
    BY <1>1, IdleIInv DEF SaveScreenshot, QueueRuns, Busy, gpu, Targets, Left, DenoiseReady
  <1>3. Bookkeeping'
    BY <1>1 DEF IInv, Bookkeeping, SaveScreenshot, gpu, Resources
  <1>4. WholeTile' /\ Built'
    BY DEF IInv, WholeTile, Built, SaveScreenshot, Busy, bake
  <1> QED BY <1>2, <1>3, <1>4 DEF IInv

LEMMA ClearCacheIInv ==
    ASSUME IInv, ClearCache PROVE IInv'
  <1>1. ~Busy /\ ~Busy' /\ made' = made
    BY DEF ClearCache, Busy
  <1>2. QueueRuns'
    BY <1>1 DEF IInv, QueueRuns, ClearCache, Busy, gpu, Targets, Left, DenoiseReady
  <1>3. Bookkeeping'
    BY <1>1 DEF IInv, Bookkeeping, ClearCache, gpu, Resources
  <1>4. WholeTile' /\ Built'
    BY DEF IInv, WholeTile, Built, ClearCache, Busy
  <1> QED BY <1>2, <1>3, <1>4 DEF IInv

LEMMA FinishFrameIInv ==
    ASSUME IInv, FinishFrame PROVE IInv'
  <1>1. Busy /\ pc = "wait" /\ Idle /\ made' = made /\ accKey = Key(frame) /\ accumPair \in {0, 1}
    BY DEF IInv, Bookkeeping, FinishFrame, Busy
  <1>2. Other(accumPair') = accumPair /\ accumPair' \in {0, 1}
    BY <1>1 DEF FinishFrame, NextPair, Other
  <1>3. Left(mem, accumPair, accKey)
    BY <1>1, IdleIInv
  <1>4. Left(mem, Other(accumPair), accKey)'
    BY <1>1, <1>2, <1>3 DEF FinishFrame, Left, DenoiseReady, gpu, Other
  <1>5. QueueRuns'
    BY <1>1, <1>4, IdleIInv DEF FinishFrame, QueueRuns, Busy, gpu, Targets
  <1>6. Bookkeeping'
    BY <1>1, <1>2 DEF IInv, Bookkeeping, FinishFrame, gpu, Resources
  <1>7. WholeTile' /\ Built'
    BY DEF IInv, WholeTile, Built, FinishFrame, Busy, bake
  <1> QED BY <1>5, <1>6, <1>7 DEF IInv

\* The GPU's step is the command.
LEMMA GpuRuns ==
    ASSUME GpuStep PROVE queue # <<>> /\ Now' = After(Head(queue), Now)
  <1> DEFINE c == Head(queue)
  <1>1. /\ queue # <<>> /\ camera' = camera /\ made' = made /\ tile' = tile
    BY DEF GpuStep, GpuDraw, GpuBarrier, GpuCopy, GpuPresent, GpuEnd, bake
  <1>2. Drawn(c) = DrawnIn(c, Now)
    BY NowDraws
  <1>3. Now' = [actual |-> actual', pending |-> pending', mem |-> mem', screen |-> screen',
                camera |-> camera', made |-> made', tile |-> tile']
    BY DEF Now
  <1>4. /\ Now.actual = actual /\ Now.pending = pending /\ Now.mem = mem /\ Now.screen = screen
        /\ Now.camera = camera /\ Now.made = made /\ Now.tile = tile
    BY DEF Now
  <1>5. CASE GpuDraw
    <2>1. /\ c.op = "draw" /\ mem' = DrawnIn(c, Now) /\ pending' = pending \cup Accesses(c)
          /\ actual' = actual /\ screen' = screen
      BY <1>2, <1>5 DEF GpuDraw
    <2> HIDE DEF c
    <2>2. Now' = After(c, Now)
      BY <1>1, <1>3, <1>4, <2>1 DEF After
    <2> QED BY <1>1, <2>2 DEF c
  <1>6. CASE GpuBarrier
    <2>1. /\ c.op \in {"transition", "uav"} /\ pending' = {p \in pending : p.res # c.res}
          /\ actual' = IF c.op = "uav" THEN actual ELSE [actual EXCEPT ![c.res] = c.after]
          /\ mem' = mem /\ screen' = screen
      BY <1>6 DEF GpuBarrier
    <2> HIDE DEF c
    <2>2. Now' = After(c, Now)
      BY <1>1, <1>3, <1>4, <2>1 DEF After
    <2> QED BY <1>1, <2>2 DEF c
  <1>7. CASE GpuCopy
    <2>1. /\ c.op = "copy" /\ mem' = [mem EXCEPT ![Readback] = mem[c.res]]
          /\ actual' = actual /\ pending' = pending /\ screen' = screen
      BY <1>7 DEF GpuCopy
    <2> HIDE DEF c
    <2>2. Now' = After(c, Now)
      BY <1>1, <1>3, <1>4, <2>1 DEF After
    <2> QED BY <1>1, <2>2 DEF c
  <1>8. CASE GpuPresent
    <2>1. /\ c.op = "present" /\ screen' = mem[c.res] /\ mem' = [mem EXCEPT ![c.res] = Undefined]
          /\ actual' = actual /\ pending' = pending
      BY <1>8 DEF GpuPresent
    <2> HIDE DEF c
    <2>2. Now' = After(c, Now)
      BY <1>1, <1>3, <1>4, <2>1 DEF After
    <2> QED BY <1>1, <2>2 DEF c
  <1>9. CASE GpuEnd
    <2>1. /\ c.op = "end" /\ pending' = {}
          /\ actual' = actual /\ mem' = mem /\ screen' = screen
      BY <1>9 DEF GpuEnd
    <2> HIDE DEF c
    <2>2. Now' = After(c, Now)
      BY <1>1, <1>3, <1>4, <2>1 DEF After
    <2> QED BY <1>1, <2>2 DEF c
  <1> QED BY <1>5, <1>6, <1>7, <1>8, <1>9 DEF GpuStep

\* What a list ends in does not depend on how far it has run.
LEMMA EndsSame ==
    ASSUME pc' = pc, made' = made, frame' = frame, accumPair' = accumPair, accKey' = accKey, NEW t
    PROVE  Ends(t) => Ends(t)'
  BY DEF Ends, Left, Shown, Multipass, DenoiseReady, Key, Targets, Textures, Resources, Tex, Back, Slots, Other

LEMMA GpuStepIInv ==
    ASSUME IInv, GpuStep PROVE IInv'
  <1>1. /\ queue # <<>> /\ Now' = After(Head(queue), Now) /\ queue' = Tail(queue)
        /\ pc' = pc /\ made' = made /\ frame' = frame /\ accumPair' = accumPair /\ accKey' = accKey
    BY GpuRuns DEF GpuStep
  <1>2. Busy
    BY <1>1 DEF IInv, QueueRuns
  <1>3. PICK t : IsList(queue) /\ Run(queue, Now, t) /\ Ends(t)
    BY <1>2 DEF IInv, QueueRuns
  <1>4. IsList(Tail(queue)) /\ Run(Tail(queue), After(Head(queue), Now), t)
    BY <1>1, <1>3, RunHead
  <1>5. IsList(queue') /\ Run(queue', Now', t)
    BY <1>1, <1>4
  <1>6. Ends(t)'
    BY <1>1, <1>3, EndsSame
  <1>7. QueueRuns'
    <2>1. \E u : Run(queue', Now', u) /\ Ends(u)'
      BY <1>5, <1>6
    <2>2. Busy' /\ pc' # "drain"
      BY <1>1, <1>2 DEF Busy
    <2>3. IsList(queue)'
      BY <1>5 DEF IsList
    <2>4. \E u : Run(queue, Now, u)' /\ Ends(u)'
      BY <2>1 DEF Run
    <2> QED BY <2>2, <2>3, <2>4 DEF QueueRuns
  <1>8. Bookkeeping'
    <2>1. DOMAIN mem' = DOMAIN mem
      BY DEF GpuStep, GpuDraw, Drawn, GpuBarrier, GpuCopy, GpuPresent, GpuEnd
    <2>2. /\ target' = target /\ texState' = texState /\ pc' = pc /\ accKey' = accKey
          /\ frame' = frame /\ accumPair' = accumPair
      BY DEF GpuStep
    <2> QED BY <2>1, <2>2 DEF IInv, Bookkeeping, Key, Resources, Textures, TexOf, Slots, Tex, Back, Histories, Readback
  <1>9. WholeTile' /\ Built'
    BY DEF IInv, WholeTile, Built, GpuStep, Busy, bake
  <1> QED BY <1>7, <1>8, <1>9 DEF IInv

LEMMA BakeStepIInv ==
    ASSUME IInv, BakeStep PROVE IInv'
  <1>1. /\ tile' = tile /\ gpu' = gpu
        /\ UNCHANGED <<pc, step, made, texState, camera, target, accumPair, accKey, frame>>
    BY DEF BakeStep, BakeRank, CacheOpen, CacheWrite, BakeSignal
  <1>2. WholeTile'
    BY DEF IInv, WholeTile, BakeStep, BakeRank, CacheOpen, CacheWrite, BakeSignal
  <1>3. /\ actual' = actual /\ mem' = mem /\ pending' = pending /\ queue' = queue /\ screen' = screen
    BY <1>1 DEF gpu
  <1>4. Now' = Now
    BY <1>1, <1>3 DEF Now
  <1>5. QueueRuns'
    <2>1. CASE Busy
      <3>1. PICK t : IsList(queue) /\ Run(queue, Now, t) /\ Ends(t)
        BY <2>1 DEF IInv, QueueRuns
      <3>2. Ends(t)'
        BY <1>1, <3>1, EndsSame
      <3>3. Run(queue, Now, t)'
        BY <1>3, <1>4, <3>1 DEF Run
      <3>4. IsList(queue)'
        BY <1>3, <3>1 DEF IsList
      <3> QED BY <1>1, <2>1, <3>2, <3>3, <3>4 DEF QueueRuns, Busy
    <2>2. CASE ~Busy
      BY <1>1, <1>3, <2>2 DEF IInv, QueueRuns, Busy, Targets, Left, DenoiseReady
    <2> QED BY <2>1, <2>2
  <1>6. Bookkeeping'
    BY <1>1, <1>3 DEF IInv, Bookkeeping, Key, Resources, TexOf
  <1>7. Built'
    BY <1>1 DEF IInv, Built, Busy
  <1> QED BY <1>2, <1>5, <1>6, <1>7 DEF IInv

\* Two commands at the end of a list.
LEMMA Appended ==
    ASSUME NEW l, IsList(l), NEW a, NEW b
    PROVE  l \o <<a, b>> = Append(Append(l, a), b)
  <1>1. PICK S : l \in Seq(S)
    BY DEF IsList
  <1> DEFINE T == S \cup {a, b}
             x == l \o <<a, b>>
             y == Append(Append(l, a), b)
  <1>2. l \in Seq(T) /\ a \in T /\ b \in T
    BY <1>1
  <1> HIDE DEF T
  <1>3. <<a, b>> \in Seq(T)
    BY <1>2
  <1>4. x \in Seq(T) /\ y \in Seq(T)
    BY <1>2, <1>3
  <1>5. Len(x) = Len(l) + 2 /\ Len(y) = Len(l) + 2 /\ Len(l) \in Nat
    BY <1>2, <1>3
  <1>6. \A i \in 1..Len(x) : x[i] = y[i]
    BY <1>2, <1>3, <1>5
  <1> HIDE DEF x, y
  <1>7. x = y
    BY <1>4, <1>5, <1>6
  <1> QED BY <1>7 DEF x, y

LEMMA CaptureScreenshotIInv ==
    ASSUME IInv, CaptureScreenshot PROVE IInv'
  <1> DEFINE b  == Back(target)
             c1 == Transition(b, "PRESENT", "COPY")
             c2 == Copy(b)
             c3 == Transition(b, "COPY", "PRESENT")
             c4 == EndOfList
             q  == Append(Append(Append(Append(<<>>, c1), c2), c3), c4)
  <1>1. /\ pc = "drain" /\ queue = <<>> /\ pending = {} /\ actual = Targets
        /\ Left(mem, Other(accumPair), accKey) /\ accumPair \in {0, 1} /\ DOMAIN mem = Resources
        /\ target \in 0..(BackBuffers - 1)
    BY DEF IInv, QueueRuns, Bookkeeping, CaptureScreenshot, Busy
  <1>2. b \in Textures /\ Targets[b] = "PRESENT" /\ DOMAIN Targets = Textures
    BY <1>1, SlotTextures DEF Targets
  <1>3. queue' = q
    <2>1. queue' = <<>> \o <<c1, c2, c3, c4>>
      BY <1>1 DEF CaptureScreenshot
    <2> HIDE DEF c1, c2, c3, c4
    <2>2. <<>> \o <<c1, c2, c3, c4>> = q
      OBVIOUS
    <2> QED BY <2>1, <2>2
  <1>4. /\ c1.op = "transition" /\ c1.res = b /\ c1.before = "PRESENT" /\ c1.after = "COPY"
        /\ c2.op = "copy" /\ c2.res = b
        /\ c3.op = "transition" /\ c3.res = b /\ c3.before = "COPY" /\ c3.after = "PRESENT"
        /\ c4.op = "end"
    BY DEF Transition, Copy, EndOfList
  <1>5. PICK s : s = Now
    OBVIOUS
  <1>6. s.actual = Targets /\ s.pending = {} /\ s.mem = mem
    BY <1>1, <1>5 DEF Now
  <1> HIDE DEF b, c1, c2, c3, c4
  <1> DEFINE s1 == After(c1, s)
             s2 == After(c2, s1)
             s3 == After(c3, s2)
             s4 == After(c4, s3)
             q1 == Append(<<>>, c1)
             q2 == Append(q1, c2)
             q3 == Append(q2, c3)
             m  == [mem EXCEPT ![Readback] = mem[b]]
  <1>7. ReadyIn(c1, s) /\ s1.actual = [Targets EXCEPT ![b] = "COPY"] /\ s1.pending = {} /\ s1.mem = mem
    BY <1>2, <1>4, <1>6 DEF ReadyIn, After
  <1>8. IsList(q1) /\ Run(q1, s, s1)
    BY <1>7, RunNil, RunThen
  <1> HIDE DEF s1, q1
  <1>9. ReadyIn(c2, s1) /\ s2.actual = [Targets EXCEPT ![b] = "COPY"] /\ s2.pending = {} /\ s2.mem = m
    BY <1>2, <1>4, <1>7 DEF ReadyIn, After
  <1>10. IsList(q2) /\ Run(q2, s, s2)
    BY <1>8, <1>9, RunThen
  <1> HIDE DEF s2, q2, m
  <1>11. ReadyIn(c3, s2) /\ s3.actual = Targets /\ s3.pending = {} /\ s3.mem = m
    <2>1. [[Targets EXCEPT ![b] = "COPY"] EXCEPT ![b] = "PRESENT"] = Targets
      BY <1>2 DEF Targets
    <2>2. [Targets EXCEPT ![b] = "COPY"][b] = "COPY"
      BY <1>2
    <2>3. ReadyIn(c3, s2)
      BY <1>4, <1>9, <2>2 DEF ReadyIn
    <2> QED BY <1>4, <1>9, <2>1, <2>3 DEF After
  <1>12. IsList(q3) /\ Run(q3, s, s3)
    BY <1>10, <1>11, RunThen
  <1> HIDE DEF s3, q3
  <1>13. ReadyIn(c4, s3) /\ s4.actual = Targets /\ s4.pending = {} /\ s4.mem = m
    BY <1>4, <1>11 DEF ReadyIn, After
  <1>14. IsList(q) /\ Run(q, s, s4)
    <2>1. IsList(Append(q3, c4)) /\ Run(Append(q3, c4), s, s4)
      BY <1>12, <1>13, RunThen
    <2> QED BY <2>1 DEF q1, q2, q3
  <1> HIDE DEF s4, q
  <1>15. /\ pc' = "capture" /\ made' = made /\ accumPair' = accumPair /\ accKey' = accKey
         /\ Now' = Now
    BY DEF CaptureScreenshot, Now, bake
  <1>16. DOMAIN m = Resources /\ Left(m, Other(accumPair), accKey)
    <2>1. DOMAIN m = Resources /\ \A r \in Resources : r # Readback => m[r] = mem[r]
      BY <1>1 DEF m
    <2>2. \A h \in Histories : <<h, Other(accumPair)>> \in Resources /\ <<h, Other(accumPair)>> # Readback
      BY <1>1, AllResources DEF Readback, Histories
    <2>3. {"accum", "hitPos"} \subseteq Histories
      BY DEF Histories
    <2> QED BY <1>1, <2>1, <2>2, <2>3 DEF Left
  <1> PICK z : z = s4
    OBVIOUS
  <1>17. Ends(z)'
    BY <1>13, <1>15, <1>16 DEF Ends, Left, DenoiseReady, Targets, Textures, Resources, Tex, Back, Slots, Other
  <1>18. QueueRuns'
    <2>1. Run(queue, Now, z)'
      <3>1. Run(queue', Now', z)
        BY <1>3, <1>5, <1>14, <1>15
      <3> QED BY <3>1 DEF Run
    <2>2. IsList(queue)'
      BY <1>3, <1>14 DEF IsList
    <2> QED BY <1>15, <1>17, <2>1, <2>2 DEF QueueRuns, Busy
  <1>19. Bookkeeping'
    BY DEF IInv, Bookkeeping, CaptureScreenshot, Resources
  <1>20. WholeTile' /\ Built'
    BY DEF IInv, WholeTile, Built, CaptureScreenshot, Busy, bake
  <1> QED BY <1>18, <1>19, <1>20 DEF IInv

LEMMA RenderFrameIInv ==
    ASSUME IInv, FrameAssumption, NEW f \in Frames, RenderFrame(f) PROVE IInv'
  <1>1. /\ pc = "drain" /\ queue = <<>> /\ pending = {} /\ actual = Targets
        /\ Left(mem, Other(accumPair), accKey) /\ accumPair \in {0, 1} /\ DOMAIN mem = Resources
        /\ target \in 0..(BackBuffers - 1) /\ texState = TexOf({})
    BY DEF IInv, QueueRuns, Bookkeeping, RenderFrame, Busy
  <1>2. /\ pc' = "wait" /\ frame' = f /\ accKey' = Key(f) /\ mem' = Aged
        /\ queue' = queue \o Recorded(f).list \o <<EndOfList, Present(Back(target))>>
        /\ texState' = Recorded(f).tex /\ target' = (target + 1) % BackBuffers
        /\ made' = made /\ accumPair' = accumPair /\ actual' = actual /\ pending' = pending
        /\ screen' = screen /\ step' = step
    BY DEF RenderFrame
  <1>3. PICK keep \in Keeps(f) : camera' = [age |-> 0, keep |-> keep]
    BY DEF RenderFrame
  <1>4. WholeTile'
    <2>1. CASE bnReady /\ baker = "done"
      BY <2>1 DEF RenderFrame, SwapTile, IInv, WholeTile
    <2>2. CASE ~(bnReady /\ baker = "done")
      BY <2>2 DEF RenderFrame, SwapTile, IInv, WholeTile
    <2> QED BY <2>1, <2>2
  <1>5. PICK s0 : s0 = Now'
    OBVIOUS
  <1>6. /\ s0.actual = Targets /\ s0.pending = {} /\ s0.mem = Aged
        /\ s0.camera = [age |-> 0, keep |-> keep] /\ s0.made = made /\ s0.tile # "part"
    BY <1>1, <1>2, <1>3, <1>4, <1>5 DEF Now, WholeTile
  <1>7. Ground(s0)
    <2>1. \A i \in 1..19 : InitOrder[i] \in Range(DenoiserObjects) \cup made
      BY <1>1, Order DEF IInv, Built
    <2>2. {"list", "fence", "voxels", "brick", "camera", "history", "noise", "palette",
           "rootSig", "pso", "targets"} \subseteq made
      BY <2>1, Order
    <2> QED BY <1>1, <1>6, <2>2 DEF Ground
  <1>8. s0.camera.keep => Kept(s0.mem, f)
    <2> SUFFICES ASSUME keep PROVE Kept(Aged, f)
      BY <1>6
    <2>1. f.mode = "QUALITY" /\ accKey = Key(f)
      BY DEF Keeps
    <2>2. {"accum", "hitPos"} \subseteq Histories
      BY DEF Histories
    <2>3. \A h \in Histories : <<h, Other(accumPair)>> \in Resources
      BY <1>1, AllResources
    <2> SUFFICES ASSUME NEW h \in (IF Multipass(f) THEN Histories ELSE {"accum", "hitPos"})
                 PROVE  /\ Aged[<<h, Other(accumPair)>>].age = 1
                        /\ Aged[<<h, Other(accumPair)>>].kind =
                              IF Multipass(f) /\ h = "accum" THEN "filtered" ELSE h
      BY <2>1 DEF Kept
    <2> DEFINE r == <<h, Other(accumPair)>>
    <2>4. r \in DOMAIN mem
      BY <1>1, <2>2, <2>3
    <2>5. mem[r] = IF Multipass(f) /\ h = "accum" THEN Content(0, "filtered", 1) ELSE Content(0, h, 0)
      BY <1>1, <2>1 DEF Left, Key, Multipass
    <2> HIDE DEF r
    <2>6. Aged[r] = [mem[r] EXCEPT !.age = Older(mem[r].age)]
      BY <2>4 DEF Aged
    <2>7. Aged[r].age = 1 /\ Aged[r].kind = IF Multipass(f) /\ h = "accum" THEN "filtered" ELSE h
      BY <2>5, <2>6 DEF Content, Older
    <2> QED BY <2>7 DEF r
  <1>9. DOMAIN s0.mem = Resources
    BY <1>1, <1>6 DEF Aged
  <1>10. PICK l, t : /\ Recorded(f) = [list |-> l, tex |-> TexOf({})]
                     /\ IsList(l) /\ Run(l, s0, t)
                     /\ t.actual = Targets /\ DOMAIN t.mem = Resources
                     /\ t.mem[Back(target)] = Shown(f)
                     /\ Left(t.mem, accumPair, Key(f))
    BY <1>1, <1>6, <1>7, <1>8, <1>9, FrameRecorded
  <1> DEFINE b  == Back(target)
             c1 == EndOfList
             c2 == Present(b)
             t1 == After(c1, t)
             t2 == After(c2, t1)
             l1 == Append(l, c1)
             l2 == Append(l1, c2)
  <1>11. queue' = l2
    <2>1. queue' = queue \o l \o <<c1, c2>>
      BY <1>2, <1>10
    <2>2. PICK S : l \in Seq(S)
      BY <1>10 DEF IsList
    <2> HIDE DEF c1, c2
    <2>3. queue \o l \o <<c1, c2>> = l \o <<c1, c2>>
      <3>1. l \in Seq(S \cup {c1, c2}) /\ <<c1, c2>> \in Seq(S \cup {c1, c2})
        BY <2>2
      <3>2. l \o <<c1, c2>> \in Seq(S \cup {c1, c2})
        BY <3>1
      <3> QED BY <1>1, <3>1, <3>2
    <2>4. l \o <<c1, c2>> = l2
      BY <1>10, Appended
    <2> QED BY <2>1, <2>3, <2>4
  <1>12. /\ c1.op = "end" /\ c2.op = "present" /\ c2.res = b
         /\ b \in Textures /\ Targets[b] = "PRESENT" /\ b \in Resources
    BY <1>1, SlotTextures, AllResources DEF EndOfList, Present, Targets
  <1>13. \A h \in Histories : <<h, accumPair>> # b /\ <<h, accumPair>> \in Resources
    BY <1>1, Distinct, AllResources
  <1>14. t.mem[b] = Shown(f)
    BY <1>10
  <1> HIDE DEF b, c1, c2
  <1>15. ReadyIn(c1, t) /\ t1.actual = Targets /\ t1.pending = {} /\ t1.mem = t.mem
    BY <1>10, <1>12 DEF ReadyIn, After
  <1>16. IsList(l1) /\ Run(l1, s0, t1)
    BY <1>10, <1>15, RunThen
  <1> HIDE DEF t1, l1
  <1>17. /\ ReadyIn(c2, t1) /\ t2.actual = Targets /\ t2.pending = {} /\ t2.screen = Shown(f)
         /\ t2.mem = [t.mem EXCEPT ![b] = Undefined]
    BY <1>12, <1>14, <1>15 DEF ReadyIn, After
  <1>18. IsList(l2) /\ Run(l2, s0, t2)
    BY <1>16, <1>17, RunThen
  <1> HIDE DEF t2, l2
  <1>19. DOMAIN t2.mem = Resources /\ Left(t2.mem, accumPair, Key(f))
    <2>1. DOMAIN t2.mem = Resources /\ \A r \in Resources : r # b => t2.mem[r] = t.mem[r]
      BY <1>10, <1>17
    <2>2. {"accum", "hitPos"} \subseteq Histories
      BY DEF Histories
    <2> QED BY <1>10, <1>13, <2>1, <2>2 DEF Left
  <1> PICK z : z = t2
    OBVIOUS
  <1>20. Ends(z)'
    <2>1. Shown(frame)' = Shown(f)
      BY <1>2 DEF Shown, Multipass, DenoiseReady
    <2>2. Left(z.mem, accumPair, Key(frame))' <=> Left(z.mem, accumPair, Key(f))
      BY <1>2 DEF Left, DenoiseReady, Key
    <2> QED BY <1>2, <1>17, <1>19, <2>1, <2>2 DEF Ends, Targets, Textures, Resources, Tex, Back, Slots
  <1>21. QueueRuns'
    <2>1. Run(queue, Now, z)'
      <3>1. Run(queue', Now', z)
        BY <1>5, <1>11, <1>18
      <3> QED BY <3>1 DEF Run
    <2>2. IsList(queue)'
      BY <1>11, <1>18 DEF IsList
    <2> QED BY <1>2, <1>20, <2>1, <2>2 DEF QueueRuns, Busy
  <1>22. Bookkeeping'
    <2>1. target' \in 0..(BackBuffers - 1)
      BY <1>1, <1>2 DEF FrameAssumption
    <2>2. texState' = TexOf({})
      BY <1>2, <1>10
    <2>3. DOMAIN mem' = Resources
      BY <1>1, <1>2 DEF Aged
    <2>4. accKey' = Key(frame)'
      BY <1>2 DEF Key
    <2> QED BY <1>1, <1>2, <2>1, <2>2, <2>3, <2>4 DEF Bookkeeping, TexOf, Slots, Resources, Textures, Tex, Back, Histories, Readback
  <1>23. Built'
    BY <1>1, <1>2 DEF IInv, Built, Busy
  <1> QED BY <1>4, <1>21, <1>22, <1>23 DEF IInv

\* Any step.
LEMMA NextIInv ==
    ASSUME IInv, FrameAssumption, [Next]_vars PROVE IInv'
  <1>1. CASE Start
    BY <1>1, StartIInv
  <1>2. CASE InitObject
    BY <1>2, InitObjectIInv
  <1>3. CASE InitFails
    BY <1>3, InitFailsIInv
  <1>4. CASE SetVoxels \/ EditVoxels
    BY <1>4, VoxelsIInv DEF SetVoxels, EditVoxels
  <1>5. CASE CaptureScreenshot
    BY <1>5, CaptureScreenshotIInv
  <1>6. CASE SaveScreenshot
    BY <1>6, SaveScreenshotIInv
  <1>7. CASE ClearCache
    BY <1>7, ClearCacheIInv
  <1>8. CASE \E f \in Frames : RenderFrame(f)
    BY <1>8, RenderFrameIInv
  <1>9. CASE FinishFrame
    BY <1>9, FinishFrameIInv
  <1>10. CASE GpuStep
    BY <1>10, GpuStepIInv
  <1>11. CASE BakeStep
    BY <1>11, BakeStepIInv
  <1>12. CASE Shutdown \/ Crash
    BY <1>12, GoneIInv DEF Shutdown, Crash
  <1>13. CASE UNCHANGED vars
    <2>1. /\ UNCHANGED <<pc, step, made, texState, camera, target, accumPair, accKey, frame>>
          /\ UNCHANGED <<actual, mem, pending, queue, screen>>
          /\ UNCHANGED <<tile, baker, bnTile, bnReady, cache>>
      BY <1>13 DEF vars, gpu, bake
    <2>2. Now' = Now
      BY <2>1 DEF Now
    <2>3. QueueRuns'
      <3>1. CASE Busy
        <4>1. PICK t : IsList(queue) /\ Run(queue, Now, t) /\ Ends(t)
          BY <3>1 DEF IInv, QueueRuns
        <4>2. Ends(t)'
          BY <2>1, <4>1, EndsSame
        <4>3. Run(queue, Now, t)'
          BY <2>1, <2>2, <4>1 DEF Run
        <4>4. IsList(queue)'
          BY <2>1, <4>1 DEF IsList
        <4> QED BY <2>1, <3>1, <4>2, <4>3, <4>4 DEF QueueRuns, Busy
      <3>2. CASE ~Busy
        BY <2>1, <3>2 DEF IInv, QueueRuns, Busy, Targets, Left, DenoiseReady
      <3> QED BY <3>1, <3>2
    <2>4. Bookkeeping' /\ WholeTile' /\ Built'
      BY <2>1 DEF IInv, Bookkeeping, WholeTile, Built, Busy, Key, Resources, TexOf
    <2> QED BY <2>3, <2>4 DEF IInv
  <1> QED BY <1>1, <1>2, <1>3, <1>4, <1>5, <1>6, <1>7, <1>8, <1>9, <1>10, <1>11, <1>12, <1>13 DEF Next

-----------------------------------------------------------------------------
(* The theorems. *)

\* Whatever is created, loaded, baked, recorded, captured or lost with the process,
\* the commands in the queue lead to a whole frame and an idle GPU.
THEOREM Inductive == Spec => []IInv
  <1>1. Init => IInv
    BY InitIInv, FrameAssumption
  <1>2. IInv /\ [Next]_vars => IInv'
    BY NextIInv, FrameAssumption
  <1> QED BY <1>1, <1>2, PTL DEF Spec

\* Renderer.cpp's barriers and its trackers of states are right for every number of
\* back buffers and iterations and every sequence of settings: the GPU finds each
\* resource created, in the state the command names, and no access to it pending.
THEOREM UsesSoundCorrect == Spec => []UsesSound
  <1>1. IInv => UsesSound
    BY IInvSafe
  <1> QED BY <1>1, Inductive, PTL

\* Each frame shows its own picture, filtered as often as asked, and leaves the
\* histories that the next one under the same key may blend.
THEOREM FrameWholeCorrect == Spec => []FrameWhole
  <1>1. IInv => FrameWhole
    BY IInvSafe
  <1> QED BY <1>1, Inductive, PTL
=============================================================================
