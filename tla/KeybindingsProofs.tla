-------------------------- MODULE KeybindingsProofs --------------------------
(* Proofs about Keybindings: for any bindings, defaults and contents of the file, and
   however the editor's writes fall between the engine's steps, no chord is bound twice
   and what the engine saved is what it loads back. *)
EXTENDS Keybindings, FiniteSetTheorems, SequenceTheorems, TLAPS

NoDuplicates(s) == \A j, k \in 1..Len(s) : s[j].chord = s[k].chord => j = k

-----------------------------------------------------------------------------
(* Selecting positions.                                                    *)

\* How many members of K are not above k.
Rank(K, k) == Cardinality({j \in K : j <= k})

LEMMA Positions ==
    ASSUME NEW n \in Nat, NEW K \in SUBSET (1..n)
    PROVE  /\ IsFiniteSet(K) /\ Cardinality(K) \in Nat
           /\ \A k \in K : Rank(K, k) \in 1..Cardinality(K)
           /\ \A j, k \in K : Rank(K, j) = Rank(K, k) => j = k
  <1>0. IsFiniteSet(1..n)
    BY FS_Interval
  <1>1. \A L \in SUBSET K : IsFiniteSet(L) /\ Cardinality(L) \in Nat
                            /\ Cardinality(L) <= Cardinality(K)
    BY <1>0, FS_Subset, FS_CardinalityType
  <1>2. IsFiniteSet(K) /\ Cardinality(K) \in Nat
    BY <1>1
  <1>3. ASSUME NEW k \in K
        PROVE  Rank(K, k) \in 1..Cardinality(K)
    <2> DEFINE L == {j \in K : j <= k}
    <2>1. L \in SUBSET K /\ k \in L
      BY <1>3
    <2>2. Cardinality(L) # 0
      BY <1>1, <2>1, FS_EmptySet
    <2> QED BY <1>1, <2>1, <2>2 DEF Rank
  <1>4. ASSUME NEW j \in K, NEW k \in K, j < k
        PROVE  Rank(K, j) < Rank(K, k)
    <2> DEFINE L == {i \in K : i <= j}
               M == {i \in K : i <= k}
    <2>0. \A i \in K : i \in Int
      OBVIOUS
    <2>1. L \subseteq M /\ k \in M /\ k \notin L /\ L \in SUBSET K /\ M \in SUBSET K
      <3>1. \A i \in K : i <= j => i <= k
        BY <1>4, <2>0
      <3>2. k <= k /\ ~(k <= j)
        BY <1>4, <2>0
      <3> QED BY <3>1, <3>2
    <2> HIDE DEF L, M
    <2>2. IsFiniteSet(M) /\ L # M
      BY <1>1, <2>1
    <2>3. Cardinality(L) \in Nat /\ Cardinality(M) \in Nat
      BY <1>1, <2>1
    <2>4. Cardinality(L) <= Cardinality(M) /\ Cardinality(L) # Cardinality(M)
      BY <2>1, <2>2, FS_Subset
    <2>5. Cardinality(L) < Cardinality(M)
      BY <2>3, <2>4
    <2> QED BY <2>5 DEF Rank, L, M
  <1>5. \A j, k \in K : Rank(K, j) = Rank(K, k) => j = k
    <2> SUFFICES ASSUME NEW j \in K, NEW k \in K, Rank(K, j) = Rank(K, k)
                 PROVE  j = k
      OBVIOUS
    <2>1. Rank(K, j) \in Int /\ Rank(K, k) \in Int /\ j \in Int /\ k \in Int
      BY <1>2, <1>3
    <2>2. ~(j < k) /\ ~(k < j)
      BY <1>4, <2>1
    <2> QED BY <2>1, <2>2
  <1> QED BY <1>2, <1>3, <1>5

\* The ranks of K are all the numbers up to its size, so that there is an n-th member.
LEMMA NthMember ==
    ASSUME NEW n \in Nat, NEW K \in SUBSET (1..n), NEW i \in 1..Cardinality(K)
    PROVE  Nth(K, i) \in K /\ Rank(K, Nth(K, i)) = i
  <1> DEFINE N == 1..Cardinality(K)
             rank == [k \in K |-> Rank(K, k)]
  <1>1. /\ IsFiniteSet(K) /\ Cardinality(K) \in Nat
        /\ \A k \in K : Rank(K, k) \in N
        /\ \A j, k \in K : Rank(K, j) = Rank(K, k) => j = k
    BY Positions
  <1>3. IsFiniteSet(N) /\ Cardinality(N) = Cardinality(K)
    BY <1>1, FS_Interval
  <1> DEFINE R == {Rank(K, k) : k \in K}
  <1>4. R \subseteq N
    BY <1>1
  <1>5. IsFiniteSet(R) /\ Cardinality(R) = Cardinality(K)
    <2>1. rank \in [K -> R] /\ \A r \in R : \E k \in K : rank[k] = r
      OBVIOUS
    <2>2. \A j, k \in K : rank[j] = rank[k] => j = k
      BY <1>1
    <2>3. rank \in Bijection(K, R)
      BY <2>1, <2>2 DEF Bijection, Injection, Surjection, IsInjective
    <2> HIDE DEF rank, R, N
    <2>4. ExistsBijection(K, R)
      BY <2>3 DEF ExistsBijection
    <2> QED BY <1>1, <2>4, FS_Bijection
  <1>6. R = N
    BY <1>3, <1>4, <1>5, FS_Subset
  <1>7. \E k \in K : Rank(K, k) = i
    BY <1>6
  <1> QED BY <1>7, Zenon DEF Nth, Rank

\* What a selection holds: elements of s, each from another position.
LEMMA SelectedProperties ==
    ASSUME NEW S, NEW s \in Seq(S), NEW K \in SUBSET (1..Len(s))
    PROVE  /\ Selected(s, K) \in Seq(S)
           /\ Len(Selected(s, K)) = Cardinality(K)
           /\ \A i \in 1..Cardinality(K) :
                 Nth(K, i) \in K /\ Selected(s, K)[i] = s[Nth(K, i)]
           /\ \A i, j \in 1..Cardinality(K) : Nth(K, i) = Nth(K, j) => i = j
  <1>0. Len(s) \in Nat
    OBVIOUS
  <1>1. Cardinality(K) \in Nat
    BY <1>0, Positions
  <1>2. \A i \in 1..Cardinality(K) : Nth(K, i) \in K /\ Rank(K, Nth(K, i)) = i
    BY <1>0, NthMember
  <1>3. \A i \in 1..Cardinality(K) : s[Nth(K, i)] \in S
    <2>1. \A k \in K : s[k] \in S
      OBVIOUS
    <2> QED BY <1>2, <2>1
  <1>4. \A i, j \in 1..Cardinality(K) : Nth(K, i) = Nth(K, j) => i = j
    BY <1>2
  <1> QED BY <1>1, <1>2, <1>3, <1>4 DEF Selected

\* Selecting every position changes nothing.
LEMMA SelectedAll ==
    ASSUME NEW S, NEW s \in Seq(S)
    PROVE  Selected(s, 1..Len(s)) = s
  <1> DEFINE K == 1..Len(s)
  <1>0. Len(s) \in Nat /\ K \in SUBSET (1..Len(s))
    OBVIOUS
  <1>01. \A n \in Nat : Cardinality(1..n) = n
    BY FS_Interval
  <1>1. Cardinality(K) = Len(s)
    BY <1>0, <1>01
  <1>2. ASSUME NEW i \in 1..Len(s)
        PROVE  Nth(K, i) = i
    <2>1. Nth(K, i) \in K /\ Rank(K, Nth(K, i)) = i
      BY <1>0, <1>1, NthMember
    <2>2. \A k \in K : {j \in K : j <= k} = 1..k
      BY <1>0
    <2>3. \A k \in K : Cardinality(1..k) = k
      BY <1>0, <1>01
    <2> QED BY <2>1, <2>2, <2>3 DEF Rank
  <1> QED BY <1>1, <1>2 DEF Selected

-----------------------------------------------------------------------------
(* Tables.                                                                 *)

LEMMA UsablePositions == \A s : Usable(s) \subseteq 1..Len(s)
  BY DEF Usable

\* A selection of distinct bindings is distinct.
LEMMA SelectedDistinct ==
    ASSUME NEW s \in Seq(Binding), NEW K \in SUBSET (1..Len(s)),
           \A j, k \in K : s[j].chord = s[k].chord => j = k
    PROVE  Selected(s, K) \in Seq(Binding) /\ NoDuplicates(Selected(s, K))
  <1>1. /\ Selected(s, K) \in Seq(Binding)
        /\ Len(Selected(s, K)) = Cardinality(K)
        /\ \A i \in 1..Cardinality(K) :
              Nth(K, i) \in K /\ Selected(s, K)[i] = s[Nth(K, i)]
        /\ \A i, j \in 1..Cardinality(K) : Nth(K, i) = Nth(K, j) => i = j
    BY SelectedProperties
  <1> DEFINE t == Selected(s, K)
  <1>2. ASSUME NEW j \in 1..Len(t), NEW k \in 1..Len(t), t[j].chord = t[k].chord
        PROVE  j = k
    <2>1. j \in 1..Cardinality(K) /\ k \in 1..Cardinality(K)
      BY <1>1
    <2>2. /\ Nth(K, j) \in K /\ t[j] = s[Nth(K, j)]
          /\ Nth(K, k) \in K /\ t[k] = s[Nth(K, k)]
      BY <1>1, <2>1
    <2>3. s[Nth(K, j)].chord = s[Nth(K, k)].chord
      BY <1>2, <2>2
    <2>4. Nth(K, j) = Nth(K, k)
      BY <2>2, <2>3
    <2> QED BY <1>1, <2>1, <2>4
  <1> QED BY <1>1, <1>2 DEF NoDuplicates

\* What Load builds from any file binds no chord twice, and nothing blank.
LEMMA KeptFirst ==
    ASSUME NEW s \in Seq(Binding)
    PROVE  /\ KeepFirst(s) \in Seq(Binding)
           /\ NoDuplicates(KeepFirst(s))
           /\ Usable(KeepFirst(s)) = 1..Len(KeepFirst(s))
  <1> DEFINE K == {k \in Usable(s) :
                      \A j \in Usable(s) : s[j].chord = s[k].chord => k <= j}
  <1>1. K \in SUBSET (1..Len(s)) /\ \A k \in K : s[k] \notin Blank
    BY DEF Usable
  <1>2. \A j, k \in K : s[j].chord = s[k].chord => j = k
    <2> SUFFICES ASSUME NEW j \in K, NEW k \in K, s[j].chord = s[k].chord
                 PROVE  j = k
      OBVIOUS
    <2>1. j <= k /\ k <= j
      OBVIOUS
    <2>2. j \in Int /\ k \in Int
      BY <1>1
    <2> QED BY <2>1, <2>2
  <1>3. KeepFirst(s) = Selected(s, K)
    BY DEF KeepFirst
  <1> HIDE DEF K
  <1>4. KeepFirst(s) \in Seq(Binding) /\ NoDuplicates(KeepFirst(s))
    BY <1>1, <1>2, <1>3, SelectedDistinct
  <1>5. \A i \in 1..Len(KeepFirst(s)) : KeepFirst(s)[i] \notin Blank
    <2>1. /\ Len(Selected(s, K)) = Cardinality(K)
          /\ \A i \in 1..Cardinality(K) :
                Nth(K, i) \in K /\ Selected(s, K)[i] = s[Nth(K, i)]
      BY <1>1, SelectedProperties
    <2> QED BY <1>1, <1>3, <2>1
  <1> QED BY <1>4, <1>5 DEF Usable

\* Loading a table without duplicates passes over what is blank, and over nothing else.
LEMMA KeepsDistinct ==
    ASSUME NEW s \in Seq(Binding), NoDuplicates(s)
    PROVE  KeepFirst(s) = Selected(s, Usable(s))
  <1>1. \A j, k \in Usable(s) : s[j].chord = s[k].chord => k <= j
    <2>1. Usable(s) \subseteq 1..Len(s) /\ \A k \in 1..Len(s) : k <= k
      BY DEF Usable
    <2> QED BY <2>1 DEF NoDuplicates
  <1>2. {k \in Usable(s) : \A j \in Usable(s) : s[j].chord = s[k].chord => k <= j} = Usable(s)
    BY <1>1
  <1> QED BY <1>2 DEF KeepFirst

\* A table that was loaded has nothing that loading it again would pass over.
LEMMA LoadedUsable ==
    ASSUME NEW s \in Seq(Binding)
    PROVE  Selected(KeepFirst(s), Usable(KeepFirst(s))) = KeepFirst(s)
  <1>1. KeepFirst(s) \in Seq(Binding) /\ Usable(KeepFirst(s)) = 1..Len(KeepFirst(s))
    BY KeptFirst
  <1>2. \A t \in Seq(Binding) : Selected(t, 1..Len(t)) = t
    BY SelectedAll
  <1> QED BY <1>1, <1>2

\* bind: the chord's target is replaced, or the binding appended.
LEMMA BoundTable ==
    ASSUME NEW b \in Binding, bindings \in Seq(Binding), NoDuplicates(bindings)
    PROVE  Bound(b) \in Seq(Binding) /\ NoDuplicates(Bound(b))
  <1>1. CASE Has(bindings, b.chord)
    <2>1. Bound(b) = Replace(bindings, b)
      BY <1>1 DEF Bound
    <2>2. /\ Replace(bindings, b) \in Seq(Binding)
          /\ Len(Replace(bindings, b)) = Len(bindings)
      BY DEF Replace
    <2>3. \A k \in 1..Len(bindings) : Replace(bindings, b)[k].chord = bindings[k].chord
      BY DEF Replace
    <2> QED BY <2>1, <2>2, <2>3 DEF NoDuplicates
  <1>2. CASE ~Has(bindings, b.chord)
    <2>1. Bound(b) = Append(bindings, b)
      BY <1>2 DEF Bound
    <2> DEFINE t == Append(bindings, b)
               n == Len(bindings)
    <2>2. /\ t \in Seq(Binding) /\ Len(t) = n + 1 /\ n \in Nat /\ t[n + 1] = b
          /\ \A k \in 1..n : t[k] = bindings[k]
      OBVIOUS
    <2>3. \A k \in 1..n : bindings[k].chord # b.chord
      BY <1>2 DEF Has
    <2>4. NoDuplicates(t)
      <3> SUFFICES ASSUME NEW j \in 1..(n + 1), NEW k \in 1..(n + 1), t[j].chord = t[k].chord
                   PROVE  j = k
        BY <2>2 DEF NoDuplicates
      <3>0. \A m \in 1..(n + 1) : m \in 1..n \/ m = n + 1
        BY <2>2
      <3> HIDE DEF t, n
      <3>1. CASE j \in 1..n /\ k \in 1..n
        <4>1. bindings[j].chord = bindings[k].chord
          BY <2>2, <3>1
        <4> QED BY <3>1, <4>1 DEF NoDuplicates, n
      <3>2. CASE j = n + 1 \/ k = n + 1
        BY <2>2, <2>3, <3>0, <3>2
      <3> QED BY <3>0, <3>1, <3>2
    <2> QED BY <2>1, <2>2, <2>4
  <1> QED BY <1>1, <1>2

\* unbind: the chord is dropped.
LEMMA UnboundTable ==
    ASSUME NEW c, bindings \in Seq(Binding), NoDuplicates(bindings)
    PROVE  LET t == Selected(bindings, {k \in 1..Len(bindings) : bindings[k].chord # c})
           IN  t \in Seq(Binding) /\ NoDuplicates(t)
  <1> DEFINE K == {k \in 1..Len(bindings) : bindings[k].chord # c}
  <1>1. K \in SUBSET (1..Len(bindings))
    OBVIOUS
  <1>2. \A j, k \in K : bindings[j].chord = bindings[k].chord => j = k
    BY DEF NoDuplicates
  <1> HIDE DEF K
  <1>3. Selected(bindings, K) \in Seq(Binding) /\ NoDuplicates(Selected(bindings, K))
    BY <1>1, <1>2, SelectedDistinct
  <1> QED BY <1>3 DEF K

-----------------------------------------------------------------------------
(***************************************************************************)
(* The inductive invariant.  NoShadowing is inductive with the types.      *)
(* OwnSavesStick speaks of the top of a frame: between the parse and the   *)
(* second stat the two tables agree as well, and a table that was edited   *)
(* and not yet saved is the only one on the way to SaveTruncate.           *)
(***************************************************************************)

Types ==
    /\ bindings \in Seq(Binding)
    /\ DOMAIN file = {"state", "binds", "mtime"}
    /\ file.state \in {"missing", "ok", "broken"} /\ file.binds \in Seq(Binding)
    /\ file.mtime \in Nat /\ lastWrite \in 0..file.mtime
    /\ pc \in {"frame", "parse", "stat", "truncate", "write"}

Flags ==
    /\ running \in BOOLEAN /\ reloaded \in BOOLEAN /\ loadedOk \in BOOLEAN
    /\ editing \in BOOLEAN /\ own \in BOOLEAN /\ edited \in BOOLEAN

\* What the engine wrote it can parse, and nothing of the table is left to be written.
Agreement ==
    /\ own => file.state = "ok"
    /\ pc \in {"truncate", "write"} => edited
    /\ (own /\ ~edited /\ pc \in {"frame", "stat"} /\ running)
           => KeepFirst(file.binds) = Selected(bindings, Usable(bindings))

IInv == Types /\ Flags /\ NoShadowing /\ Agreement

-----------------------------------------------------------------------------
(* Init, and one lemma per action.                                         *)

LEMMA InitIInv == Init => IInv
  <1> SUFFICES ASSUME Init PROVE IInv
    OBVIOUS
  <1>1. Types /\ NoShadowing
    BY DEF Init, Types, NoShadowing
  <1>2. Flags
    BY Zenon DEF Init, Flags
  <1>3. Agreement
    BY DEF Init, Agreement
  <1> QED BY <1>1, <1>2, <1>3 DEF IInv

LEMMA DefaultsDistinct == Defaults \in Seq(Binding) /\ NoDuplicates(Defaults)
  BY KeybindingAssumption DEF NoDuplicates

LEMMA Duplicates == NoShadowing <=> NoDuplicates(bindings)
  BY DEF NoShadowing, NoDuplicates

LEMMA StartIInv == IInv /\ Start => IInv'
  <1> SUFFICES ASSUME IInv, Start PROVE IInv'
    OBVIOUS
  <1>0. /\ \/ edited' /\ bindings' = Defaults /\ pc' = "truncate"
           \/ ~edited' /\ bindings' = <<>> /\ pc' = "parse"
        /\ lastWrite' = 0 /\ file' = file /\ own' = own
    <2>1. CASE edited'
      BY <2>1, Zenon DEF Start
    <2>2. CASE ~edited'
      BY <2>2, Zenon DEF Start
    <2> QED BY <2>1, <2>2
  <1>1. Types'
    <2>1. <<>> \in Seq(Binding)
      OBVIOUS
    <2>2. bindings' \in Seq(Binding)
      BY <1>0, <2>1, DefaultsDistinct
    <2>3. pc' \in {"truncate", "parse"}
      BY <1>0
    <2> QED BY <1>0, <2>2, <2>3 DEF IInv, Types
  <1>2. Flags'
    <2>1. (file.state = "missing") \in BOOLEAN
      OBVIOUS
    <2> QED BY <2>1, Zenon DEF IInv, Flags, Start
  <1>3. NoShadowing'
    BY <1>0, DefaultsDistinct DEF NoShadowing, NoDuplicates
  <1>4. Agreement'
    <2>1. own => file.state = "ok"
      BY DEF IInv, Agreement
    <2> QED BY <1>0, <2>1 DEF Agreement
  <1> QED BY <1>1, <1>2, <1>3, <1>4 DEF IInv

\* A step that leaves the table alone.
LEMMA SameTable == NoShadowing /\ bindings' = bindings => NoShadowing'
  BY DEF NoShadowing

LEMMA CheckHotReloadIInv == IInv /\ CheckHotReload => IInv'
  <1> SUFFICES ASSUME IInv, CheckHotReload PROVE IInv'
    OBVIOUS
  <1>1. Types'
    BY DEF IInv, Types, CheckHotReload
  <1>2. Flags'
    <2>1. reloaded' \in BOOLEAN
      BY DEF CheckHotReload
    <2> QED BY <2>1, Zenon DEF IInv, Flags, CheckHotReload
  <1>3. NoShadowing'
    BY SameTable DEF IInv, CheckHotReload
  <1>4. Agreement'
    BY DEF IInv, Agreement, CheckHotReload
  <1> QED BY <1>1, <1>2, <1>3, <1>4 DEF IInv

LEMMA LoadParseIInv == IInv /\ LoadParse => IInv'
  <1> SUFFICES ASSUME IInv, LoadParse PROVE IInv'
    OBVIOUS
  <1>0. /\ file.binds \in Seq(Binding) /\ bindings \in Seq(Binding)
        /\ NoDuplicates(bindings)
    BY Duplicates DEF IInv, Types
  <1>1. KeepFirst(file.binds) \in Seq(Binding) /\ NoDuplicates(KeepFirst(file.binds))
    BY <1>0, KeptFirst
  <1>2. bindings' = KeepFirst(file.binds) \/ bindings' = bindings
    BY DEF LoadParse
  <1>3. Types'
    <2>1. bindings' \in Seq(Binding)
      BY <1>0, <1>1, <1>2
    <2>2. pc' \in {"stat", "frame"} /\ file' = file /\ lastWrite' = lastWrite
      BY DEF LoadParse
    <2> QED BY <2>1, <2>2 DEF IInv, Types
  <1>4. Flags'
    <2>1. loadedOk' \in BOOLEAN /\ edited' \in BOOLEAN
      BY DEF LoadParse
    <2> QED BY <2>1, Zenon DEF IInv, Flags, LoadParse
  <1>5. NoShadowing'
    <2>1. NoDuplicates(bindings')
      BY <1>0, <1>1, <1>2
    <2> QED BY <2>1 DEF NoShadowing, NoDuplicates
  <1>6. Agreement'
    <2>1. CASE file.state = "ok"
      <3>1. bindings' = KeepFirst(file.binds) /\ file' = file /\ pc' = "stat"
        BY <2>1 DEF LoadParse
      <3>2. Selected(KeepFirst(file.binds), Usable(KeepFirst(file.binds)))
               = KeepFirst(file.binds)
        BY <1>0, LoadedUsable
      <3>3. KeepFirst(file'.binds) = Selected(bindings', Usable(bindings'))
        BY <3>1, <3>2
      <3> QED BY <2>1, <3>1, <3>3 DEF Agreement
    <2>2. CASE file.state # "ok"
      <3>1. ~own /\ own' = own /\ pc' = "frame"
        <4>1. ~own
          BY <2>2 DEF IInv, Agreement
        <4>2. own' = own /\ pc' = "frame"
          BY <2>2 DEF LoadParse
        <4> QED BY <4>1, <4>2
      <3> QED BY <3>1 DEF Agreement
    <2> QED BY <2>1, <2>2
  <1> QED BY <1>3, <1>4, <1>5, <1>6 DEF IInv

LEMMA LoadStatIInv == IInv /\ LoadStat => IInv'
  <1> SUFFICES ASSUME IInv, LoadStat PROVE IInv'
    OBVIOUS
  <1>1. Types'
    <2>1. MtimeOf \in 0..file.mtime
      BY DEF MtimeOf, IInv, Types
    <2> QED BY <2>1 DEF IInv, Types, LoadStat
  <1>2. Flags'
    BY Zenon DEF IInv, Flags, LoadStat
  <1>3. NoShadowing'
    BY SameTable DEF IInv, LoadStat
  <1>4. Agreement'
    BY DEF IInv, Agreement, LoadStat
  <1> QED BY <1>1, <1>2, <1>3, <1>4 DEF IInv

LEMMA BindReloadIInv == IInv /\ BindReload => IInv'
  <1> SUFFICES ASSUME IInv, BindReload PROVE IInv'
    OBVIOUS
  <1>1. Types'
    BY DEF IInv, Types, BindReload
  <1>2. Flags'
    BY Zenon DEF IInv, Flags, BindReload
  <1>3. NoShadowing'
    BY SameTable DEF IInv, BindReload
  <1>4. Agreement'
    BY DEF IInv, Agreement, BindReload
  <1> QED BY <1>1, <1>2, <1>3, <1>4 DEF IInv

\* A command that leaves a table without duplicates.
LEMMA EditIInv ==
    ASSUME NEW table \in Seq(Binding), NoDuplicates(table), IInv, Edit(table)
    PROVE  IInv'
  <1>0. bindings' = table /\ pc' = "truncate"
    BY DEF Edit
  <1>1. Types'
    BY <1>0 DEF IInv, Types, Edit
  <1>2. Flags'
    BY Zenon DEF IInv, Flags, Edit
  <1>3. NoShadowing'
    BY <1>0 DEF NoShadowing, NoDuplicates
  <1>4. Agreement'
    <2>1. edited' /\ own' = own /\ file' = file
      BY DEF Edit
    <2>2. own => file.state = "ok"
      BY DEF IInv, Agreement
    <2> QED BY <1>0, <2>1, <2>2 DEF Agreement
  <1> QED BY <1>1, <1>2, <1>3, <1>4 DEF IInv

LEMMA SaveTruncateIInv == IInv /\ SaveTruncate => IInv'
  <1> SUFFICES ASSUME IInv, SaveTruncate PROVE IInv'
    OBVIOUS
  <1>1. Types'
    BY DEF IInv, Types, SaveTruncate, Truncated
  <1>2. Flags'
    BY Zenon DEF IInv, Flags, SaveTruncate
  <1>3. NoShadowing'
    BY SameTable DEF IInv, SaveTruncate
  <1>4. Agreement'
    <2>1. edited' /\ ~own'
      BY DEF IInv, Agreement, SaveTruncate
    <2> QED BY <2>1 DEF Agreement
  <1> QED BY <1>1, <1>2, <1>3, <1>4 DEF IInv

LEMMA SaveFailsIInv == IInv /\ SaveFails => IInv'
  <1> SUFFICES ASSUME IInv, SaveFails PROVE IInv'
    OBVIOUS
  <1>1. Types'
    BY DEF IInv, Types, SaveFails
  <1>2. Flags'
    BY Zenon DEF IInv, Flags, SaveFails
  <1>3. NoShadowing'
    BY SameTable DEF IInv, SaveFails
  <1>4. Agreement'
    BY DEF IInv, Agreement, SaveFails
  <1> QED BY <1>1, <1>2, <1>3, <1>4 DEF IInv

LEMMA SaveWriteIInv == IInv /\ SaveWrite => IInv'
  <1> SUFFICES ASSUME IInv, SaveWrite PROVE IInv'
    OBVIOUS
  <1>0. /\ file' = [state |-> "ok", binds |-> bindings, mtime |-> file.mtime + 1]
        /\ bindings' = bindings /\ pc' = "frame" /\ lastWrite' = lastWrite
    BY DEF SaveWrite, Written
  <1>1. Types'
    BY <1>0 DEF IInv, Types
  <1>2. Flags'
    BY Zenon DEF IInv, Flags, SaveWrite
  <1>3. NoShadowing'
    BY <1>0, SameTable DEF IInv
  <1>4. Agreement'
    <2>1. KeepFirst(bindings) = Selected(bindings, Usable(bindings))
      BY Duplicates, KeepsDistinct DEF IInv, Types
    <2>2. KeepFirst(file'.binds) = Selected(bindings', Usable(bindings'))
      BY <1>0, <2>1
    <2> QED BY <1>0, <2>2 DEF Agreement
  <1> QED BY <1>1, <1>2, <1>3, <1>4 DEF IInv

LEMMA StopIInv == IInv /\ Stop => IInv'
  <1> SUFFICES ASSUME IInv, Stop PROVE IInv'
    OBVIOUS
  <1>1. Types'
    BY DEF IInv, Types, Stop
  <1>2. Flags'
    BY Zenon DEF IInv, Flags, Stop
  <1>3. NoShadowing'
    BY DEF NoShadowing, Stop
  <1>4. Agreement'
    <2>1. ~running' /\ pc' = "frame" /\ own' = own /\ file' = file
      BY DEF Stop
    <2>2. own => file.state = "ok"
      BY DEF IInv, Agreement
    <2> QED BY <2>1, <2>2 DEF Agreement
  <1> QED BY <1>1, <1>2, <1>3, <1>4 DEF IInv

\* The editor disowns the file, and leaves the engine where it is.
LEMMA EditorIInv ==
    ASSUME IInv, Types', Flags', ~own',
           bindings' = bindings, pc' = pc, edited' = edited
    PROVE  IInv'
  <1>1. NoShadowing'
    BY SameTable DEF IInv
  <1>2. Agreement'
    <2>1. pc \in {"truncate", "write"} => edited
      BY DEF IInv, Agreement
    <2> QED BY <2>1 DEF Agreement
  <1> QED BY <1>1, <1>2 DEF IInv

LEMMA EditorTruncateIInv == IInv /\ EditorTruncate => IInv'
  <1> SUFFICES ASSUME IInv, EditorTruncate PROVE IInv'
    OBVIOUS
  <1>1. Types'
    BY DEF IInv, Types, EditorTruncate, Truncated
  <1>2. Flags'
    BY Zenon DEF IInv, Flags, EditorTruncate
  <1> QED BY <1>1, <1>2, EditorIInv DEF EditorTruncate

LEMMA EditorWriteIInv == \A e \in Edits : IInv /\ EditorWrite(e) => IInv'
  <1> SUFFICES ASSUME NEW e \in Edits, IInv, EditorWrite(e) PROVE IInv'
    OBVIOUS
  <1>1. Types'
    BY KeybindingAssumption DEF IInv, Types, EditorWrite
  <1>2. Flags'
    BY Zenon DEF IInv, Flags, EditorWrite
  <1> QED BY <1>1, <1>2, EditorIInv DEF EditorWrite

LEMMA DeleteIInv == IInv /\ Delete => IInv'
  <1> SUFFICES ASSUME IInv, Delete PROVE IInv'
    OBVIOUS
  <1>1. Types'
    <2>1. <<>> \in Seq(Binding)
      OBVIOUS
    <2> QED BY <2>1 DEF IInv, Types, Delete
  <1>2. Flags'
    BY Zenon DEF IInv, Flags, Delete
  <1> QED BY <1>1, <1>2, EditorIInv DEF Delete

LEMMA NextIInv == IInv /\ [Next]_vars => IInv'
  <1> SUFFICES ASSUME IInv, [Next]_vars PROVE IInv'
    OBVIOUS
  <1>0. bindings \in Seq(Binding) /\ NoDuplicates(bindings)
    BY Duplicates DEF IInv, Types
  <1>1. ASSUME NEW b \in Binding, Bind(b) PROVE IInv'
    BY <1>0, <1>1, BoundTable, EditIInv DEF Bind
  <1>2. ASSUME NEW c \in Chords, Unbind(c) PROVE IInv'
    BY <1>0, <1>2, UnboundTable, EditIInv DEF Unbind
  <1>3. CASE KeybindingsReset
    BY <1>3, DefaultsDistinct, EditIInv DEF KeybindingsReset
  <1>4. CASE UNCHANGED vars
    <2>1. Types'
      BY <1>4 DEF IInv, Types, vars
    <2>2. Flags'
      BY <1>4, Zenon DEF IInv, Flags, vars
    <2>3. NoShadowing' /\ Agreement'
      BY <1>4 DEF IInv, NoShadowing, Agreement, vars
    <2> QED BY <2>1, <2>2, <2>3 DEF IInv
  <1> QED
    BY <1>1, <1>2, <1>3, <1>4, StartIInv, CheckHotReloadIInv, LoadParseIInv, LoadStatIInv,
       BindReloadIInv, SaveTruncateIInv, SaveFailsIInv, SaveWriteIInv, StopIInv,
       EditorTruncateIInv, EditorWriteIInv, DeleteIInv DEF Next

-----------------------------------------------------------------------------
(***************************************************************************)
(* The theorems, for any chords, targets, defaults, edits and bounds.      *)
(***************************************************************************)

THEOREM Inductive == Spec => []IInv
  BY InitIInv, NextIInv, PTL DEF Spec

\* Type correctness: in particular last_write_ is never a time the file has not had.
THEOREM TypeCorrect == Spec => []TypeOK
  <1>1. IInv => TypeOK
    BY DEF IInv, Types, Flags, TypeOK
  <1> QED BY <1>1, Inductive, PTL

\* No chord is ever bound twice, whatever the file held and the commands did.
THEOREM NoShadowingCorrect == Spec => []NoShadowing
  <1>1. IInv => NoShadowing
    BY DEF IInv
  <1> QED BY <1>1, Inductive, PTL

\* What the engine saved is what it would load, at the top of every frame.
THEOREM OwnSavesCorrect == Spec => []OwnSavesStick
  <1>1. IInv => OwnSavesStick
    BY DEF IInv, Agreement, OwnSavesStick
  <1> QED BY <1>1, Inductive, PTL
=============================================================================
