---------------------------- MODULE ConsoleProofs ----------------------------
(* Proofs about the console: of CvarStore, its variables and their file, and of    *)
(* ConsoleServer, its threads and its task queue.  The two share no variable; the  *)
(* definitions of the first part speak of StoreSpec, those of the second of Spec.  *)
EXTENDS CvarStore, ConsoleServer, SequenceTheorems, TLAPS

(* Part one: for any registries, texts and files, validation holds, a completed    *)
(* save is restored, and what a build does not know passes through it.             *)

\* StoreTypeOK, but for the flag.
StoreDataOK ==
    /\ build \in Builds \cup {Off}
    /\ DOMAIN cvars = (IF Running THEN Names(build) ELSE {})
    /\ \A n \in DOMAIN cvars : cvars[n] \in Texts
    /\ DOMAIN unknown \subseteq AllNames
    /\ \A n \in DOMAIN unknown : unknown[n] \in Texts
    /\ file.state \in {"missing", "corrupt", "ok"}
    /\ file.table \in Tables
    /\ saving \in {"no", "open", "write"}

\* A save runs in a process, and until it is complete no save is restorable.
SavingInv ==
    /\ saving # "no" => Running
    /\ saving = "write" => saved.build = Off

\* The unknown keys are the strings of the file that this build does not register.
UnknownInv ==
    Running =>
        /\ DOMAIN unknown = {n \in DOMAIN loaded : loaded[n] # NotString} \ Names(build)
        /\ \A n \in DOMAIN unknown : unknown[n] = loaded[n]

\* Loading the file of a completed save gives what was saved.
SavedInv ==
    /\ saved.build \in Builds \cup {Off}
    /\ saved.build # Off =>
          \A n \in Names(saved.build) :
             Registry[saved.build][n].archive
                => LoadedValue(saved.build, n, file) = saved.values[n]

\* ValuesNormal makes the text that a save writes one that a load keeps (SavedInv); that no
\* unknown key hides a registered one is UnknownInv.
StoreIInv == StoreDataOK /\ SavingInv /\ UnknownInv /\ SavedInv /\ ValuesNormal

-----------------------------------------------------------------------------
(* Validation.                                                             *)

LEMMA NormalCases ==
    ASSUME NEW m, NEW t
    PROVE  /\ m.kind = "enum" => Normal(m, t) = IF t \in m.allowed THEN t ELSE Rejected
           /\ m.kind = "bool" => Normal(m, t) = IF t \in TrueTexts THEN One ELSE Zero
           /\ m.kind = "number" => Normal(m, t) = TextOf[Clamp(m, NumberOf[t])]
           /\ m.kind = "text" => Normal(m, t) = t
  BY DEF Normal

\* What ApplySet stores is a text, and it would store that again unchanged.
LEMMA NormalStable ==
    ASSUME NEW b \in Builds, NEW n \in Names(b), NEW t \in Texts,
           Normal(Registry[b][n], t) # Rejected
    PROVE  /\ Normal(Registry[b][n], t) \in Texts
           /\ Normal(Registry[b][n], Normal(Registry[b][n], t)) = Normal(Registry[b][n], t)
<1> DEFINE m == Registry[b][n]
           u == Normal(m, t)
<1>1. /\ m.kind \in Kinds /\ m.min \in Int /\ m.max \in Int /\ m.min <= m.max
      /\ m.allowed \subseteq Texts
      /\ \A k \in m.min..m.max : TextOf[k] \in Texts /\ NumberOf[TextOf[k]] = k
      /\ \A x \in Texts : NumberOf[x] \in Int
      /\ One \in TrueTexts /\ One \in Texts /\ Zero \in Texts /\ Zero \notin TrueTexts
  BY CvarAssumption
<1>2. u # Rejected
  OBVIOUS
<1>3. /\ m.kind = "enum" => u = IF t \in m.allowed THEN t ELSE Rejected
      /\ m.kind = "bool" => u = IF t \in TrueTexts THEN One ELSE Zero
      /\ m.kind = "number" => u = TextOf[Clamp(m, NumberOf[t])]
      /\ m.kind = "text" => u = t
  BY NormalCases
<1>4. /\ m.kind = "enum" => Normal(m, u) = IF u \in m.allowed THEN u ELSE Rejected
      /\ m.kind = "bool" => Normal(m, u) = IF u \in TrueTexts THEN One ELSE Zero
      /\ m.kind = "number" => Normal(m, u) = TextOf[Clamp(m, NumberOf[u])]
      /\ m.kind = "text" => Normal(m, u) = u
  BY NormalCases
<1> SUFFICES u \in Texts /\ Normal(m, u) = u
  OBVIOUS
<1> HIDE DEF m, u
<1>5. CASE m.kind = "number"
  <2>1. Clamp(m, NumberOf[t]) \in m.min..m.max
    BY <1>1 DEF Clamp
  <2>2. u \in Texts /\ NumberOf[u] = Clamp(m, NumberOf[t])
    BY <1>1, <1>3, <1>5, <2>1
  <2>3. Clamp(m, NumberOf[u]) = Clamp(m, NumberOf[t])
    BY <1>1, <2>1, <2>2 DEF Clamp
  <2> QED BY <1>3, <1>4, <1>5, <2>2, <2>3
<1>6. CASE m.kind \in {"enum", "bool", "text"}
  BY <1>1, <1>2, <1>3, <1>4, <1>6
<1> QED BY <1>1, <1>5, <1>6 DEF Kinds

\* The values a cvar may hold: its default or a text that is its own normal form.
Sound(b, n, t) == t \in Texts /\ (t = Registry[b][n].default \/ Normal(Registry[b][n], t) = t)

\* Setting a value, from a line, a load or the engine, leaves a sound one.
LEMMA AppliedSound ==
    ASSUME NEW b \in Builds, NEW n \in Names(b), NEW old, Sound(b, n, old), NEW t \in Texts
    PROVE  Sound(b, n, Applied(Registry[b][n], old, t))
  BY NormalStable DEF Applied, Sound

LEMMA DefaultSound ==
    ASSUME NEW b \in Builds, NEW n \in Names(b)
    PROVE  Sound(b, n, Registry[b][n].default)
  BY CvarAssumption DEF Sound

\* The keys a load keeps have texts.
LEMMA TableTexts ==
    ASSUME NEW f, f.table \in Tables
    PROVE  /\ DOMAIN f.table \subseteq AllNames
           /\ \A n \in StringKeys(f) : f.table[n] \in Texts
<1>1. PICK S \in SUBSET AllNames : f.table \in [S -> Texts \cup {NotString}]
  BY DEF Tables
<1> QED BY <1>1 DEF StringKeys

LEMMA LoadedSound ==
    ASSUME NEW b \in Builds, NEW n \in Names(b), NEW f, f.table \in Tables
    PROVE  Sound(b, n, LoadedValue(b, n, f))
  BY DefaultSound, AppliedSound, TableTexts DEF LoadedValue

\* In terms of Sound.
LEMMA ValuesSound ==
    ASSUME StoreDataOK
    PROVE  ValuesNormal <=> \A n \in DOMAIN cvars : Sound(build, n, cvars[n])
  BY DEF StoreDataOK, ValuesNormal, Sound, Meta

-----------------------------------------------------------------------------
(* Steps.                                                                  *)

LEMMA InitStoreIInv == StoreInit => StoreIInv
<1>1. NoKeys \in Tables /\ DOMAIN NoKeys = {}
  BY DEF NoKeys, Tables
<1> QED BY <1>1 DEF StoreInit, StoreIInv, StoreDataOK, SavingInv, UnknownInv, SavedInv, ValuesNormal, Running, NoSave

\* Off is no build.
LEMMA OffNoBuild == Off \notin Builds
  BY CvarAssumption

LEMMA StartIInv ==
    ASSUME StoreIInv, NEW b \in Builds, Start(b)
    PROVE  StoreIInv'
<1>0. StoreDataOK /\ SavingInv /\ UnknownInv /\ SavedInv /\ ValuesNormal
  BY DEF StoreIInv
<1>1. /\ build' = b /\ Running'
      /\ cvars' = [n \in Names(b) |-> LoadedValue(b, n, file)]
      /\ unknown' = [n \in StringKeys(file) \ Names(b) |-> file.table[n]]
      /\ loaded' = file.table
      /\ UNCHANGED <<file, saving, saved>>
  BY OffNoBuild DEF Start, Running
<1>2. \A n \in Names(b) : Sound(b, n, cvars'[n])
  BY <1>0, <1>1, LoadedSound DEF StoreDataOK
<1>3. StoreDataOK'
  <2>1. DOMAIN cvars' = Names(b) /\ \A n \in Names(b) : cvars'[n] \in Texts
    BY <1>1, <1>2 DEF Sound
  <2>2. DOMAIN unknown' \subseteq AllNames /\ \A n \in DOMAIN unknown' : unknown'[n] \in Texts
    BY <1>0, <1>1, TableTexts DEF StoreDataOK, StringKeys
  <2> QED BY <1>0, <1>1, <2>1, <2>2 DEF StoreDataOK
<1>4. ValuesNormal'
  BY <1>1, <1>2 DEF ValuesNormal, Sound, Meta
<1>5. SavingInv'
  BY <1>0, <1>1 DEF SavingInv
<1>6. UnknownInv'
  BY <1>1 DEF UnknownInv, StringKeys
<1>7. SavedInv'
  BY <1>0, <1>1 DEF SavedInv
<1> QED BY <1>3, <1>4, <1>5, <1>6, <1>7 DEF StoreIInv

\* A set of the values by a line, the engine or a reset: each new value is sound.
LEMMA SetIInv ==
    ASSUME StoreIInv, Running, DOMAIN cvars' = Names(build),
           \A n \in Names(build) : Sound(build, n, cvars'[n]),
           UNCHANGED <<build, unknown, file, loaded, saved>>,
           saving' \in {saving, "open"}
    PROVE  StoreIInv'
<1>1. StoreDataOK'
  BY DEF StoreIInv, StoreDataOK, Running, Sound
<1>2. ValuesNormal'
  BY DEF ValuesNormal, Sound, Meta
<1>3. SavingInv' /\ UnknownInv'
  BY DEF StoreIInv, SavingInv, UnknownInv, Running
<1>4. SavedInv'
  BY DEF StoreIInv, SavedInv
<1> QED BY <1>1, <1>2, <1>3, <1>4 DEF StoreIInv

\* The names and values of a running build.
LEMMA RunningSound ==
    ASSUME StoreIInv, Running
    PROVE  /\ build \in Builds /\ DOMAIN cvars = Names(build)
           /\ \A n \in Names(build) : Sound(build, n, cvars[n])
<1>1. build \in Builds /\ DOMAIN cvars = Names(build)
  BY DEF StoreIInv, StoreDataOK, Running
<1> QED BY <1>1, ValuesSound DEF StoreIInv

LEMMA SetCVarIInv ==
    ASSUME StoreIInv, NEW n \in Names(build), NEW t \in Texts, Running,
           SetCVar(n, t) \/ SetCVarOverride(n, t)
    PROVE  StoreIInv'
<1>0. /\ build \in Builds /\ DOMAIN cvars = Names(build)
      /\ \A k \in Names(build) : Sound(build, k, cvars[k])
  BY RunningSound
<1>1. /\ cvars' = [cvars EXCEPT ![n] = Applied(Meta(n), cvars[n], t)]
      /\ UNCHANGED <<build, unknown, file, loaded, saved, saving>>
  BY DEF SetCVar, SetCVarOverride, Applied
<1>2. Sound(build, n, Applied(Meta(n), cvars[n], t))
  BY <1>0, AppliedSound DEF Meta
<1>3. DOMAIN cvars' = Names(build) /\ \A k \in Names(build) : Sound(build, k, cvars'[k])
  BY <1>0, <1>1, <1>2
<1> QED BY <1>1, <1>3, SetIInv

LEMMA CvarsResetIInv ==
    ASSUME StoreIInv, CvarsReset
    PROVE  StoreIInv'
<1>0. /\ build \in Builds /\ DOMAIN cvars = Names(build) /\ Running
      /\ \A k \in Names(build) : Sound(build, k, cvars[k])
  BY RunningSound DEF CvarsReset, Idle
<1>1. /\ cvars' = [n \in Names(build) |->
                      IF Meta(n).readonly THEN cvars[n]
                      ELSE Applied(Meta(n), cvars[n], Meta(n).default)]
      /\ saving' = "open"
      /\ UNCHANGED <<build, unknown, file, loaded, saved>>
  BY DEF CvarsReset
<1>2. \A n \in Names(build) : Sound(build, n, cvars'[n])
  <2> TAKE n \in Names(build)
  <2>1. Meta(n).default \in Texts
    BY <1>0, CvarAssumption DEF Meta
  <2>2. Sound(build, n, Applied(Meta(n), cvars[n], Meta(n).default))
    BY <1>0, <2>1, AppliedSound DEF Meta
  <2> QED BY <1>0, <1>1, <2>2
<1> QED BY <1>0, <1>1, <1>2, SetIInv

LEMMA QuitIInv ==
    ASSUME StoreIInv, Quit
    PROVE  StoreIInv'
<1>1. /\ Running /\ saving' = "open"
      /\ UNCHANGED <<build, cvars, unknown, file, loaded, saved>>
  BY DEF Quit, Idle
<1>2. DOMAIN cvars' = Names(build) /\ \A k \in Names(build) : Sound(build, k, cvars'[k])
  BY <1>1, RunningSound
<1> QED BY <1>1, <1>2, SetIInv

\* The end of a save: the run goes on, or it is over.
LEMMA ReturnsIInv ==
    ASSUME StoreIInv, Running, SaveReturns, file'.table \in Tables,
           file'.state \in {"missing", "corrupt", "ok"}, SavedInv'
    PROVE  StoreIInv'
<1>0. DOMAIN NoKeys = {}
  BY DEF NoKeys
<1>1. saving' = "no"
  BY DEF SaveReturns
<1>2. CASE UNCHANGED <<build, cvars, unknown, loaded>>
  BY <1>0, <1>1, <1>2 DEF StoreIInv, StoreDataOK, SavingInv, UnknownInv, ValuesNormal, Running, Meta
<1>3. CASE build' = Off /\ cvars' = NoKeys /\ unknown' = NoKeys
  BY <1>0, <1>1, <1>3 DEF StoreIInv, StoreDataOK, SavingInv, UnknownInv, ValuesNormal, Running
<1> QED BY <1>2, <1>3 DEF SaveReturns

LEMMA SaveOpenIInv ==
    ASSUME StoreIInv, SaveOpen
    PROVE  StoreIInv'
<1>1. NoKeys \in Tables
  BY DEF NoKeys, Tables
<1>2. StoreDataOK'
  BY <1>1 DEF StoreIInv, SaveOpen, StoreDataOK, Running
<1>3. SavingInv' /\ UnknownInv' /\ SavedInv'
  BY DEF StoreIInv, SaveOpen, SavingInv, UnknownInv, SavedInv, Running, NoSave
<1>4. ValuesNormal'
  BY DEF StoreIInv, SaveOpen, ValuesNormal, Meta
<1> QED BY <1>2, <1>3, <1>4 DEF StoreIInv

LEMMA SaveFailsIInv ==
    ASSUME StoreIInv, SaveFails
    PROVE  StoreIInv'
<1>1. Running /\ SaveReturns /\ UNCHANGED <<file, saved>>
  BY DEF StoreIInv, SavingInv, SaveFails
<1>2. SavedInv'
  BY <1>1 DEF StoreIInv, SavedInv
<1> QED BY <1>1, <1>2, ReturnsIInv DEF StoreIInv, StoreDataOK

\* What a save writes is a table, of which any part is one.
LEMMA SavedTableOK ==
    ASSUME StoreIInv, Running, NEW S \in SUBSET DOMAIN SavedTable
    PROVE  [n \in S |-> SavedTable[n]] \in Tables
<1>1. /\ DOMAIN SavedTable = Archived \cup DOMAIN unknown
      /\ \A n \in DOMAIN SavedTable :
            SavedTable[n] = IF n \in DOMAIN unknown THEN unknown[n] ELSE cvars[n]
  BY DEF SavedTable
<1>2. /\ build \in Builds /\ Archived \subseteq Names(build)
      /\ \A n \in Names(build) : cvars[n] \in Texts
  BY RunningSound DEF Archived, Sound
<1>3. Names(build) \subseteq AllNames
  BY <1>2 DEF AllNames
<1>4. \A n \in DOMAIN SavedTable : n \in AllNames /\ SavedTable[n] \in Texts
  BY <1>1, <1>2, <1>3 DEF StoreIInv, StoreDataOK
<1>5. [n \in S |-> SavedTable[n]] \in [S -> Texts \cup {NotString}]
  BY <1>4
<1> QED BY <1>4, <1>5 DEF Tables

\* Validation keeps what it has stored: a load gives the saved value of an archived cvar.
LEMMA SavedLoads ==
    ASSUME StoreIInv, Running, NEW n \in Names(build), Meta(n).archive,
           NEW f, f.table = SavedTable
    PROVE  LoadedValue(build, n, f) = cvars[n]
<1>1. /\ build \in Builds /\ Sound(build, n, cvars[n])
      /\ n \notin DOMAIN unknown
  BY RunningSound DEF StoreIInv, UnknownInv
<1>2. /\ DOMAIN f.table = Archived \cup DOMAIN unknown
      /\ n \in DOMAIN f.table => f.table[n] = cvars[n]
  BY <1>1 DEF SavedTable
<1>3. Rejected \notin Texts /\ NotString \notin Texts
  BY CvarAssumption
<1>4. CASE cvars[n] = Meta(n).default
  <2>1. n \notin StringKeys(f)
    BY <1>1, <1>2, <1>4 DEF Archived, StringKeys
  <2> QED BY <1>4, <2>1 DEF LoadedValue, Meta
<1>5. CASE cvars[n] # Meta(n).default
  <2>1. n \in StringKeys(f) /\ f.table[n] = cvars[n]
    BY <1>1, <1>2, <1>3, <1>5 DEF Archived, StringKeys, Sound
  <2>2. Normal(Registry[build][n], cvars[n]) = cvars[n] /\ cvars[n] # Rejected
    BY <1>1, <1>3, <1>5 DEF Sound, Meta
  <2> QED BY <2>1, <2>2 DEF LoadedValue, Applied
<1> QED BY <1>4, <1>5

LEMMA SaveWriteIInv ==
    ASSUME StoreIInv, SaveWrite
    PROVE  StoreIInv'
<1>1. /\ Running /\ SaveReturns
      /\ file' = [state |-> "ok", table |-> SavedTable]
      /\ saved' = [build |-> build, values |-> cvars]
  BY DEF StoreIInv, SavingInv, SaveWrite
<1>2. SavedTable \in Tables
  <2>1. SavedTable = [n \in DOMAIN SavedTable |-> SavedTable[n]]
    BY DEF SavedTable
  <2> QED BY <1>1, <2>1, SavedTableOK
<1>3. SavedInv'
  <2>1. build \in Builds
    BY <1>1, RunningSound
  <2>2. \A n \in Names(build) : Meta(n).archive => LoadedValue(build, n, file') = cvars[n]
    BY <1>1, SavedLoads
  <2> QED BY <1>1, <2>1, <2>2 DEF SavedInv, Meta
<1> QED BY <1>1, <1>2, <1>3, ReturnsIInv

LEMMA CrashIInv ==
    ASSUME StoreIInv, Crash
    PROVE  StoreIInv'
<1>0. /\ Running /\ NoKeys \in Tables /\ DOMAIN NoKeys = {}
      /\ build' = Off /\ cvars' = NoKeys /\ unknown' = NoKeys /\ saving' = "no"
      /\ saved' = saved
  BY DEF Crash, NoKeys, Tables
<1>1. file'.table \in Tables /\ file'.state \in {"missing", "corrupt", "ok"}
  <2>1. CASE saving = "write"
    BY <1>0, <2>1, SavedTableOK DEF Crash
  <2>2. CASE saving # "write"
    BY <2>2 DEF Crash, StoreIInv, StoreDataOK
  <2> QED BY <2>1, <2>2
<1>2. SavedInv'
  <2>1. CASE saving = "write"
    BY <1>0, <2>1 DEF StoreIInv, SavingInv, SavedInv
  <2>2. CASE saving # "write"
    BY <1>0, <2>2 DEF Crash, StoreIInv, SavedInv
  <2> QED BY <2>1, <2>2
<1>3. StoreDataOK'
  BY <1>0, <1>1 DEF StoreDataOK, Running
<1>4. SavingInv' /\ UnknownInv' /\ ValuesNormal'
  BY <1>0 DEF SavingInv, UnknownInv, ValuesNormal, Running
<1> QED BY <1>2, <1>3, <1>4 DEF StoreIInv

LEMMA EditFileIInv ==
    ASSUME StoreIInv, NEW f \in Files, EditFile(f)
    PROVE  StoreIInv'
<1>1. f.table \in Tables /\ f.state \in {"missing", "corrupt", "ok"}
  BY CvarAssumption
<1>2. StoreDataOK'
  BY <1>1 DEF StoreIInv, EditFile, StoreDataOK, Running
<1>3. SavingInv' /\ UnknownInv' /\ SavedInv' /\ ValuesNormal'
  BY DEF StoreIInv, EditFile, SavingInv, UnknownInv, SavedInv, ValuesNormal, Running, NoSave, Meta
<1> QED BY <1>2, <1>3 DEF StoreIInv

LEMMA StepStoreIInv ==
    ASSUME StoreIInv, [StoreNext]_storeVars
    PROVE  StoreIInv'
<1>1. CASE UNCHANGED storeVars
  BY <1>1 DEF StoreIInv, storeVars, StoreDataOK, SavingInv, UnknownInv, SavedInv, ValuesNormal, Running, Meta
<1>2. CASE StoreNext
  BY <1>2, StartIInv, SetCVarIInv, CvarsResetIInv, QuitIInv, SaveOpenIInv, SaveFailsIInv,
     SaveWriteIInv, CrashIInv, EditFileIInv DEF StoreNext
<1> QED BY <1>1, <1>2

LEMMA StoreInductive == StoreSpec => []StoreIInv
  BY InitStoreIInv, StepStoreIInv, PTL DEF StoreSpec

-----------------------------------------------------------------------------
(* Theorems.                                                               *)

LEMMA QuittingOK == StoreSpec => [](quitting \in BOOLEAN)
<1>1. StoreInit => quitting \in BOOLEAN
  BY Zenon DEF StoreInit
<1>2. quitting \in BOOLEAN /\ [StoreNext]_storeVars => (quitting \in BOOLEAN)'
  BY Zenon DEF StoreNext, storeVars, Start, SetCVar, SetCVarOverride, CvarsReset, Quit, SaveOpen,
     SaveFails, SaveWrite, SaveReturns, Crash, EditFile
<1> QED BY <1>1, <1>2, PTL DEF StoreSpec

\* The values, the file and the stages of a save keep their types: what a save writes, or a
\* crash leaves of it, is again a file that LoadCvarsToml can be given.
THEOREM StoreTypeCorrect == StoreSpec => []StoreTypeOK
<1>1. StoreDataOK /\ quitting \in BOOLEAN => StoreTypeOK
  BY Zenon DEF StoreDataOK, StoreTypeOK
<1>2. StoreIInv => StoreDataOK
  BY DEF StoreIInv
<1> QED BY <1>1, <1>2, StoreInductive, QuittingOK, PTL

\* Neither a file, however edited or truncated, nor a line, a reset or the engine can put a
\* value into a cvar that ApplySet would not itself have stored.
THEOREM ValuesCorrect == StoreSpec => []ValuesNormal
<1>1. StoreIInv => ValuesNormal
  BY DEF StoreIInv
<1> QED BY <1>1, StoreInductive, PTL

\* A build that starts on the file of its own completed save has every archived value back,
\* whatever other builds, crashes or failed saves came in between.
THEOREM RestartCorrect == StoreSpec => RestartRestores
<1>1. ASSUME StoreIInv, NEW b \in Builds, Start(b), saved.build = b, NEW n \in Names(b),
             Registry[b][n].archive
      PROVE  cvars'[n] = saved.values[n]
  <2>1. saved.build # Off /\ cvars'[n] = LoadedValue(b, n, file)
    BY <1>1, OffNoBuild DEF Start
  <2> QED BY <1>1, <2>1 DEF StoreIInv, SavedInv
<1>2. StoreIInv => \A b \in Builds :
                 (Start(b) /\ saved.build = b)
                    => \A n \in Names(b) :
                          Registry[b][n].archive => cvars'[n] = saved.values[n]
  BY <1>1
<1> QED BY <1>2, StoreInductive, PTL DEF RestartRestores

\* A completed save writes, for a name this build does not register, exactly the string the
\* run found in the file.
THEOREM UnknownCorrect == StoreSpec => UnknownRoundTrips
<1>1. ASSUME StoreIInv, SaveWrite, NEW n \in AllNames \ Names(build)
      PROVE  /\ n \in DOMAIN file'.table <=> n \in DOMAIN loaded /\ loaded[n] # NotString
             /\ n \in DOMAIN file'.table => file'.table[n] = loaded[n]
  <2>1. /\ Running /\ UnknownInv
        /\ file'.table = SavedTable
    BY <1>1 DEF StoreIInv, SavingInv, SaveWrite
  <2>2. /\ n \in DOMAIN SavedTable <=> n \in DOMAIN unknown
        /\ n \in DOMAIN unknown => SavedTable[n] = unknown[n]
    BY DEF SavedTable, Archived
  <2> QED BY <2>1, <2>2 DEF UnknownInv
<1>2. StoreIInv => (SaveWrite =>
                 \A n \in AllNames \ Names(build) :
                    /\ n \in DOMAIN file'.table <=> n \in DOMAIN loaded /\ loaded[n] # NotString
                    /\ n \in DOMAIN file'.table => file'.table[n] = loaded[n])
  BY <1>1
<1> QED BY <1>2, StoreInductive, PTL DEF UnknownRoundTrips

-----------------------------------------------------------------------------
(* Part two: for any number of clients, connections, lines and sessions, every     *)
(* line is run once and in order and answered by its own result.                   *)

\* The batch is empty unless the main thread is draining it.
BatchInv == main # "drain" => batch = <<>>

\* The switches are Boolean.
FlagsOK == running \in BOOLEAN /\ lineRun \in BOOLEAN /\ quit \in BOOLEAN /\ unbind \in BOOLEAN

\* The rest of DataOK.
DataOK ==
    /\ queue \in Seq(Task) /\ batch \in Seq(Task) /\ executed \in Seq(Task)
    /\ main \in {"loop", "drain", "joinweb", "joinline", "exited"}
    /\ worker \in [LineClients -> {"accepting", "reading", "waiting", "closed"}]
    /\ sent \in [LineClients -> 0..MaxLines]
    /\ promise \in [LineClients -> 0..MaxLines]
    /\ answers \in [LineClients -> Seq(0..MaxLines)]
    /\ session \in [Conns -> (1..MaxSessions) \cup {NoSession}]
    /\ sessions \in 0..MaxSessions /\ messages \in 0..MaxMessages

\* A client that waits lacks one answer, and only the result of its last line can be it.
PromiseInv ==
    \A c \in LineClients :
        /\ promise[c] \in {0, sent[c]}
        /\ sent[c] = Len(answers[c]) + (IF worker[c] = "waiting" THEN 1 ELSE 0)

\* AnswersMatch is not inductive alone: that a late result sets no promise depends on
\* PromiseInv.  LinesOncePerOrder needs that a drain starts on an empty batch.
IInv == DataOK /\ BatchInv /\ PromiseInv /\ LinesOncePerOrder /\ AnswersMatch

-----------------------------------------------------------------------------
(* The stream of tasks.                                                    *)

\* What is taken from the front of the batch and run stays where it was.
LEMMA MoveHead ==
    ASSUME NEW e \in Seq(Task), NEW b \in Seq(Task), NEW q \in Seq(Task), b # <<>>
    PROVE  Append(e, Head(b)) \o Tail(b) \o q = e \o b \o q
<1>1. Head(b) \in Task /\ Tail(b) \in Seq(Task) /\ b = <<Head(b)>> \o Tail(b)
  BY HeadTailProperties, ConcatProperties
<1>2. Append(e, Head(b)) = e \o <<Head(b)>>
  BY <1>1, AppendIsConcat
<1>3. (e \o <<Head(b)>>) \o Tail(b) = e \o (<<Head(b)>> \o Tail(b))
  BY <1>1, ConcatAssociative
<1> QED BY <1>1, <1>2, <1>3

\* Swapping the queue into an empty batch.
LEMMA SwapQueue ==
    ASSUME NEW e \in Seq(Task), NEW q \in Seq(Task)
    PROVE  e \o q \o <<>> = e \o <<>> \o q
  BY ConcatEmptySeq, ConcatProperties

LEMMA AppendQueue ==
    ASSUME NEW e \in Seq(Task), NEW b \in Seq(Task), NEW q \in Seq(Task), NEW t \in Task
    PROVE  e \o b \o Append(q, t) = Append(e \o b \o q, t)
<1>1. e \o b \in Seq(Task) /\ Append(q, t) = q \o <<t>>
  BY ConcatProperties, AppendIsConcat
<1>2. (e \o b) \o (q \o <<t>>) = ((e \o b) \o q) \o <<t>>
  BY <1>1, ConcatAssociative
<1>3. (e \o b) \o q \in Seq(Task)
  BY <1>1, ConcatProperties
<1> QED BY <1>1, <1>2, <1>3, AppendIsConcat

\* Nothing but the arrival of a task changes the stream, and an arrival appends to it.
LEMMA StreamKept ==
    ASSUME DataOK, BatchInv,
           BeginDrain \/ RunLine \/ RunMessage
    PROVE  Stream' = Stream
<1>0. executed \in Seq(Task) /\ batch \in Seq(Task) /\ queue \in Seq(Task)
  BY DEF DataOK
<1>1. CASE BeginDrain
  <2>1. batch = <<>> /\ batch' = queue /\ queue' = <<>> /\ executed' = executed
    BY <1>1 DEF BeginDrain, BatchInv, Undrained
  <2>2. executed \o queue \o <<>> = executed \o <<>> \o queue
    BY <1>0, SwapQueue, Zenon
  <2> QED BY <2>1, <2>2, Zenon DEF Stream
<1>2. CASE RunLine \/ RunMessage
  <2>1. /\ batch # <<>> /\ batch' = Tail(batch) /\ queue' = queue
        /\ executed' = Append(executed, Head(batch))
    BY <1>2 DEF RunLine, RunMessage
  <2>2. Append(executed, Head(batch)) \o Tail(batch) \o queue = executed \o batch \o queue
    BY <1>0, <2>1, MoveHead, Zenon
  <2> QED BY <2>1, <2>2, Zenon DEF Stream
<1> QED BY <1>1, <1>2

LEMMA StreamGrows ==
    ASSUME DataOK, NEW t \in Task, queue' = Append(queue, t), UNCHANGED <<executed, batch>>
    PROVE  Stream' = Append(Stream, t)
<1>1. executed \in Seq(Task) /\ batch \in Seq(Task) /\ queue \in Seq(Task)
  BY DEF DataOK
<1>2. executed \o batch \o Append(queue, t) = Append(executed \o batch \o queue, t)
  BY <1>1, AppendQueue, Zenon
<1> QED BY <1>2, Zenon DEF Stream

LEMMA TaskShape ==
    ASSUME NEW t \in Task
    PROVE  t.n \in Nat /\ (t.kind = "line" => t.who \in LineClients)
<1>1. CASE t \in [kind : {"line"}, who : LineClients, n : 1..MaxLines]
  BY <1>1
<1>2. CASE t \in [kind : {"ws"}, who : Conns, n : 1..MaxSessions]
  BY <1>2
<1> QED BY <1>1, <1>2 DEF Task

LEMMA StreamType ==
    ASSUME DataOK
    PROVE  Stream \in Seq(Task)
  BY ConcatProperties DEF DataOK, Stream

\* What a step appends to the stream leaves what stood there.
LEMMA Appended ==
    ASSUME NEW S, NEW s \in Seq(S), NEW t \in S, NEW r, r = Append(s, t)
    PROVE  /\ DOMAIN s = 1..Len(s) /\ Len(s) \in Nat
           /\ DOMAIN r = 1..(Len(s) + 1)
           /\ r[Len(s) + 1] = t
           /\ \A j \in 1..Len(s) : r[j] = s[j]
  OBVIOUS

-----------------------------------------------------------------------------
(* Steps.                                                                  *)

LEMMA FlagsKept ==
    ASSUME FlagsOK, [Next]_vars
    PROVE  FlagsOK'
<1>1. CASE UNCHANGED vars
  BY <1>1, Zenon DEF FlagsOK, vars, mainVars
<1>2. CASE MainThread
  BY <1>2, Zenon DEF FlagsOK, MainThread, BeginDrain, RunLine, RunMessage, EndDrain, LeaveLoop,
     StopWeb, StopLines, mainVars
<1>3. CASE RequestQuit \/ RequestUnbind
  BY <1>3, Zenon DEF FlagsOK, RequestQuit, RequestUnbind, mainVars
<1>4. ASSUME NEW c \in LineClients,
             LineConnect(c) \/ LineRead(c) \/ LineReply(c) \/ LineTimeout(c) \/ LineClose(c)
      PROVE  FlagsOK'
  BY <1>4, Zenon DEF FlagsOK, LineConnect, LineRead, LineReply, LineTimeout, LineClose, Answer, mainVars
<1>5. ASSUME NEW w \in Conns, WsReady(w) \/ WsData(w) \/ WsClose(w)
      PROVE  FlagsOK'
  BY <1>5, Zenon DEF FlagsOK, WsReady, WsData, WsClose, mainVars
<1> QED BY <1>1, <1>2, <1>3, <1>4, <1>5, Zenon DEF Next

LEMMA InitIInv == Init => IInv
<1> SUFFICES ASSUME Init PROVE IInv
  OBVIOUS
<1>0. /\ queue = <<>> /\ batch = <<>> /\ executed = <<>>
      /\ main = "loop"
      /\ worker = [c \in LineClients |-> "accepting"]
      /\ sent = [c \in LineClients |-> 0]
      /\ promise = [c \in LineClients |-> 0]
      /\ answers = [c \in LineClients |-> <<>>]
      /\ session = [w \in Conns |-> NoSession]
      /\ sessions = 0 /\ messages = 0
  BY Zenon DEF Init
<1>1. DataOK
  BY <1>0, ServerAssumption DEF DataOK
<1>2. BatchInv /\ PromiseInv /\ AnswersMatch
  BY <1>0 DEF BatchInv, PromiseInv, AnswersMatch
<1>3. LinesOncePerOrder
  <2>1. Stream = <<>> /\ DOMAIN Stream = {}
    BY <1>0 DEF Stream
  <2>2. \A c \in LineClients : sent[c] = 0
    BY <1>0
  <2> QED BY <2>1, <2>2 DEF LinesOncePerOrder
<1> QED BY <1>1, <1>2, <1>3 DEF IInv

\* A line read is the next of its client.
LEMMA LineReadIInv ==
    ASSUME IInv, NEW c \in LineClients, LineRead(c)
    PROVE  IInv'
<1> DEFINE n == sent[c] + 1
           t == Line(c, n)
<1>0. /\ DataOK /\ BatchInv /\ PromiseInv /\ LinesOncePerOrder /\ AnswersMatch
      /\ sent[c] \in Nat /\ n \in 1..MaxLines /\ t \in Task
  BY ServerAssumption DEF IInv, DataOK, LineRead, Line, Task
<1>1. /\ sent' = [sent EXCEPT ![c] = n] /\ sent'[c] = n
      /\ queue' = Append(queue, t) /\ UNCHANGED <<executed, batch>>
  BY <1>0 DEF LineRead, DataOK, Line, mainVars
<1>2. DataOK'
  <2>1. queue' \in Seq(Task) /\ sent' \in [LineClients -> 0..MaxLines]
    BY <1>0, <1>1, AppendProperties, ServerAssumption DEF DataOK
  <2>2. /\ promise' \in [LineClients -> 0..MaxLines]
        /\ worker' \in [LineClients -> {"accepting", "reading", "waiting", "closed"}]
    BY <1>0, ServerAssumption DEF DataOK, LineRead
  <2>3. UNCHANGED <<batch, executed, main, answers, session, sessions, messages>>
    BY DEF LineRead, webVars, mainVars
  <2> QED BY <1>0, <2>1, <2>2, <2>3 DEF DataOK
<1>3. BatchInv'
  BY <1>0 DEF BatchInv, LineRead, mainVars
<1>4. PromiseInv'
  BY <1>0, <1>1, SMTT(20) DEF PromiseInv, DataOK, LineRead
<1>5. AnswersMatch'
  BY <1>0 DEF AnswersMatch, LineRead
<1>6. LinesOncePerOrder'
  <2> DEFINE L == Len(Stream)
  <2>1. Stream' = Append(Stream, t)
    BY <1>0, <1>1, StreamGrows
  <2>2. /\ DOMAIN Stream = 1..L /\ L \in Nat /\ DOMAIN Stream' = 1..(L + 1)
        /\ Stream'[L + 1] = t /\ \A j \in 1..L : Stream'[j] = Stream[j]
    BY <1>0, <2>1, StreamType, Appended
  <2>3. \A j \in 1..L : Stream[j] \in Task
    BY <1>0, <2>2, StreamType
  <2>4. t.kind = "line" /\ t.who = c /\ t.n = n
    BY DEF Line
  <2> HIDE DEF L, t
  <2>5. \A d \in LineClients : \A k \in 1..sent'[d] : \E j \in DOMAIN Stream' : Stream'[j] = Line(d, k)
    <3> TAKE d \in LineClients
    <3> TAKE k \in 1..sent'[d]
    <3>1. CASE d = c /\ k = n
      BY <2>2, <3>1 DEF t
    <3>2. CASE ~(d = c /\ k = n)
      <4>1. k \in 1..sent[d]
        BY <1>0, <1>1, <3>2 DEF DataOK
      <4>2. PICK j \in DOMAIN Stream : Stream[j] = Line(d, k)
        BY <1>0, <4>1 DEF LinesOncePerOrder
      <4> QED BY <2>2, <4>2
    <3> QED BY <3>1, <3>2
  <2>6. \A j \in DOMAIN Stream' : Stream'[j].kind = "line" => Stream'[j].n <= sent'[Stream'[j].who]
    <3> SUFFICES ASSUME NEW j \in 1..L, Stream[j].kind = "line"
                 PROVE  Stream[j].n <= sent'[Stream[j].who]
      BY <1>0, <1>1, <2>2, <2>4
    <3>1. Stream[j].who \in LineClients /\ Stream[j].n \in Nat /\ Stream[j].n <= sent[Stream[j].who]
      BY <1>0, <2>2, <2>3, TaskShape DEF LinesOncePerOrder
    <3>2. \A d \in LineClients : sent[d] \in Nat /\ (d # c => sent'[d] = sent[d])
      BY <1>0, <1>1, ServerAssumption DEF DataOK
    <3>3. sent'[c] = sent[c] + 1
      BY <1>1
    <3>4. PICK d \in LineClients : d = Stream[j].who
      BY <3>1
    <3>5. PICK k \in Nat : k = Stream[j].n
      BY <3>1
    <3>6. k <= sent[d]
      BY <3>1, <3>4, <3>5
    <3>7. k <= sent'[d]
      BY <3>2, <3>3, <3>6
    <3> QED BY <3>4, <3>5, <3>7
  <2>7. \A i, j \in DOMAIN Stream' :
           i < j /\ Stream'[i].kind = "line" /\ Stream'[j].kind = "line"
             /\ Stream'[i].who = Stream'[j].who => Stream'[i].n < Stream'[j].n
    <3> SUFFICES ASSUME NEW i \in 1..(L + 1), NEW j \in 1..(L + 1), i < j,
                        Stream'[i].kind = "line", Stream'[j].kind = "line",
                        Stream'[i].who = Stream'[j].who
                 PROVE  Stream'[i].n < Stream'[j].n
      BY <2>2
    <3>1. i \in 1..L /\ Stream'[i] = Stream[i] /\ Stream[i].n \in Nat
          /\ Stream[i].n <= sent[Stream[i].who]
      BY <1>0, <2>2, <2>3, TaskShape DEF LinesOncePerOrder
    <3>2. CASE j = L + 1
      BY <1>0, <2>2, <2>4, <3>1, <3>2
    <3>3. CASE j \in 1..L
      BY <1>0, <2>2, <3>1, <3>3 DEF LinesOncePerOrder
    <3> QED BY <2>2, <3>2, <3>3
  <2> QED BY <2>5, <2>6, <2>7 DEF LinesOncePerOrder
<1> QED BY <1>2, <1>3, <1>4, <1>5, <1>6 DEF IInv

\* The stream and what was sent are all that LinesOncePerOrder looks at.
LEMMA OrderKept ==
    ASSUME LinesOncePerOrder, Stream' = Stream, sent' = sent
    PROVE  LinesOncePerOrder'
  BY Zenon DEF LinesOncePerOrder

\* An answer is the result of the line waited for, or a time-out.
LEMMA AnswerIInv ==
    ASSUME IInv, NEW c \in LineClients, LineReply(c) \/ LineTimeout(c)
    PROVE  IInv'
<1>0. DataOK /\ BatchInv /\ PromiseInv /\ LinesOncePerOrder /\ AnswersMatch
  BY DEF IInv
<1> DEFINE a == IF promise[c] = 0 THEN Timeout ELSE promise[c]
           n == Len(answers[c])
<1>1. /\ worker[c] = "waiting" /\ a \in 0..MaxLines
      /\ answers' = [answers EXCEPT ![c] = Append(answers[c], a)]
      /\ \E w \in {"reading", "closed"} : worker' = [worker EXCEPT ![c] = w]
      /\ UNCHANGED <<queue, promise, executed, sent, session, sessions, messages, main, batch>>
  BY <1>0, ServerAssumption DEF LineReply, LineTimeout, Answer, Timeout, DataOK, webVars, mainVars
<1>2. /\ answers[c] \in Seq(0..MaxLines) /\ n \in Nat
      /\ sent[c] = n + 1 /\ a \in {Timeout, n + 1}
  BY <1>0, <1>1 DEF DataOK, PromiseInv, Timeout
<1>3. /\ answers'[c] = Append(answers[c], a) /\ answers'[c] \in Seq(0..MaxLines)
      /\ Len(answers'[c]) = n + 1 /\ answers'[c][n + 1] = a
      /\ \A k \in 1..n : answers'[c][k] = answers[c][k]
      /\ \A d \in LineClients \ {c} : answers'[d] = answers[d]
  BY <1>0, <1>1, <1>2, AppendProperties DEF DataOK
<1> HIDE DEF a, n
<1>4. DataOK'
  BY <1>0, <1>1, <1>3 DEF DataOK
<1>5. BatchInv'
  BY <1>0, <1>1 DEF BatchInv
<1>6. PromiseInv'
  <2> SUFFICES ASSUME NEW d \in LineClients
               PROVE  /\ promise'[d] \in {0, sent'[d]}
                      /\ sent'[d] = Len(answers'[d]) + (IF worker'[d] = "waiting" THEN 1 ELSE 0)
    BY DEF PromiseInv
  <2>1. worker'[c] # "waiting" /\ (d # c => worker'[d] = worker[d])
    BY <1>0, <1>1 DEF DataOK
  <2>2. CASE d = c
    <3>1. promise[c] \in {0, sent[c]} /\ promise' = promise /\ sent' = sent
      BY <1>0, <1>1 DEF PromiseInv
    <3> QED BY <1>2, <1>3, <2>1, <2>2, <3>1
  <2>3. CASE d # c
    BY <1>0, <1>1, <1>3, <2>1, <2>3 DEF PromiseInv
  <2> QED BY <2>2, <2>3
<1>7. LinesOncePerOrder'
  BY <1>0, <1>1, OrderKept DEF Stream
<1>8. AnswersMatch'
  <2> SUFFICES ASSUME NEW d \in LineClients, NEW k \in 1..Len(answers'[d])
               PROVE  answers'[d][k] \in {k, Timeout}
    BY DEF AnswersMatch
  <2>1. CASE d # c
    BY <1>0, <1>3, <2>1 DEF AnswersMatch
  <2>2. CASE d = c /\ k \in 1..n
    BY <1>0, <1>3, <2>2 DEF AnswersMatch, n
  <2>3. CASE d = c /\ k = n + 1
    BY <1>2, <1>3, <2>3
  <2> QED BY <1>2, <1>3, <2>1, <2>2, <2>3
<1> QED BY <1>4, <1>5, <1>6, <1>7, <1>8 DEF IInv

\* A worker connects or closes.
LEMMA WorkerIInv ==
    ASSUME IInv, NEW c \in LineClients, LineConnect(c) \/ LineClose(c)
    PROVE  IInv'
<1>0. DataOK /\ BatchInv /\ PromiseInv /\ LinesOncePerOrder /\ AnswersMatch
  BY DEF IInv
<1>1. /\ worker[c] # "waiting"
      /\ \E w \in {"reading", "closed"} : worker' = [worker EXCEPT ![c] = w]
      /\ UNCHANGED <<queue, promise, executed, sent, answers, session, sessions, messages, main, batch>>
  BY DEF LineConnect, LineClose, webVars, mainVars
<1>2. DataOK'
  BY <1>0, <1>1 DEF DataOK
<1>3. BatchInv' /\ AnswersMatch'
  BY <1>0, <1>1 DEF BatchInv, AnswersMatch
<1>4. PromiseInv'
  BY <1>0, <1>1 DEF PromiseInv, DataOK
<1>5. LinesOncePerOrder'
  BY <1>0, <1>1, OrderKept DEF Stream
<1> QED BY <1>2, <1>3, <1>4, <1>5 DEF IInv

\* Sessions come and go beside the lines; a message joins the stream.
LEMMA WebIInv ==
    ASSUME IInv, NEW w \in Conns, WsReady(w) \/ WsData(w) \/ WsClose(w)
    PROVE  IInv'
<1>0. DataOK /\ BatchInv /\ PromiseInv /\ LinesOncePerOrder /\ AnswersMatch
  BY DEF IInv
<1>1. UNCHANGED <<promise, executed, sent, answers, worker, main, batch>>
  BY DEF WsReady, WsData, WsClose, lineVars, mainVars
<1>2. BatchInv' /\ PromiseInv' /\ AnswersMatch'
  BY <1>0, <1>1 DEF BatchInv, PromiseInv, AnswersMatch
<1>3. CASE WsReady(w) \/ WsClose(w)
  <2>1. /\ sessions' \in 0..MaxSessions /\ UNCHANGED <<queue, messages>>
        /\ session' \in [Conns -> (1..MaxSessions) \cup {NoSession}]
    <3>1. CASE WsReady(w)
      <4>1. /\ sessions < MaxSessions /\ sessions' = sessions + 1
            /\ session' = [session EXCEPT ![w] = sessions']
            /\ UNCHANGED <<queue, messages>>
        BY <3>1, Zenon DEF WsReady
      <4>2. sessions' \in 1..MaxSessions
        BY <1>0, <4>1, ServerAssumption DEF DataOK
      <4> QED BY <1>0, <4>1, <4>2 DEF DataOK
    <3>2. CASE WsClose(w)
      BY <1>0, <3>2 DEF WsClose, DataOK
    <3> QED BY <1>3, <3>1, <3>2
  <2>2. DataOK'
    BY <1>0, <1>1, <2>1 DEF DataOK
  <2>3. LinesOncePerOrder'
    BY <1>0, <1>1, <2>1, OrderKept DEF Stream
  <2> QED BY <1>2, <2>2, <2>3 DEF IInv
<1>4. CASE WsData(w)
  <2> DEFINE t == [kind |-> "ws", who |-> w, n |-> session[w]]
             L == Len(Stream)
  <2>1. /\ t \in Task /\ t.kind = "ws" /\ queue' = Append(queue, t)
        /\ messages' \in 0..MaxMessages /\ UNCHANGED <<session, sessions>>
    BY <1>0, <1>4, ServerAssumption DEF WsData, DataOK, Task
  <2>2. DataOK'
    BY <1>0, <1>1, <2>1, AppendProperties DEF DataOK
  <2>3. Stream' = Append(Stream, t)
    BY <1>0, <1>1, <2>1, StreamGrows
  <2>4. /\ DOMAIN Stream = 1..L /\ L \in Nat /\ DOMAIN Stream' = 1..(L + 1)
        /\ Stream'[L + 1] = t /\ \A j \in 1..L : Stream'[j] = Stream[j]
    BY <1>0, <2>1, <2>3, StreamType, Appended
  <2> HIDE DEF L, t
  <2>5. sent' = sent /\ \A j \in 1..(L + 1) : Stream'[j].kind = "line" => j \in 1..L
    BY <1>1, <2>1, <2>4
  <2>6. \A c \in LineClients : \A k \in 1..sent'[c] : \E j \in DOMAIN Stream' : Stream'[j] = Line(c, k)
    <3> TAKE c \in LineClients
    <3> TAKE k \in 1..sent'[c]
    <3>1. PICK j \in DOMAIN Stream : Stream[j] = Line(c, k)
      BY <1>0, <2>5 DEF LinesOncePerOrder
    <3> QED BY <2>4, <3>1
  <2>7. \A j \in DOMAIN Stream' : Stream'[j].kind = "line" => Stream'[j].n <= sent'[Stream'[j].who]
    BY <1>0, <2>4, <2>5 DEF LinesOncePerOrder
  <2>8. \A i, j \in DOMAIN Stream' :
           i < j /\ Stream'[i].kind = "line" /\ Stream'[j].kind = "line"
             /\ Stream'[i].who = Stream'[j].who => Stream'[i].n < Stream'[j].n
    <3> SUFFICES ASSUME NEW i \in 1..(L + 1), NEW j \in 1..(L + 1), i < j,
                        Stream'[i].kind = "line", Stream'[j].kind = "line",
                        Stream'[i].who = Stream'[j].who
                 PROVE  Stream'[i].n < Stream'[j].n
      BY <2>4
    <3>1. i \in 1..L /\ j \in 1..L /\ Stream'[i] = Stream[i] /\ Stream'[j] = Stream[j]
      BY <2>4, <2>5
    <3> QED BY <1>0, <2>4, <3>1 DEF LinesOncePerOrder
  <2> QED BY <1>2, <2>2, <2>6, <2>7, <2>8 DEF IInv, LinesOncePerOrder
<1> QED BY <1>3, <1>4

\* The main thread: draining keeps the stream, and a result sets the promise of its own line.
LEMMA MainIInv ==
    ASSUME IInv, MainThread
    PROVE  IInv'
<1>0. DataOK /\ BatchInv /\ PromiseInv /\ LinesOncePerOrder /\ AnswersMatch
  BY DEF IInv
<1>1. UNCHANGED <<sent, answers, worker, sessions, messages>>
  BY DEF MainThread, BeginDrain, RunLine, RunMessage, EndDrain, LeaveLoop, StopWeb, StopLines,
     lineVars, webVars
<1>2. CASE BeginDrain
  <2>1. /\ batch' = queue /\ queue' = <<>> /\ main' = "drain"
        /\ UNCHANGED <<promise, executed, session>>
    BY <1>2 DEF BeginDrain, Undrained, webVars
  <2>2. DataOK'
    BY <1>0, <1>1, <2>1 DEF DataOK
  <2>3. LinesOncePerOrder'
    BY <1>0, <1>1, <1>2, StreamKept, OrderKept
  <2> QED BY <1>0, <1>1, <2>1, <2>2, <2>3 DEF IInv, BatchInv, PromiseInv, AnswersMatch
<1>3. CASE RunLine \/ RunMessage
  <2> DEFINE t == Head(batch)
  <2>1. /\ main = "drain" /\ batch # <<>> /\ batch' = Tail(batch)
        /\ executed' = Append(executed, t)
        /\ \/ promise' = promise
           \/ t.kind = "line" /\ promise' = [promise EXCEPT ![t.who] = Fulfilled(t)]
        /\ UNCHANGED <<queue, main, session>>
    <3>1. CASE RunLine
      BY <3>1, Zenon DEF RunLine, webVars
    <3>2. CASE RunMessage
      BY <3>2 DEF RunMessage, webVars
    <3> QED BY <1>3, <3>1, <3>2
  <2>2. t \in Task /\ batch' \in Seq(Task)
    BY <1>0, <2>1 DEF DataOK
  <2> HIDE DEF t
  <2>3. PromiseInv' /\ promise' \in [LineClients -> 0..MaxLines]
    <3>1. CASE promise' = promise
      BY <1>0, <1>1, <3>1 DEF PromiseInv, DataOK
    <3>2. CASE t.kind = "line" /\ promise' = [promise EXCEPT ![t.who] = Fulfilled(t)]
      <4>1. t.who \in LineClients
        BY <2>2, <3>2 DEF Task
      <4>2. Fulfilled(t) \in {0, sent[t.who]}
        BY <1>0, <4>1 DEF Fulfilled, PromiseInv
      <4> QED BY <1>0, <1>1, <3>2, <4>1, <4>2, ServerAssumption DEF PromiseInv, DataOK
    <3> QED BY <2>1, <3>1, <3>2
  <2>4. DataOK'
    BY <1>0, <1>1, <2>1, <2>2, <2>3, AppendProperties DEF DataOK
  <2>5. LinesOncePerOrder'
    BY <1>0, <1>1, <1>3, StreamKept, OrderKept
  <2> QED BY <1>0, <1>1, <2>1, <2>3, <2>4, <2>5 DEF IInv, BatchInv, AnswersMatch
<1>4. CASE EndDrain \/ LeaveLoop \/ StopWeb \/ StopLines
  <2>1. /\ UNCHANGED <<queue, batch, executed, promise>>
        /\ main' \in {"loop", "joinweb", "joinline", "exited"}
        /\ session' = session \/ session' = [w \in Conns |-> NoSession]
    BY <1>4 DEF EndDrain, LeaveLoop, StopWeb, StopLines, webVars
  <2>2. batch = <<>>
    BY <1>0, <1>4 DEF BatchInv, EndDrain, LeaveLoop, StopWeb, StopLines
  <2>3. DataOK'
    BY <1>0, <1>1, <2>1 DEF DataOK
  <2>4. LinesOncePerOrder'
    BY <1>0, <1>1, <2>1, OrderKept DEF Stream
  <2> QED BY <1>0, <1>1, <2>1, <2>2, <2>3, <2>4 DEF IInv, BatchInv, PromiseInv, AnswersMatch
<1> QED BY <1>2, <1>3, <1>4 DEF MainThread

LEMMA StepIInv ==
    ASSUME IInv, [Next]_vars
    PROVE  IInv'
<1>1. CASE UNCHANGED vars \/ RequestQuit \/ RequestUnbind
  <2>1. UNCHANGED <<queue, batch, executed, promise, main, worker, sent, answers,
                    session, sessions, messages>>
    BY <1>1 DEF vars, RequestQuit, RequestUnbind, webVars, lineVars, mainVars
  <2>2. LinesOncePerOrder'
    BY <2>1, OrderKept DEF IInv, Stream
  <2> QED BY <2>1, <2>2 DEF IInv, DataOK, BatchInv, PromiseInv, AnswersMatch
<1> QED BY <1>1, MainIInv, LineReadIInv, AnswerIInv, WorkerIInv, WebIInv DEF Next

-----------------------------------------------------------------------------
(* Theorems.                                                               *)

LEMMA Inductive == Spec => []IInv
  BY InitIInv, StepIInv, PTL DEF Spec

\* The server's state keeps its types, for any number of clients and sessions.
THEOREM TypeCorrect == Spec => []TypeOK
<1>1. Init => FlagsOK
  BY Zenon DEF Init, FlagsOK
<1>2. FlagsOK /\ [Next]_vars => FlagsOK'
  BY FlagsKept
<1>3. FlagsOK /\ IInv => TypeOK
  BY Zenon DEF TypeOK, FlagsOK, DataOK, IInv
<1> QED BY <1>1, <1>2, <1>3, Inductive, PTL DEF Spec

\* Lines run once, in the order of their client, and none is lost, whatever the interleaving of
\* workers, sessions and drains.
THEOREM LinesCorrect == Spec => []LinesOncePerOrder
<1>1. IInv => LinesOncePerOrder
  BY DEF IInv
<1> QED BY <1>1, Inductive, PTL

\* A late result never answers a later line.
THEOREM AnswersCorrect == Spec => []AnswersMatch
<1>1. IInv => AnswersMatch
  BY DEF IInv
<1> QED BY <1>1, Inductive, PTL

=============================================================================
