----------------------------- MODULE CvarStore -----------------------------
(***************************************************************************)
(* The console variables of engine/cvar/Console.cpp and their file         *)
(* cvars.toml across runs: a build registers its variables, loads the      *)
(* file, lets commands and the engine set them, and saves on cvars.reset   *)
(* and at exit.  The file outlives the process: it may be left truncated   *)
(* by a crash, edited by hand between runs, and read by another build.     *)
(*                                                                         *)
(* All of it runs on the main thread; a step is one call, except that a    *)
(* save is cut where the file is already truncated but not yet written.    *)
(***************************************************************************)
EXTENDS Integers, FiniteSets

CONSTANTS
    Registry,   \* build |-> (name |-> metadata), what RegisterCoreCvars registers
    Texts,      \* the values a cvar or a key of the file can have
    NumberOf,   \* text |-> the number from_chars reads in it (0 when it reads none)
    TextOf,     \* number |-> the text to_string or fmt::format prints
    TrueTexts,  \* "1", "true", "on", "yes"
    One, Zero,  \* "1", "0"
    Rejected,   \* not a text: the value was refused
    NotString,  \* not a text: a key whose TOML value is a number, boolean, array, table
    Files,      \* what a user may put in place of cvars.toml between two runs
    Off         \* no engine is running

Builds   == DOMAIN Registry
Names(b) == DOMAIN Registry[b]
AllNames == UNION {Names(b) : b \in Builds}
Kinds    == {"enum", "bool", "number", "text"}

\* A name of the file that maps to NotString is there, but no text.
Tables == UNION {[S -> Texts \cup {NotString}] : S \in SUBSET AllNames}
NoKeys == [n \in {} |-> Zero]

ASSUME CvarAssumption ==
    /\ \A b \in Builds : \A n \in Names(b) :
          LET m == Registry[b][n]
          IN  /\ m.kind \in Kinds
              /\ m.default \in Texts
              /\ m.allowed \subseteq Texts
              /\ m.min \in Int /\ m.max \in Int /\ m.min <= m.max
              /\ m.archive \in BOOLEAN /\ m.readonly \in BOOLEAN
    /\ NumberOf \in [Texts -> Int]
    /\ \A b \in Builds : \A n \in Names(b) :
          \A k \in Registry[b][n].min..Registry[b][n].max :
              /\ k \in DOMAIN TextOf
              /\ TextOf[k] \in Texts
              /\ NumberOf[TextOf[k]] = k
    /\ One \in TrueTexts /\ TrueTexts \subseteq Texts
    /\ Zero \in Texts \ TrueTexts
    /\ Rejected \notin Texts
    /\ NotString \notin Texts
    /\ Off \notin Builds
    /\ \A f \in Files : f.state \in {"missing", "corrupt", "ok"} /\ f.table \in Tables
    /\ \A f \in Files : f.state # "ok" => f.table = NoKeys

VARIABLES
    build,    \* the running build, or Off
    cvars,    \* the registry's values: name |-> text
    unknown,  \* unknown_cvars_
    file,     \* cvars.toml on disk
    saving,   \* "no", or the stage of SaveCvarsToml: "open", "write"
    quitting, \* the main loop is over, the exit save is the last call
    loaded,   \* history: the keys this run found in the file
    saved     \* history: the values of the last completed save, while the file is untouched

storeVars == <<build, cvars, unknown, file, saving, quitting, loaded, saved>>

Running  == build # Off
Meta(n)  == Registry[build][n]
NoSave   == [build |-> Off, values |-> NoKeys]

-----------------------------------------------------------------------------
Clamp(m, k) == IF k < m.min THEN m.min ELSE IF k > m.max THEN m.max ELSE k

\* The text ApplySet stores for a value it is given, or Rejected.
Normal(m, t) ==
    CASE m.kind = "enum"   -> IF t \in m.allowed THEN t ELSE Rejected
      [] m.kind = "bool"   -> IF t \in TrueTexts THEN One ELSE Zero
      [] m.kind = "number" -> TextOf[Clamp(m, NumberOf[t])]
      [] m.kind = "text"   -> t

\* SetCVarOverride: a rejected value leaves the cvar as it is.
Applied(m, old, t) == IF Normal(m, t) = Rejected THEN old ELSE Normal(m, t)

\* The keys LoadCvarsToml keeps: those with a string value (none of a file it cannot parse).
StringKeys(f) == {n \in DOMAIN f.table : f.table[n] # NotString}

\* Mutated form of LoadedValue: the text of the file is stored as it is.
LoadedValue_Raw(b, n, f) ==
    IF n \in StringKeys(f) THEN f.table[n] ELSE Registry[b][n].default

\* Mutated form of LoadedValue: a read-only cvar is not written through.
LoadedValue_HonoursReadonly(b, n, f) ==
    IF n \in StringKeys(f) /\ ~Registry[b][n].readonly
    THEN Applied(Registry[b][n], Registry[b][n].default, f.table[n])
    ELSE Registry[b][n].default

\* What a registered cvar holds after the load, which starts from the defaults.
LoadedValue(b, n, f) ==
    IF n \in StringKeys(f)
    THEN Applied(Registry[b][n], Registry[b][n].default, f.table[n])
    ELSE Registry[b][n].default

\* main: RegisterCoreCvars, then LoadCvarsToml, whose result is not looked at: a file that
\* does not parse leaves the defaults, and no unknown keys, in place.
Start(b) ==
    /\ ~Running
    /\ build' = b
    /\ cvars' = [n \in Names(b) |-> LoadedValue(b, n, file)]
    /\ unknown' = [n \in StringKeys(file) \ Names(b) |-> file.table[n]]
    /\ loaded' = file.table
    /\ UNCHANGED <<file, saving, quitting, saved>>

Idle == Running /\ saving = "no"

\* A console line: ApplySet refuses a read-only cvar.
SetCVar(n, t) ==
    /\ Idle
    /\ ~Meta(n).readonly
    /\ Normal(Meta(n), t) # Rejected
    /\ cvars' = [cvars EXCEPT ![n] = Normal(Meta(n), t)]
    /\ UNCHANGED <<build, unknown, file, saving, quitting, loaded, saved>>

\* The engine's own set, which also reaches read-only cvars (--remote-password, fly-cam).
SetCVarOverride(n, t) ==
    /\ Idle
    /\ Meta(n).readonly
    /\ cvars' = [cvars EXCEPT ![n] = Applied(Meta(n), @, t)]
    /\ UNCHANGED <<build, unknown, file, saving, quitting, loaded, saved>>

\* The command cvars.reset: every cvar that is not read-only is SET to its default text,
\* then the file is saved.
CvarsReset ==
    /\ Idle
    /\ cvars' = [n \in Names(build) |->
                    IF Meta(n).readonly THEN cvars[n]
                    ELSE Applied(Meta(n), cvars[n], Meta(n).default)]
    /\ saving' = "open"
    /\ UNCHANGED <<build, unknown, file, quitting, loaded, saved>>

\* The loop ends and main reaches its last call.
Quit ==
    /\ Idle
    /\ saving' = "open"
    /\ quitting' = TRUE
    /\ UNCHANGED <<build, cvars, unknown, file, loaded, saved>>

-----------------------------------------------------------------------------
\* The cvars a save writes.
Archived == {n \in Names(build) : Meta(n).archive /\ cvars[n] # Meta(n).default}

\* Mutated form of SavedTable: the unknown keys are forgotten.
SavedTable_KnownOnly == [n \in Archived |-> cvars[n]]

\* The [cvars] table: the archived values, then the unknown keys.
SavedTable ==
    [n \in Archived \cup DOMAIN unknown |->
        IF n \in DOMAIN unknown THEN unknown[n] ELSE cvars[n]]

\* After SaveCvarsToml the exit save ends the process, the one of cvars.reset does not.
SaveReturns ==
    /\ saving' = "no"
    /\ quitting' = FALSE
    /\ IF quitting
       THEN build' = Off /\ cvars' = NoKeys /\ unknown' = NoKeys /\ loaded' = NoKeys
       ELSE UNCHANGED <<build, cvars, unknown, loaded>>

\* Opening the stream truncates the file...
SaveOpen ==
    /\ saving = "open"
    /\ saving' = "write"
    /\ file' = [state |-> "ok", table |-> NoKeys]
    /\ saved' = NoSave
    /\ UNCHANGED <<build, cvars, unknown, quitting, loaded>>

\* ...or fails, which only the return value tells.
SaveFails ==
    /\ saving = "open"
    /\ SaveReturns
    /\ UNCHANGED <<file, saved>>

SaveWrite ==
    /\ saving = "write"
    /\ file' = [state |-> "ok", table |-> SavedTable]
    /\ saved' = [build |-> build, values |-> cvars]
    /\ SaveReturns

-----------------------------------------------------------------------------
\* The process dies.  In the middle of a save part of the text reached the disk: some of the
\* keys, or something that does not parse.
Crash ==
    /\ Running
    /\ IF saving = "write"
       THEN \/ file' = [state |-> "corrupt", table |-> NoKeys]
            \/ \E S \in SUBSET DOMAIN SavedTable :
                  file' = [state |-> "ok", table |-> [n \in S |-> SavedTable[n]]]
       ELSE UNCHANGED file
    /\ build' = Off
    /\ cvars' = NoKeys
    /\ unknown' = NoKeys
    /\ loaded' = NoKeys
    /\ saving' = "no"
    /\ quitting' = FALSE
    /\ UNCHANGED saved

\* The user edits, replaces or deletes the file while no engine runs.
EditFile(f) ==
    /\ ~Running
    /\ file' = f
    /\ saved' = NoSave
    /\ UNCHANGED <<build, cvars, unknown, saving, quitting, loaded>>

-----------------------------------------------------------------------------
StoreInit ==
    /\ build = Off
    /\ cvars = NoKeys
    /\ unknown = NoKeys
    /\ file = [state |-> "missing", table |-> NoKeys]
    /\ saving = "no"
    /\ quitting = FALSE
    /\ loaded = NoKeys
    /\ saved = NoSave

StoreNext ==
    \/ \E b \in Builds : Start(b)
    \/ Running /\ \E n \in Names(build), t \in Texts : SetCVar(n, t)
    \/ Running /\ \E n \in Names(build), t \in Texts : SetCVarOverride(n, t)
    \/ CvarsReset
    \/ Quit
    \/ SaveOpen
    \/ SaveFails
    \/ SaveWrite
    \/ Crash
    \/ \E f \in Files : EditFile(f)

StoreSpec == StoreInit /\ [][StoreNext]_storeVars

-----------------------------------------------------------------------------
(***************************************************************************)
(* Properties.                                                             *)
(***************************************************************************)

\* The variables keep their types.
StoreTypeOK ==
    /\ build \in Builds \cup {Off}
    /\ DOMAIN cvars = (IF Running THEN Names(build) ELSE {})
    /\ \A n \in DOMAIN cvars : cvars[n] \in Texts
    /\ DOMAIN unknown \subseteq AllNames
    /\ \A n \in DOMAIN unknown : unknown[n] \in Texts
    /\ file.state \in {"missing", "corrupt", "ok"}
    /\ file.table \in Tables
    /\ saving \in {"no", "open", "write"}
    /\ quitting \in BOOLEAN

\* Whatever the file, a console line or a reset brought in, a cvar holds its default or a
\* text ApplySet would store again unchanged: validation cannot be by-passed by a load.
ValuesNormal ==
    \A n \in DOMAIN cvars :
        cvars[n] = Meta(n).default \/ Normal(Meta(n), cvars[n]) = cvars[n]

\* A save is restored exactly: when a build starts on the file a completed save of its own
\* left, every archived cvar, the read-only password hash included, has the value it had.
RestartRestores ==
    [][\A b \in Builds :
          (Start(b) /\ saved.build = b)
             => \A n \in Names(b) :
                   Registry[b][n].archive => cvars'[n] = saved.values[n]]_storeVars

\* "Unknown cvars are preserved": what a completed save writes for a name this build does not
\* register is what the run found, however many sets, resets and saves came in between, and
\* nothing else.  (Keys with a string value; the others are UnknownNeverDropped's.)
UnknownRoundTrips ==
    [][SaveWrite =>
          \A n \in AllNames \ Names(build) :
              /\ n \in DOMAIN file'.table <=> n \in DOMAIN loaded /\ loaded[n] # NotString
              /\ n \in DOMAIN file'.table => file'.table[n] = loaded[n]]_storeVars

\* ADR-001: "Unknown cvars are preserved, not discarded".  No completed save drops a key the
\* running build does not know.
UnknownNeverDropped ==
    [][SaveWrite => DOMAIN loaded \ Names(build) \subseteq DOMAIN file'.table]_storeVars

\* ADR-003: "cvars.toml corrupted: Engine refuses to start".
CorruptFileRefused == [][\A b \in Builds : Start(b) => file.state # "corrupt"]_storeVars

\* cvars.reset: "Reset all user-tunable cvars to factory defaults and save cvars.toml", and a
\* save writes "every CVAR_ARCHIVE cvar whose value differs from default": after a reset no
\* user-tunable cvar is left to write.
ResetLeavesDefaults ==
    [][CvarsReset => \A n \in Names(build) :
                        ~Meta(n).readonly => cvars'[n] = Meta(n).default]_storeVars
=============================================================================
