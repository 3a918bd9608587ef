---------------------------- MODULE Keybindings ----------------------------
(***************************************************************************)
(* engine/platform/Keybindings.cpp and the commands of main.cpp that edit  *)
(* the table: bindings live in memory and in keybindings.toml, which the   *)
(* engine reloads when its modification time changes and rewrites on every *)
(* bind, unbind and reset, while a text editor writes the same file.       *)
(* (The two never write at the same instant; each write gets a new time.)  *)
(*                                                                         *)
(* The engine is one thread, the editor another process; a step is one     *)
(* access of either to the file, so that they interleave between the       *)
(* engine's stat, parse and second stat, and between truncating and        *)
(* writing.  A chord is a key with its modifiers.                          *)
(***************************************************************************)
EXTENDS Integers, Sequences, FiniteSets, SequencesExt

CONSTANTS
    Chords,    \* (key, modifiers) pairs
    Targets,   \* what a chord can be bound to
    Blank,     \* the bindings whose key or target is empty
    Defaults,  \* DefaultBindings()
    Edits,     \* the contents a user may save: [state, binds]
    MaxWrites  \* bound on the writes of a behaviour, so that times are finite

Binding == [chord : Chords, target : Targets]

ASSUME KeybindingAssumption ==
    /\ Blank \subseteq Binding
    /\ Defaults \in Seq(Binding)
    /\ \A j, k \in 1..Len(Defaults) : Defaults[j].chord = Defaults[k].chord => j = k
    /\ \A e \in Edits : e.state \in {"ok", "broken"} /\ e.binds \in Seq(Binding)
    /\ MaxWrites \in Nat

VARIABLES
    running,    \* an engine runs
    bindings,   \* bindings_
    lastWrite,  \* last_write_
    file,       \* keybindings.toml: state, binds, mtime (0: no file)
    pc,         \* where the main thread is: "frame", "parse", "stat", "truncate", "write"
    reloaded,   \* what this frame's CheckHotReload returns, true before its Load is done
    loadedOk,   \* what the last Load returned
    editing,    \* the editor has truncated the file and not yet written it
    own,        \* history: the file holds what the engine last wrote
    edited      \* history: bindings_ was changed, and neither saved nor loaded since

vars == <<running, bindings, lastWrite, file, pc, reloaded, loadedOk, editing, own, edited>>

Has(s, c)    == \E k \in 1..Len(s) : s[k].chord = c
Replace(s, b) == [k \in 1..Len(s) |-> IF s[k].chord = b.chord THEN b ELSE s[k]]

\* The elements of s at the positions K, in order; Nth(K, n) is the n-th of them.
Nth(K, n)      == CHOOSE k \in K : Cardinality({j \in K : j <= k}) = n
Selected(s, K) == [n \in 1..Cardinality(K) |-> s[Nth(K, n)]]

\* The bindings of s that Load does not skip: an empty key or target is passed over.
Usable(s) == {k \in 1..Len(s) : s[k] \notin Blank}

\* Mutated form of KeepFirst: duplicates are kept.
KeepFirst_All(s) == Selected(s, Usable(s))

\* "Conflict policy: keep first": the table Load builds from the entries of a file.
KeepFirst(s) ==
    Selected(s, {k \in Usable(s) : \A j \in Usable(s) : s[j].chord = s[k].chord => k <= j})

Truncated == [state |-> "ok", binds |-> <<>>, mtime |-> file.mtime + 1]
CanWrite  == file.mtime < MaxWrites

\* MtimeOf: 0 when there is no file.
MtimeOf == IF file.state = "missing" THEN 0 ELSE file.mtime

-----------------------------------------------------------------------------
(* Start, hot reload.                                                      *)

\* LoadOrCreateDefaults of a new process.
Start ==
    /\ ~running
    /\ running' = TRUE
    /\ lastWrite' = 0
    /\ edited' = (file.state = "missing")
    /\ IF edited'
       THEN bindings' = Defaults /\ pc' = "truncate"
       ELSE bindings' = <<>> /\ pc' = "parse"
    /\ reloaded' = FALSE
    /\ UNCHANGED <<file, loadedOk, editing, own>>

\* CheckHotReload, at the top of every frame: the file's time is compared with last_write_.
CheckHotReload ==
    /\ running
    /\ pc = "frame"
    /\ reloaded' = (MtimeOf # 0 /\ MtimeOf # lastWrite)
    /\ pc' = IF reloaded' THEN "parse" ELSE "frame"
    /\ UNCHANGED <<running, bindings, lastWrite, file, loadedOk, editing, own, edited>>

\* Load: a file that does not parse leaves bindings_ and last_write_ alone.
LoadParse ==
    /\ pc = "parse"
    /\ loadedOk' = (file.state = "ok")
    /\ bindings' = IF loadedOk' THEN KeepFirst(file.binds) ELSE bindings
    /\ edited' = (edited /\ ~loadedOk')
    /\ pc' = IF loadedOk' THEN "stat" ELSE "frame"
    /\ UNCHANGED <<running, lastWrite, file, reloaded, editing, own>>

\* The time stored is read after the parse.
LoadStat ==
    /\ pc = "stat"
    /\ lastWrite' = MtimeOf
    /\ pc' = "frame"
    /\ UNCHANGED <<running, bindings, file, reloaded, loadedOk, editing, own, edited>>

\* The command bind_reload.
BindReload ==
    /\ running
    /\ pc = "frame"
    /\ pc' = "parse"
    /\ reloaded' = FALSE
    /\ UNCHANGED <<running, bindings, lastWrite, file, loadedOk, editing, own, edited>>

-----------------------------------------------------------------------------
(* The commands that edit the table; each ends in Save.                    *)

Edit(table) ==
    /\ running
    /\ pc = "frame"
    /\ bindings' = table
    /\ pc' = "truncate"
    /\ edited' = TRUE
    /\ UNCHANGED <<running, lastWrite, file, reloaded, loadedOk, editing, own>>

\* Set replaces the chord's target, or appends the binding.
Bound(b) == IF Has(bindings, b.chord) THEN Replace(bindings, b) ELSE Append(bindings, b)

Bind(b)            == Edit(Bound(b))
Unbind(c)          == Edit(Selected(bindings, {k \in 1..Len(bindings) : bindings[k].chord # c}))
KeybindingsReset   == Edit(Defaults)

SaveTruncate ==
    /\ pc = "truncate"
    /\ CanWrite
    /\ ~editing
    /\ file' = Truncated
    /\ own' = FALSE
    /\ pc' = "write"
    /\ UNCHANGED <<running, bindings, lastWrite, reloaded, loadedOk, editing, edited>>

\* The stream does not open; only the return value, which nobody reads, tells.
SaveFails ==
    /\ pc = "truncate"
    /\ pc' = "frame"
    /\ UNCHANGED <<running, bindings, lastWrite, file, reloaded, loadedOk, editing, own, edited>>

\* Mutated form of Written: the last binding of the table is left out.
Written_DropsLast == IF bindings = <<>> THEN <<>> ELSE Front(bindings)

Written == bindings

\* The stream is flushed.  last_write_ is not updated: the next frame reloads this very file.
SaveWrite ==
    /\ pc = "write"
    /\ file' = [state |-> "ok", binds |-> Written, mtime |-> file.mtime + 1]
    /\ own' = TRUE
    /\ edited' = FALSE
    /\ pc' = "frame"
    /\ UNCHANGED <<running, bindings, lastWrite, reloaded, loadedOk, editing>>

\* The engine quits or dies; a save under way leaves the truncated file.
Stop ==
    /\ running
    /\ running' = FALSE
    /\ bindings' = <<>>
    /\ pc' = "frame"
    /\ reloaded' = FALSE
    /\ edited' = FALSE
    /\ UNCHANGED <<lastWrite, file, loadedOk, editing, own>>

-----------------------------------------------------------------------------
(* The user's editor.                                                      *)

EditorTruncate ==
    /\ ~editing
    /\ pc # "write"
    /\ CanWrite
    /\ file' = Truncated
    /\ editing' = TRUE
    /\ own' = FALSE
    /\ UNCHANGED <<running, bindings, lastWrite, pc, reloaded, loadedOk, edited>>

EditorWrite(e) ==
    /\ editing
    /\ file' = [state |-> e.state, binds |-> e.binds, mtime |-> file.mtime + 1]
    /\ editing' = FALSE
    /\ own' = FALSE
    /\ UNCHANGED <<running, bindings, lastWrite, pc, reloaded, loadedOk, edited>>

\* The file is deleted; its name keeps counting writes, so that no later time repeats.
Delete ==
    /\ ~editing
    /\ pc # "write"
    /\ file.state # "missing"
    /\ file' = [file EXCEPT !.state = "missing", !.binds = <<>>]
    /\ own' = FALSE
    /\ UNCHANGED <<running, bindings, lastWrite, pc, reloaded, loadedOk, editing, edited>>

-----------------------------------------------------------------------------
Init ==
    /\ running = FALSE
    /\ bindings = <<>>
    /\ lastWrite = 0
    /\ file = [state |-> "missing", binds |-> <<>>, mtime |-> 0]
    /\ pc = "frame"
    /\ reloaded = FALSE
    /\ loadedOk = FALSE
    /\ editing = FALSE
    /\ own = FALSE
    /\ edited = FALSE

Next ==
    \/ Start
    \/ CheckHotReload
    \/ LoadParse
    \/ LoadStat
    \/ BindReload
    \/ \E b \in Binding : Bind(b)
    \/ \E c \in Chords : Unbind(c)
    \/ KeybindingsReset
    \/ SaveTruncate
    \/ SaveFails
    \/ SaveWrite
    \/ Stop
    \/ EditorTruncate
    \/ \E e \in Edits : EditorWrite(e)
    \/ Delete

Spec == Init /\ [][Next]_vars

-----------------------------------------------------------------------------
(***************************************************************************)
(* Properties.                                                             *)
(***************************************************************************)

\* The variables keep their types, and no time is recorded that the file never had.
TypeOK ==
    /\ running \in BOOLEAN /\ reloaded \in BOOLEAN /\ loadedOk \in BOOLEAN
    /\ editing \in BOOLEAN /\ own \in BOOLEAN /\ edited \in BOOLEAN
    /\ bindings \in Seq(Binding)
    /\ file.state \in {"missing", "ok", "broken"} /\ file.binds \in Seq(Binding)
    /\ lastWrite \in 0..file.mtime
    /\ pc \in {"frame", "parse", "stat", "truncate", "write"}

\* A chord is bound at most once, whatever the file held and the commands did: no binding is
\* shadowed, so Dispatch, bind and unbind all mean the same entry.
NoShadowing ==
    \A j, k \in 1..Len(bindings) : bindings[j].chord = bindings[k].chord => j = k

\* What the engine saved is what it would load: while the file is the engine's own, reloading
\* it (which the next frame does, the save not having updated last_write_) or restarting on
\* it gives back the table in memory, but for the bindings that Load skips.
OwnSavesStick ==
    (own /\ ~edited /\ running /\ pc = "frame")
        => KeepFirst(file.binds) = Selected(bindings, Usable(bindings))

\* Keybindings.h: "reload if the file's mtime changed".  When the engine sees nothing to
\* reload, and it has not itself changed the table since, memory agrees with the file.
NoMissedEdit ==
    (running /\ pc = "frame" /\ ~edited /\ file.state = "ok" /\ file.mtime = lastWrite)
        => KeepFirst(file.binds) = bindings

\* Keybindings.h: "true if reloaded".
ReportsReload == (pc = "frame" /\ reloaded) => loadedOk
=============================================================================
