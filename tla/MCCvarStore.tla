---------------------------- MODULE MCCvarStore ----------------------------
(* Bounds for CvarStore: an old build and a new one that adds a value to an
   enum, a read-only archived hash and a boolean that is not archived; a float
   whose default "1.0" prints as "1"; files a user, or a later build, left. *)
EXTENDS CvarStore, TLC

Cvar(kind, default, allowed, archive, readonly) ==
    [kind |-> kind, default |-> default, allowed |-> allowed, min |-> 0, max |-> 1,
     archive |-> archive, readonly |-> readonly]

Scale      == Cvar("number", "1.0", {}, TRUE, FALSE)
Mode(vals) == Cvar("enum", "A", vals, TRUE, FALSE)
Hash       == Cvar("text", "0", {}, TRUE, TRUE)
Editor     == Cvar("bool", "0", {}, FALSE, FALSE)

MCRegistry ==
    "old" :> ("scale" :> Scale @@ "mode" :> Mode({"A", "0"})) @@
    "new" :> ("scale" :> Scale @@ "mode" :> Mode({"A", "0", "1"})
              @@ "hash" :> Hash @@ "editor" :> Editor)

MCTexts     == {"0", "1", "1.0", "9", "A"}
MCTextOf    == 0 :> "0" @@ 1 :> "1"
MCNumberOf  == "0" :> 0 @@ "1" :> 1 @@ "1.0" :> 1 @@ "9" :> 9 @@ "A" :> 0
MCTrueTexts == {"1"}
MCOne       == "1"
MCZero      == "0"
MCNotString == "a TOML value of another type"
MCRejected  == "rejected"
MCOff       == "off"

Table(f) == [state |-> "ok", table |-> f]
MCFiles  ==
    {[state |-> s, table |-> NoKeys] : s \in {"missing", "corrupt"}}
    \cup {Table("scale" :> "9" @@ "mode" :> "1"),
          Table("hash" :> "9" @@ "editor" :> "1"),
          Table("hash" :> MCNotString @@ "mode" :> MCNotString)}
=============================================================================
