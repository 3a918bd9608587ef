--------------------------- MODULE MCKeybindings ---------------------------
(* Bounds for Keybindings: two chords, two targets and an empty one, contents with
   a duplicate and with a syntax error, and as many writes as an edit of the user and one
   of the engine need to overlap. *)
EXTENDS Keybindings

B(c, t) == [chord |-> c, target |-> t]

MCBlank    == {b \in Binding : b.target = ""}
MCDefaults == <<B("Esc", "quit")>>
MCEdits    == {[state |-> "ok", binds |-> <<B("F3", ""), B("F3", "toggle"), B("F3", "quit")>>],
               [state |-> "broken", binds |-> <<>>]}
=============================================================================
