------------------------------- MODULE WebHud -------------------------------
(***************************************************************************)
(* The web console as a replica of the cvar registry: engine/web/console.js *)
(* and the message handler of engine/console/ConsoleServer.cpp.            *)
(*                                                                         *)
(* A page keeps a copy of every cvar and a control for it.  It fills the   *)
(* copy with one list when its WebSocket opens, subscribes to changes in a *)
(* second message, writes its own edits into the copy before the engine    *)
(* has seen them, and merges results and events as they arrive.  A control *)
(* is not rebuilt from the copy while its user edits it.                   *)
(*                                                                         *)
(* Each direction of a WebSocket is a queue.  A frame that reached the     *)
(* engine before the connection broke is still a task of Console::tasks_;  *)
(* it is then old, and its reply is dropped, or reaches the page's next    *)
(* connection when civetweb gives that one the same structure.             *)
(***************************************************************************)
EXTENDS Integers, Sequences, FiniteSets, SequencesExt

CONSTANTS
    Pages,       \* open tabs
    Cvars,       \* the cvars of the deck shown
    DeckCvars,   \* of these, lighting.mode and gi.denoiser: a change redraws the deck
    Values,
    Offered,     \* of each cvar: the values its control can be set to
    Accepted,    \* of each cvar and value: what ApplySet stores, or Refused
    Defaults,
    Presets,     \* the quality presets: sequences of [cvar, value], lighting.mode first
    Refused,
    Unlisted,    \* what a page holds of a cvar it has not been told of
    Nobody,
    MaxEdits,    \* bound on the edits and console lines of the pages
    MaxOthers,   \* bound on the changes by keys, TCP clients and the fly camera
    MaxOpens     \* bound on the connections

ASSUME HudAssumption ==
    /\ Cvars # {} /\ IsFiniteSet(Cvars)
    /\ DeckCvars \subseteq Cvars
    /\ Offered \in [Cvars -> SUBSET Values]
    /\ Accepted \in [Cvars -> [Values -> Values \cup {Refused}]]
    /\ Defaults \in [Cvars -> Values]
    /\ \A s \in Presets :
          /\ s \in Seq([cvar : Cvars, value : Values])
          /\ s # <<>> /\ {i \in DOMAIN s : s[i].cvar \in DeckCvars} = {1}
    /\ Refused \notin Values /\ Unlisted \notin Values /\ Nobody \notin Pages \cup Cvars
    /\ MaxEdits \in Nat /\ MaxOthers \in Nat /\ MaxOpens \in Nat

VARIABLES
    value,       \* the registry
    served,      \* pages with an entry in ws_clients
    subscribed,  \* of these, the ones whose topics contain "cvar"
    up,          \* of each page: messages the engine has not handled, oldest first
    down,        \* of each page: messages the page has not handled
    live,        \* pages whose socket is open, as far as they know
    view,        \* of each page: state.cvars
    shown,       \* of each page: the value its control for a cvar displays
    editing,     \* of each page: state.editName for 1500 ms, then Nobody
    edited,      \* history: the cvars a page's user has edited
    missed,      \* history: cvars that changed while a page was served and not subscribed
    edits, others, opens

engineVars == <<value, served, subscribed>>
pageVars   == <<live, view, shown, editing, edited>>
counters   == <<edits, others, opens>>
vars       == <<engineVars, pageVars, counters, up, down, missed>>

Copies == [Cvars -> Values \cup {Unlisted}]
Ups    == [type : {"list", "subscribe"}, old : BOOLEAN]
            \cup [type : {"set", "exec"}, cvar : Cvars, value : Values, old : BOOLEAN]
Downs  == [type : {"cvars"}, cvars : [Cvars -> Values]]
            \cup [type : {"result", "event"}, cvar : Cvars, value : Values]

-----------------------------------------------------------------------------
(* The engine's main thread.                                               *)

\* ApplySet: what the registry holds of c after it was set to v.
ApplySet(c, v) == IF Accepted[c][v] = Refused THEN value[c] ELSE Accepted[c][v]

\* Mutated form of Event: the sink hears of a change before it is stored.
Event_Early(c, v) ==
    IF Accepted[c][v] = Refused THEN <<>>
    ELSE <<[type |-> "event", cvar |-> c, value |-> v]>>

\* The event the change sink broadcasts; a refused value changes nothing and sends none.
Event(c, v) ==
    IF Accepted[c][v] = Refused THEN <<>>
    ELSE <<[type |-> "event", cvar |-> c, value |-> ApplySet(c, v)]>>

Broadcast(event) ==
    [p \in Pages |-> IF p \in subscribed THEN down[p] \o event ELSE down[p]]

\* The served pages that are not told of a change of c.
Missing(c, v) ==
    [p \in Pages |-> IF p \in served \ subscribed /\ ApplySet(c, v) # value[c]
                     THEN missed[p] \cup {c} ELSE missed[p]]

\* The reply to a task is for the page's connection now, if it is an old one's only by reuse.
Heard(p, m) == IF ~m.old THEN {TRUE} ELSE IF p \in served THEN BOOLEAN ELSE {FALSE}

HandleList(p, heard) ==
    /\ down' = IF heard THEN [down EXCEPT ![p] = Append(@, [type |-> "cvars", cvars |-> value])]
               ELSE down
    /\ missed' = IF heard THEN [missed EXCEPT ![p] = {}] ELSE missed
    /\ UNCHANGED <<value, subscribed>>

HandleSubscribe(p, heard) ==
    /\ subscribed' = IF heard THEN subscribed \cup {p} ELSE subscribed
    /\ UNCHANGED <<value, down, missed>>

\* Mutated form of Reply: the result repeats the value that was asked for.
Reply_Asked(c, v) == <<[type |-> "result", cvar |-> c, value |-> v]>>

\* The result of set_cvar carries the cvar as it is after the set, accepted or not.
Reply(c, v) == <<[type |-> "result", cvar |-> c, value |-> ApplySet(c, v)]>>

HandleSet(p, m, heard) ==
    LET told == Broadcast(Event(m.cvar, m.value))
    IN  /\ value' = [value EXCEPT ![m.cvar] = ApplySet(m.cvar, m.value)]
        /\ down' = IF heard THEN [told EXCEPT ![p] = @ \o Reply(m.cvar, m.value)] ELSE told
        /\ missed' = IF heard THEN [Missing(m.cvar, m.value) EXCEPT ![p] = @ \ {m.cvar}]
                     ELSE Missing(m.cvar, m.value)
        /\ UNCHANGED subscribed

\* A set by console line: ApplySet and its sink; the reply is only text.
Change(c, v) ==
    /\ value' = [value EXCEPT ![c] = ApplySet(c, v)]
    /\ down' = Broadcast(Event(c, v))
    /\ missed' = Missing(c, v)
    /\ UNCHANGED subscribed

\* Drain runs the task of a page's oldest message.
HandleMessage(p) ==
    /\ up[p] # <<>>
    /\ up' = [up EXCEPT ![p] = Tail(@)]
    /\ LET m == Head(up[p])
       IN  \E heard \in Heard(p, m) :
             \/ m.type = "list" /\ HandleList(p, heard)
             \/ m.type = "subscribe" /\ HandleSubscribe(p, heard)
             \/ m.type = "set" /\ HandleSet(p, m, heard)
             \/ m.type = "exec" /\ Change(m.cvar, m.value)
    /\ UNCHANGED <<served, pageVars, counters>>

\* A key, a TCP line client or the fly camera changes a cvar.
OtherSets(c, v) ==
    /\ others < MaxOthers
    /\ others' = others + 1
    /\ Change(c, v)
    /\ UNCHANGED <<served, up, pageVars, edits, opens>>

-----------------------------------------------------------------------------
(* The connection.                                                         *)

\* onopen: the engine accepted the token; boot asks for the list, then subscribes.
Open(p) ==
    /\ p \notin live
    /\ opens < MaxOpens
    /\ opens' = opens + 1
    /\ live' = live \cup {p}
    /\ served' = served \cup {p}
    /\ up' = [up EXCEPT ![p] = @ \o <<[type |-> "list", old |-> FALSE],
                                      [type |-> "subscribe", old |-> FALSE]>>]
    /\ missed' = [missed EXCEPT ![p] = {}]
    /\ UNCHANGED <<value, subscribed, down, view, shown, editing, edited, edits, others>>

\* The connection breaks: WsClose forgets it with its topics; what had not arrived on
\* either side is lost.
WsClose(p) ==
    /\ p \in served
    /\ served' = served \ {p}
    /\ subscribed' = subscribed \ {p}
    /\ \E n \in 0..Len(up[p]), k \in 0..Len(down[p]) :
          /\ up' = [up EXCEPT ![p] = [i \in 1..n |-> [up[p][i] EXCEPT !.old = TRUE]]]
          /\ down' = [down EXCEPT ![p] = SubSeq(@, 1, k)]
    /\ UNCHANGED <<value, pageVars, counters, missed>>

\* onclose: the page stops sending and starts to poll for the engine.
OnClose(p) ==
    /\ p \in live \ served
    /\ down[p] = <<>>
    /\ live' = live \ {p}
    /\ UNCHANGED <<engineVars, view, shown, editing, edited, counters, up, down, missed>>

-----------------------------------------------------------------------------
(* The page.                                                               *)

\* bus.send: a frame sent on a broken connection is lost.
Send(p, msgs) ==
    up' = [up EXCEPT ![p] = IF p \in live \cap served THEN @ \o msgs ELSE @]

\* renderDeck: every control is built anew from the copy.
Redrawn(p) == shown' = [shown EXCEPT ![p] = view'[p]]

\* syncControl: the control of c alone is built anew.
Synced(p, c) == shown' = [shown EXCEPT ![p][c] = view'[p][c]]

\* setCvar, from a control: the copy first, then the message.
Edit(p, c, v) ==
    /\ edits < MaxEdits
    /\ edits' = edits + 1
    /\ view[p][c] # Unlisted
    /\ v \in Offered[c]
    /\ view' = [view EXCEPT ![p][c] = v]
    /\ editing' = [editing EXCEPT ![p] = c]
    /\ edited' = [edited EXCEPT ![p] = @ \cup {c}]
    /\ IF c \in DeckCvars THEN Redrawn(p) ELSE Synced(p, c)
    /\ Send(p, <<[type |-> "set", cvar |-> c, value |-> v, old |-> FALSE]>>)
    /\ UNCHANGED <<engineVars, live, down, missed, others, opens>>

\* A copy after each setting was written into it in turn: the last one of a cvar stays.
Overwritten(copy, settings) ==
    [c \in Cvars |->
        LET hits == {i \in DOMAIN settings : settings[i].cvar = c}
        IN  IF hits = {} THEN copy[c] ELSE settings[Max(hits)].value]

\* setCvar of each setting in turn.
SetAll(p, settings) ==
    /\ edits + Len(settings) <= MaxEdits
    /\ edits' = edits + Len(settings)
    /\ \A c \in Cvars : view[p][c] # Unlisted
    /\ view' = [view EXCEPT ![p] = Overwritten(@, settings)]
    /\ editing' = [editing EXCEPT ![p] = Last(settings).cvar]
    /\ edited' = [edited EXCEPT ![p] = @ \cup {settings[i].cvar : i \in DOMAIN settings}]
    /\ Send(p, [i \in DOMAIN settings |->
                   [type |-> "set", cvar |-> settings[i].cvar, value |-> settings[i].value,
                    old |-> FALSE]])

\* The reset-group button: every control to its default, then renderDeck.
ResetGroup(p) ==
    /\ LET order == SetToSeq(Cvars)
       IN  SetAll(p, [i \in DOMAIN order |->
                         [cvar |-> order[i], value |-> Defaults[order[i]]]])
    /\ Redrawn(p)
    /\ UNCHANGED <<engineVars, live, down, missed, others, opens>>

\* A quality preset of the graphics deck.  It begins with lighting.mode, which draws the deck
\* before the rest is set; the frame that draws it again is a RenderDeck.
ApplyPreset(p, preset) ==
    /\ SetAll(p, preset)
    /\ shown' = [shown EXCEPT ![p] = [view[p] EXCEPT ![Head(preset).cvar] = Head(preset).value]]
    /\ UNCHANGED <<engineVars, live, down, missed, others, opens>>

\* A line typed into the console of the page that sets a cvar.
ExecLine(p, c, v) ==
    /\ edits < MaxEdits
    /\ edits' = edits + 1
    /\ p \in live
    /\ Send(p, <<[type |-> "exec", cvar |-> c, value |-> v, old |-> FALSE]>>)
    /\ UNCHANGED <<engineVars, pageVars, down, missed, others, opens>>

\* 1500 ms have passed since the last edit.
EditEnds(p) ==
    /\ editing[p] # Nobody
    /\ editing' = [editing EXCEPT ![p] = Nobody]
    /\ UNCHANGED <<engineVars, live, view, shown, edited, counters, up, down, missed>>

\* Another category, or another search: the deck is drawn from the copy.
RenderDeck(p) ==
    /\ UNCHANGED view
    /\ Redrawn(p)
    /\ UNCHANGED <<engineVars, live, editing, edited, counters, up, down, missed>>

\* The copy with a message merged into it.
Merged(copy, m) == IF m.type = "cvars" THEN m.cvars ELSE [copy EXCEPT ![m.cvar] = m.value]

\* Mutated form of Rebuilds: an edit of any control holds every control back.
Rebuilds_AnyEdit(p, m) == editing[p] = Nobody /\ view[p][m.cvar] # m.value

\* syncControl is called for a change from elsewhere, unless the control is being edited.
Rebuilds(p, m) == editing[p] # m.cvar /\ view[p][m.cvar] # m.value

\* The whole deck is drawn again: for a list, and for a result that afterValueChange acts on.
Redraws(m) == m.type = "cvars" \/ (m.type = "result" /\ m.cvar \in DeckCvars)

\* onMessage.
Receive(p) ==
    /\ down[p] # <<>>
    /\ down' = [down EXCEPT ![p] = Tail(@)]
    /\ LET m == Head(down[p])
       IN  /\ view' = [view EXCEPT ![p] = Merged(@, m)]
           /\ \/ Redraws(m) /\ Redrawn(p)
              \/ m.type = "event" /\ Rebuilds(p, m) /\ Synced(p, m.cvar)
              \/ /\ ~Redraws(m)
                 /\ m.type = "event" => ~Rebuilds(p, m)
                 /\ UNCHANGED shown
    /\ UNCHANGED <<engineVars, live, editing, edited, counters, up, missed>>

-----------------------------------------------------------------------------
Init ==
    /\ value = Defaults
    /\ served = {} /\ subscribed = {} /\ live = {}
    /\ up = [p \in Pages |-> <<>>] /\ down = [p \in Pages |-> <<>>]
    /\ view = [p \in Pages |-> [c \in Cvars |-> Unlisted]]
    /\ shown = view
    /\ editing = [p \in Pages |-> Nobody]
    /\ edited = [p \in Pages |-> {}]
    /\ missed = [p \in Pages |-> {}]
    /\ edits = 0 /\ others = 0 /\ opens = 0

Next ==
    \/ \E c \in Cvars, v \in Values : OtherSets(c, v)
    \/ \E p \in Pages :
          \/ HandleMessage(p) \/ Receive(p)
          \/ Open(p) \/ WsClose(p) \/ OnClose(p)
          \/ \E c \in Cvars, v \in Values : Edit(p, c, v) \/ ExecLine(p, c, v)
          \/ \E preset \in Presets : ApplyPreset(p, preset)
          \/ ResetGroup(p) \/ EditEnds(p) \/ RenderDeck(p)

Spec == Init /\ [][Next]_vars

\* The main loop drains its queue, and a page's event loop runs its handlers.
FairSpec == Spec /\ \A p \in Pages : WF_vars(HandleMessage(p)) /\ WF_vars(Receive(p))

-----------------------------------------------------------------------------
\* The variables keep their types; only pages with a live connection are served, and only served ones subscribe.
TypeOK ==
    /\ value \in [Cvars -> Values]
    /\ served \subseteq live /\ subscribed \subseteq served /\ live \subseteq Pages
    /\ up \in [Pages -> Seq(Ups)] /\ down \in [Pages -> Seq(Downs)]
    /\ view \in [Pages -> Copies] /\ shown \in [Pages -> Copies]
    /\ edited \in [Pages -> SUBSET Cvars] /\ missed \in [Pages -> SUBSET Cvars]
    /\ editing \in [Pages -> Cvars \cup {Nobody}]
    /\ edits \in 0..MaxEdits /\ others \in 0..MaxOthers /\ opens \in 0..MaxOpens

\* The page has sent a message of this kind, about c, that its engine has not handled.
Pending(p, type, c) ==
    \E i \in DOMAIN up[p] :
        /\ up[p][i].type = type /\ ~up[p][i].old
        /\ type = "set" => up[p][i].cvar = c

About(m, c) == m.type = "cvars" \/ m.cvar = c
Says(m, c)  == IF m.type = "cvars" THEN m.cvars[c] ELSE m.value

\* What the page will hold of c when it has handled every message on its way.
LastWord(p, c) ==
    LET told == {i \in DOMAIN down[p] : About(down[p][i], c)}
    IN  IF told = {} THEN view[p][c]
        ELSE Says(down[p][Max(told)], c)

\* The last word a connected page hears of a cvar is the registry's value, however its own
\* edits, echoes of them and other clients' changes overtake each other (boot's list,
\* set_cvar's result, the change sink), but for a change between list and subscription.
LastWordHolds ==
    \A p \in served, c \in Cvars :
        Pending(p, "list", c) \/ Pending(p, "set", c) \/ c \in missed[p]
            \/ LastWord(p, c) = value[c]

\* A control whose cvar the page's user never edited shows what the copy says: whatever else
\* is being edited, no change that onMessage merges leaves it stale.
UntouchedShown ==
    \A p \in Pages, c \in Cvars : c \in edited[p] \/ shown[p][c] = view[p][c]

\* When edits stop, every page that stays connected comes to hold the registry's values.
PagesSettle ==
    <>[](\A p \in served, c \in Cvars : c \in missed[p] \/ view[p][c] = value[c])

\* "Broadcast every cvar change (keybindings / TCP / other clients) so all web clients
\* update live" (ConsoleServer.cpp:648): a change between list and subscription is missed.
AllPagesUpdate ==
    \A p \in served, c \in Cvars :
        up[p] = <<>> /\ down[p] = <<>> => view[p][c] = value[c]

\* "External changes (F11 etc.) still rebuild" the control (console.js:1108): not one that
\* arrives within 1500 ms of an edit of the same cvar, even where no value is ever corrected.
ExternalRebuilds ==
    \A p \in served : up[p] = <<>> /\ down[p] = <<>> => shown[p] = view[p]
=============================================================================
