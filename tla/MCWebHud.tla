------------------------------ MODULE MCWebHud ------------------------------
(* WebHud with small bounds: a choice of two and a number with a range.    *)
EXTENDS WebHud, TLC

CONSTANTS page, mode, number

MCPages     == {page}
MCCvars     == {mode, number}
MCDeckCvars == {mode}
MCValues    == 0..2

\* Any number can be typed; the choice is between two buttons.
MCOffered == mode :> {0, 1} @@ number :> MCValues

\* The number is clamped to 0..1; the mode is 0 or 1 and refuses anything else.
MCAccepted ==
    (mode :> (0 :> 0 @@ 1 :> 1 @@ 2 :> Refused)) @@ (number :> (0 :> 0 @@ 1 :> 1 @@ 2 :> 1))

\* Every value is stored as it is.
MCFree == [c \in MCCvars |-> [v \in MCValues |-> v]]

MCDefaults == mode :> 0 @@ number :> 0
MCPresets  == {<<[cvar |-> mode, value |-> 1], [cvar |-> number, value |-> 2]>>}
=============================================================================
