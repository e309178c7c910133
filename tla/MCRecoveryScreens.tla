--------------------------- MODULE MCRecoveryScreens ---------------------------
(***************************************************************************)
(* The instances of RecoveryScreens that TLC checks: a number of country   *)
(* 55 with a national part of two digits; a country field that may show    *)
(* nothing, 55 or 1; a form whose national digits went to the country      *)
(* field, since a tap was lost, and one that lacks a digit; and chats that *)
(* show no marker or one of those that decide something.                   *)
(***************************************************************************)
EXTENDS RecoveryScreens

MCOwn == <<5, 5, 1, 2>>
MCShown == {<<5, 5>>, <<1>>}
MCAstray == {[country |-> <<1, 2>>, national |-> <<>>],
             [country |-> <<5, 5>>, national |-> <<1>>]}
MCPreviews == {{}, {"ban"}, {"pending"}, {"home"}}
===============================================================================
