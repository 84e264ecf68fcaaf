----------------------------- MODULE MCKeyboard -----------------------------
(***************************************************************************)
(* Two rows of three columns, so that a line wraps and a row scrolls away  *)
(* within a few characters; messages of one letter and a new line.         *)
(***************************************************************************)
EXTENDS Keyboard

MCName == [k \in RawKeys |-> <<"K">>]
MCFULL == <<"F", "newline">>
MCUNINITIALISED == <<"U", "newline">>
MCTexts == {<<"x", "tab">>}
=============================================================================
