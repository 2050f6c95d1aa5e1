------------------------------- MODULE MCGui --------------------------------
(* A small instance of Gui: one peer, one offer; a name is typed and piped, *)
(* and a blank line.                                                        *)
EXTENDS Gui
CONSTANTS p1, o1, none
MCTyped == {<<"offer@", p1>>}
MCPiped == {<<"offer@", p1>>, <<"", none>>}
=============================================================================
