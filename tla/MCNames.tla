------------------------------ MODULE MCNames ------------------------------
(***************************************************************************)
(* The pieces that make a difference to the filters of Names.              *)
(***************************************************************************)
EXTENDS Names

MCCharacters == {"/", ".", "~", "$", "s", "w", "p", "x", "r"}

MCRoot == <<"/", "r", "/", ".", "s", "w", "p">>

MCPieces == {<<"/">>, <<".">>, <<"~">>, <<"$">>, <<"x">>, <<"s", "w">>, <<"p">>,
             <<".", "s", "w", "p">>}
=============================================================================
