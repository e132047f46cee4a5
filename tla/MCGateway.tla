------------------------------ MODULE MCGateway ------------------------------
(***************************************************************************)
(* A small instance of Gateway for TLC.                                    *)
(***************************************************************************)
EXTENDS Gateway

SomeIds == {-1, 0, 7, U64Max, U64Max + 1}
SomeAmounts == {-1, 0, U64Max, Chunk, U128Max, U128Max + 1}
SomeFlagLists ==
    {<<>>, <<"send">>, <<"debt", "debt">>, <<"receive", "send", "debt">>, <<"send", "owner">>}
SomeDelays == {<<3, 9>>, <<9, 3>>}

=============================================================================
