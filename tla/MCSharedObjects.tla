--------------------------- MODULE MCSharedObjects ---------------------------
EXTENDS SharedObjects, TLC

MCChain == <<"Sub", "Super">>
MCFields == [Sub |-> <<"f", "g">>, Super |-> <<"f">>]
MCStatics == [Sub |-> {}, Super |-> {"s"}]
MCExchanges == {<<1, 2>>}
MCSymmetry == Permutations(Threads)
=============================================================================
