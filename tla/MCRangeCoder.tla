---------------------------- MODULE MCRangeCoder ----------------------------
EXTENDS RangeCoder

\* A likely and an unlikely flag, and a four-valued symbol with thin tails.
MCContexts ==
    [flag |-> [p |-> <<30000>>, count |-> 0],
     sym  |-> [p |-> <<32600, 128, 64>>, count |-> 15]]
MCProbs == {64, 16384, 20000}
=============================================================================
