------------------------------ MODULE MCCodec -------------------------------
EXTENDS Codec
Job(w, h, refs, free, seed) ==
    [w |-> w, h |-> h, key |-> refs = <<>>, refs |-> refs, compound |-> refs # <<>>, obmc |-> refs # <<>>,
     free |-> free, seed |-> seed]
Two == <<2, 1, 0, 0, 0, 0, 0>>
Seven == <<7, 6, 5, 4, 3, 2, 1>>
MCJobs ==
    {Job(16, 16, <<>>, {1, 3}, 1), Job(16, 8, Two, {4, 5}, 1), Job(8, 16, Two, {5, 6}, 3), Job(16, 16, Seven, {1, 8}, 4)}
    \cup {Job(48, 40, <<>>, {}, s) : s \in 0 .. 3} \cup {Job(136, 20, <<>>, {}, 4)}
    \cup {Job(40, 24, Two, {}, s) : s \in 0 .. 19} \cup {Job(64, 44, Seven, {}, s) : s \in 0 .. 5}
    \cup {Job(28, 136, Seven, {}, 4), Job(136, 40, Two, {}, 6)}
MCSmallJobs == {Job(16, 8, Two, {5, 6}, 3), Job(16, 16, <<>>, {1, 3}, 1)}
MCSizes == {<<1, 1>>, <<64, 128>>, <<129, 64>>, <<176, 144>>, <<4096, 2304>>, <<2049, 4097>>, <<255, 8200>>}
MCQIndexes == {1, 7, 8, 255}
MCStrengths == {<<63, 0>>, <<20, 3>>, <<34, 7>>}
MCMagnitudes == {1, 3, 15, 600}
=============================================================================
