SPECIFICATION Spec
CONSTANT Frames <- WholeFrames
INVARIANTS DecodedOnce EdgesAsDecoded ContextsAdjacent PartitionContextExact CdefIndexRead RestorationTiles
