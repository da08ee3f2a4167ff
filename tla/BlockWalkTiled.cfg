SPECIFICATION Spec
CONSTANT Frames <- TiledFrames
INVARIANT EdgesAcrossTiles
