----------------------------- MODULE MCDecoder -----------------------------
(* Instances of Decoder for TLC: the headers a small stream carries. *)
EXTENDS Decoder, TLC

CONSTANTS p1, p2, p3, p4

MCPics == {p1, p2, p3, p4}
MCThreePics == {p1, p2, p3}
MCSymmetry == Permutations(MCPics)
MCSlots == 0 .. 1

Hdr(intra, show, refresh, primary, needsRefs, refctx, update) ==
  [intra |-> intra, show |-> show, refresh |-> refresh, primary |-> primary,
   needsRefs |-> needsRefs, refctx |-> refctx, update |-> update]

\* A shown key frame that refreshes every slot.
KeyFrame == Hdr(TRUE, TRUE, MCSlots, Nil, FALSE, TRUE, 1)
\* A hidden reference, predicted from slot 1, whose CDFs are not adapted.
HiddenRef == Hdr(FALSE, FALSE, {1}, 1, TRUE, FALSE, 1)
\* A shown frame that replaces slot 0 and adapts the CDFs of its last tile.
ShownRef == Hdr(FALSE, TRUE, {0}, 0, TRUE, TRUE, 2)
\* A shown lossless frame nothing refers to.
Disposable == Hdr(FALSE, TRUE, {}, 0, FALSE, TRUE, 1)

MCHeaders == {KeyFrame, HiddenRef, ShownRef, Disposable}
MCKeyFrames == {KeyFrame}
=============================================================================
