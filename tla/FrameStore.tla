----------------------------- MODULE FrameStore -----------------------------
(***************************************************************************)
(* What the decoder of pkg/av1 promises: decoded frames are VALUES.  A     *)
(* reference slot, the output queue and a consumer each own a frame that   *)
(* nothing changes until its owner gives it up, although the decoder       *)
(* underneath shares mutable, pooled buffers between all of them.          *)
(***************************************************************************)
EXTENDS Sequences

CONSTANTS
  Slots,    \* reference slots
  Loans,    \* names under which a consumer holds a frame
  Frame,    \* the samples of a decoded frame
  None      \* an empty slot, an unused loan

VARIABLES
  store,    \* the frame in each slot
  shown,    \* frames decoded for output and not yet taken
  lent,     \* the frame behind each loan
  stopped   \* the decoder was closed

svars == <<store, shown, lent, stopped>>

Init ==
  /\ store = [s \in Slots |-> None]
  /\ shown = <<>>
  /\ lent = [l \in Loans |-> None]
  /\ stopped = FALSE

\* A frame is decoded: it fills the slots R and, if visible, is shown.
Decode(f, R, visible) ==
  /\ ~stopped
  /\ store' = [s \in Slots |-> IF s \in R THEN f ELSE store[s]]
  /\ shown' = IF visible THEN Append(shown, f) ELSE shown
  /\ UNCHANGED <<lent, stopped>>

ShowAgain(s) ==
  /\ ~stopped
  /\ store[s] # None
  /\ shown' = Append(shown, store[s])
  /\ UNCHANGED <<store, lent, stopped>>

\* The oldest shown frame is taken: under a new loan, or once more under the
\* one it already has.
Take(l) ==
  /\ ~stopped
  /\ shown # <<>>
  /\ lent[l] \in {None, Head(shown)}
  /\ lent' = [lent EXCEPT ![l] = Head(shown)]
  /\ shown' = Tail(shown)
  /\ UNCHANGED <<store, stopped>>

GiveBack(l) ==
  /\ lent' = [lent EXCEPT ![l] = None]
  /\ UNCHANGED <<store, shown, stopped>>

\* Flush: the references go, what is already shown stays.
Drop ==
  /\ ~stopped
  /\ store' = [s \in Slots |-> None]
  /\ UNCHANGED <<shown, lent, stopped>>

\* Close: only frames on loan survive.
Stop ==
  /\ ~stopped
  /\ store' = [s \in Slots |-> None]
  /\ shown' = <<>>
  /\ stopped' = TRUE
  /\ UNCHANGED lent

Next ==
  \/ \E f \in Frame, R \in SUBSET Slots, visible \in BOOLEAN : Decode(f, R, visible)
  \/ \E s \in Slots : ShowAgain(s)
  \/ \E l \in Loans : Take(l) \/ GiveBack(l)
  \/ Drop
  \/ Stop

Spec == Init /\ [][Next]_svars
=============================================================================
