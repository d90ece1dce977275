---------------------------- MODULE ReviewedMerge ----------------------------
(***************************************************************************)
(* What a run promises about main: a commit gets there once it has passed   *)
(* the gates and a reviewer has approved it, and never if one rejected it.  *)
(* CandidateLifecycle implements this specification.                        *)
(***************************************************************************)
CONSTANTS Heads, NoHead

VARIABLES
    gated,      \* heads that passed every gate
    approved,   \* heads a reviewer found clean
    rejected,   \* heads a reviewer had findings on
    merged      \* the head the run has brought to main

vars == <<gated, approved, rejected, merged>>

Init ==
    /\ gated = {}
    /\ approved = {}
    /\ rejected = {}
    /\ merged = NoHead

Gate(h) ==
    /\ gated' = gated \cup {h}
    /\ UNCHANGED <<approved, rejected, merged>>

Approve(h) ==
    /\ h \in gated
    /\ approved' = approved \cup {h}
    /\ UNCHANGED <<gated, rejected, merged>>

Reject(h) ==
    /\ h \in gated
    /\ rejected' = rejected \cup {h}
    /\ UNCHANGED <<gated, approved, merged>>

Merge(h) ==
    /\ h \in (gated \cap approved) \ rejected
    /\ merged' = h
    /\ UNCHANGED <<gated, approved, rejected>>

Next ==
    /\ merged = NoHead
    /\ \E h \in Heads : Gate(h) \/ Approve(h) \/ Reject(h) \/ Merge(h)

Spec == Init /\ [][Next]_vars
=============================================================================
