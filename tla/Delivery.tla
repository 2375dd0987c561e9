------------------------------ MODULE Delivery -------------------------------
(***************************************************************************)
(* What an archive pipeline promises of the frames it accepts, with no       *)
(* queue, cache or connection in sight: at-least-once delivery with named    *)
(* losses.  A frame the daemon has accepted is pending until the far end has *)
(* stored it, and it stops being pending in no other way than by being       *)
(* stored or by being lost where the pipeline can say so.                    *)
(***************************************************************************)

CONSTANT Frame

VARIABLES
    pending,  \* frames the daemon still answers for
    stored,   \* frames the far end has stored
    lost      \* frames given up: the cache refused them, or a crash took them

dvars == <<pending, stored, lost>>

DInit == pending = {} /\ stored = {} /\ lost = {}

(* A new frame is taken on. *)
Accept(f) ==
    /\ f \notin pending \cup stored \cup lost
    /\ pending' = pending \cup {f}
    /\ UNCHANGED <<stored, lost>>

(* The far end stores some pending frames, and the daemon lets go of frames    *)
(* that are stored by then.  It may keep stored ones, and store them again.    *)
Deliver(S, T) ==
    /\ stored' = stored \cup S
    /\ T \subseteq stored'
    /\ pending' = pending \ T
    /\ UNCHANGED lost

(* Some pending frames are given up for good. *)
Lose(S) ==
    /\ pending' = pending \ S
    /\ lost' = lost \cup S
    /\ UNCHANGED stored

DNext ==
    \/ \E f \in Frame : Accept(f)
    \/ \E S, T \in SUBSET pending : Deliver(S, T)
    \/ \E S \in SUBSET pending : Lose(S)

DSpec == DInit /\ [][DNext]_dvars
=============================================================================
