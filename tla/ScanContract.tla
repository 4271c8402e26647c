--------------------------- MODULE ScanContract ---------------------------
(***************************************************************************)
(* What the merger in main::run relies on when it merges collections that  *)
(* it never looks into: how FindingCollection::from places findings.  No   *)
(* window, decoder, leftover or line length is left in it.                 *)
(*                                                                         *)
(* A call is given a slice and returns a collection.  The positions in it  *)
(* lie in the slice and never decrease (itertools::kmerge merges sorted    *)
(* iterators only), and the next call counts on where the slice ends.      *)
(* Pipeline's job takes both steps at once (Scan, Collections).            *)
(***************************************************************************)
EXTENDS Naturals, Sequences

CONSTANT Start    \* consumed_bytes before the first call

VARIABLES
    busy,         \* a call has not returned yet
    slice_len,    \* of the slice that the latest call was given
    consumed,     \* the bytes of all slices whose call has returned
    reported      \* the findings of all collections returned

contract_vars == <<busy, slice_len, consumed, reported>>

Init ==
    /\ ~busy
    /\ slice_len = 0
    /\ consumed = Start
    /\ reported = <<>>

Call ==
    /\ ~busy
    /\ busy'
    /\ slice_len' \in Nat
    /\ UNCHANGED <<consumed, reported>>

InSlice(collection) ==
    \A i \in 1 .. Len(collection) :
        /\ consumed <= collection[i].position
        /\ collection[i].position < consumed + slice_len

Sorted(collection) ==
    \A i \in 1 .. Len(collection) - 1 :
        collection[i].position <= collection[i + 1].position

\* The collection is read off the history of all that was reported.
Return ==
    /\ busy
    /\ ~busy'
    /\ \E collection \in {SubSeq(reported', Len(reported) + 1, Len(reported'))} :
         /\ InSlice(collection)
         /\ Sorted(collection)
         /\ reported' = reported \o collection
    /\ consumed' = consumed + slice_len
    /\ UNCHANGED slice_len

Next == Call \/ Return

Spec == Init /\ [][Next]_contract_vars

=============================================================================
