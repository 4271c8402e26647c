----------------------------- MODULE MCListing -----------------------------
(***************************************************************************)
(* Instances of Listing for TLC.                                           *)
(***************************************************************************)
EXTENDS Listing, TLC

\* The first file is longer than the buffer, the second one empty, the third one
\* missing, the fourth one longer than the buffer and faulty.  Behind them, files
\* of one byte where labels are at the end of ASCII or of u8, and empty ones.
MCSize == [i \in 1 .. 202 |->
              CASE i = 1 -> 5
                [] i = 3 -> 3
                [] i = 4 -> 4
                [] i \in {63, 64, 191, 192, 202} -> 1
                [] OTHER -> 0]
MCOpenable == 1 .. 202 \ {3}
MCFaulty == {4}

\* Scanners: the first two, and those at the end of ASCII and of u8.
MCFinders == {0, 1, 30, 31, 158, 159}

=============================================================================
