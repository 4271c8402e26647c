----------------------------- MODULE MCSession -----------------------------
(***************************************************************************)
(* Instances of Session for TLC.  97 is a letter that passes the filter, 1 *)
(* a control code that does not, 224 starts a character of three bytes.    *)
(***************************************************************************)
EXTENDS Session, TLC

PassingAscii == {97}
PassingMultibyte == {224}

\* windows-874: a Thai letter is one byte, and three in UTF-8.
Thai         == [lead |-> 224, width |-> 1]
Letter       == [lead |-> 97, width |-> 1]
Control      == [lead |-> 1, width |-> 1]
ThaiOrNot    == {Thai, Control}
Letters      == {Letter}
LetterOrNot  == {Letter, Control}

\* Three files, the second one missing; the last one may fail.
ThreeSizes    == 1 :> 4 @@ 2 :> 1 @@ 3 :> 3
ThreeOpenable == {1, 3}
ThreeFaulty   == {3}

\* Two files, the first as long as MIN.
TwoSizes      == 1 :> 4 @@ 2 :> 1

=============================================================================
