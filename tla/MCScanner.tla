----------------------------- MODULE MCScanner -----------------------------
(***************************************************************************)
(* Instances of Scanner for TLC.  97 is a letter that passes the filter, 1 *)
(* a control code that does not; 206, 224 and 227 start characters of two, *)
(* three and three bytes in UTF-8.                                         *)
(***************************************************************************)
EXTENDS Scanner

PassingAscii == {97}
PassingMultibyte == {206, 224, 227}

NoneOrLetter == {{}, {97}}

\* Characters of a UTF-8 mission.
Letter  == [lead |-> 97, width |-> 1]
Control == [lead |-> 1, width |-> 1]
Greek   == [lead |-> 206, width |-> 2]
Kana    == [lead |-> 227, width |-> 3]

Letters      == {Letter}
LetterOrNot  == {Letter, Control}
LetterGreek  == {Letter, Control, Greek}
AllWidths    == {Letter, Control, Greek, Kana}

\* windows-874: a Thai letter is one byte, and three in UTF-8.
Thai         == [lead |-> 224, width |-> 1]
ThaiOrNot    == {Thai, Control}

=============================================================================
