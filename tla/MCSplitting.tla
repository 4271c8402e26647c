---------------------------- MODULE MCSplitting ----------------------------
(***************************************************************************)
(* Instances of Splitting for TLC.  The alphabet has a leading byte of     *)
(* each kind the code tells apart: 97 is a letter, 47 the slash, 1 and 7   *)
(* are control codes, 195 and 206 start two-byte characters of two blocks, *)
(* 227 a three-byte character of a third one.                              *)
(***************************************************************************)
EXTENDS Splitting

PassingAscii == {47, 97}
NoGrepOrSlash == {{}, {47}}
Slash == {{47}}
PassingMultibyte == {195, 206}

=============================================================================
