----------------------------- MODULE MCMission -----------------------------
(***************************************************************************)
(* Instances of Mission for TLC: options that differ from a plain command  *)
(* line in one or two places.                                              *)
(***************************************************************************)
EXTENDS Mission

KnownLabels == {"UTF-8", "utf-16le", "x-user-defined"}

Junk == Word(<<"junk">>)
Name(aliasse, i) == Word(aliasse[i].name)

NoFlags ==
    [ counter_offset |-> Absent, chars_min |-> Absent,
      same_unicode_block |-> FALSE, ascii_filter |-> Absent,
      unicode_block_filter |-> Absent, grep_char |-> Absent,
      output_line_len |-> Absent ]

Flags ==
    {NoFlags, [NoFlags EXCEPT !.same_unicode_block = TRUE]}
    \cup {[NoFlags EXCEPT !.counter_offset = t] : t \in {Number(7), Number(1001), Junk}}
    \cup {[NoFlags EXCEPT !.chars_min = t] : t \in {Number(0), Number(255), Number(256)}}
    \cup {[NoFlags EXCEPT !.ascii_filter = t] :
            t \in {Number(1), Number(2001), Word(<<"A", "ll", "-Ctrl">>), Junk}}
    \cup {[NoFlags EXCEPT !.unicode_block_filter = t] :
            t \in {Number(1), Number(1001), Word(<<"H">>), Junk}}
    \cup {[NoFlags EXCEPT !.grep_char = t, !.output_line_len = u] :
            t \in {Absent, Number(127), Number(128)},
            u \in {Absent, Number(5), Number(6)}}

PlainEnc ==
    [ name |-> "", chars_min |-> Absent, ascii_filter |-> Absent,
      unicode_block_filter |-> Absent, grep_char |-> Absent, more |-> FALSE ]

Encs ==
    {[PlainEnc EXCEPT !.name = n] : n \in {"", "ascii", "utf-16le", "junk"}}
    \cup {[PlainEnc EXCEPT !.chars_min = t, !.name = n] :
            t \in {Number(10), Number(256)}, n \in {"", "ascii"}}
    \cup {[PlainEnc EXCEPT !.ascii_filter = Name(ASCII_FILTER_ALIASSE, i)] :
            i \in 1 .. Len(ASCII_FILTER_ALIASSE)}
    \cup {[PlainEnc EXCEPT !.ascii_filter = t] : t \in {Number(1), Word(<<"A">>), Junk}}
    \cup {[PlainEnc EXCEPT !.unicode_block_filter = t] :
            t \in {Number(1), Word(<<>>), Word(<<"C">>), Junk}}
    \cup {[PlainEnc EXCEPT !.grep_char = t] : t \in {Number(92), Number(128), Junk}}
    \cup {[PlainEnc EXCEPT !.more = TRUE]}

\* Every name of a Unicode block filter.
BlockNames ==
    {[PlainEnc EXCEPT !.unicode_block_filter = Name(UNICODE_BLOCK_FILTER_ALIASSE, i)] :
        i \in 1 .. Len(UNICODE_BLOCK_FILTER_ALIASSE)}
NoFlagsOnly == {NoFlags}

=============================================================================
