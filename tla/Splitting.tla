------------------------------ MODULE Splitting ------------------------------
(***************************************************************************)
(* What SplitStr promises the loop in FindingCollection::from that runs    *)
(* it: the iterator is given any buffer of characters and is called until  *)
(* it returns None.                                                        *)
(***************************************************************************)
EXTENDS SplitStr

CONSTANTS
    Alphabet,     \* the leading bytes that occur in a buffer
    CharsMins,    \* the values of --chars-min
    SameBlocks,   \* the values of --same-unicode-block
    GrepChars,    \* the values of --grep-char, {} standing for none
    MaxLen        \* bound: characters in a buffer

ASSUME SplittingAssumption ==
    /\ Alphabet \subseteq LeadingBytes
    /\ CharsMins \subseteq 0 .. 255
    /\ SameBlocks \subseteq BOOLEAN
    /\ \A grep \in GrepChars : GrepCharOK(grep)
    /\ MaxLen \in Nat

Buffers == UNION {[1 .. n -> Alphabet] : n \in 0 .. MaxLen}

VARIABLE call    \* what the caller gives to SplitStr::new

vars == <<split_vars, call>>

\* The caller has some buffer, and a mission with any settings.
Init ==
    /\ NoIterator
    /\ call \in [buffer : Buffers, min : CharsMins, same_block : SameBlocks,
                 continue : BOOLEAN, invalid : BOOLEAN, grep : GrepChars]

Start ==
    /\ pc = "none"
    /\ New(call.buffer, call.min, call.same_block, call.continue, call.invalid,
           call.grep)
    /\ UNCHANGED call

Step == NextStep /\ UNCHANGED call

Again == CallNext /\ UNCHANGED call

Exhausted == pc = "exhausted" /\ UNCHANGED vars

Next == Start \/ Step \/ Again \/ Exhausted

Spec == Init /\ [][Next]_vars

FairSpec == Spec /\ WF_vars(Next)

-----------------------------------------------------------------------------

Result == [from : Nat \ {0}, nb : Nat \ {0},
           s_completes_previous_s : BOOLEAN, s_is_maybe_cut : BOOLEAN,
           s_is_to_be_filtered_again : BOOLEAN,
           s_satisfies_min_char_rule : BOOLEAN,
           s_satisfies_grep_char_rule : BOOLEAN]

\* Type invariant.
TypeOK ==
    /\ inp \in Seq(LeadingBytes)
    /\ inp_start_p \in 1 .. Len(inp) + 1
    /\ p \in 1 .. Len(inp) + 1
    /\ last_s_was_maybe_cut \in BOOLEAN
    /\ invalid_bytes_after_inp \in BOOLEAN
    /\ chars_min_nb \in 0 .. 255
    /\ require_same_unicode_block \in BOOLEAN
    /\ GrepCharOK(grep_char)
    /\ pc \in {"none", "loop", "break", "returned", "exhausted"}
    /\ ok_s_p \in 1 .. Len(inp) + 1
    /\ ok_char_nb \in 0 .. CharMax
    /\ grep_char_ok \in BOOLEAN
    /\ last_multi_char_leading_byte \in LeadingBytes
    /\ results \in Seq(Result)

\* The characters of a result, and the place right behind it.
PlacesOf(r) == r.from .. r.from + r.nb - 1
EndOf(r) == r.from + r.nb

\* All characters at these places may stand in one string.
Homogeneous(places) ==
    /\ \A i \in places : PassesFilter(inp[i])
    /\ require_same_unicode_block => \A i, j \in places :
           IsMultibyte(inp[i]) /\ IsMultibyte(inp[j]) => inp[i] = inp[j]

\* Results are substrings of the buffer, in its order and without overlap, of
\* at most `s_char_nb_max' characters that all pass the filter and, if that is
\* required, are of one Unicode block -- although p may stand still on a
\* rejected character and a string may be given back in several calls.
ResultsAreStrings ==
    /\ \A k \in 1 .. Len(results) :
          /\ EndOf(results[k]) <= Len(inp) + 1
          /\ results[k].nb <= CharMax
          /\ Homogeneous(PlacesOf(results[k]))
    /\ \A k \in 1 .. Len(results) - 1 : EndOf(results[k]) <= results[k + 1].from

\* A result the caller prints on its own -- not as the continuation of a printed
\* string -- satisfies MIN and GREP ("the iterator always observes this
\* minimum-rule, but there are some exceptions").
MinAndGrepObserved ==
    \A k \in 1 .. Len(results) :
        LET r == results[k]
        IN  ~r.s_completes_previous_s /\ ~r.s_is_to_be_filtered_again =>
              /\ r.nb >= chars_min_nb
              /\ NoGrep \/ \E i \in PlacesOf(r) : inp[i] \in grep_char

\* A result completes the previous one exactly if it starts where a cut string
\* ended: at the left boundary when the caller says so, or right behind a
\* result that was cut in this buffer.
ContinuationsAreAdjacent ==
    \A k \in 1 .. Len(results) :
        results[k].s_completes_previous_s <=>
            IF k = 1 THEN call.continue /\ results[k].from = 1
            ELSE /\ results[k - 1].s_is_maybe_cut
                 /\ results[k].from = EndOf(results[k - 1])

\* Only a string at the end of the buffer is kept for the next buffer, and the
\* iterator has nothing to return behind it: the caller remembers no more of it
\* than its length.
KeptStringIsLast ==
    \A k \in 1 .. Len(results) :
        results[k].s_is_to_be_filtered_again =>
            /\ EndOf(results[k]) = Len(inp) + 1
            /\ k = Len(results)
            /\ results[k].nb <= CharMax

Covered(i) == \E k \in 1 .. Len(results) : i \in PlacesOf(results[k])

\* A run of characters that can stand in one string; with require_same_unicode_block, a run of
\* multi-byte characters of one block.
IsRun(i, j) ==
    /\ \A k \in i .. j : PassesFilter(inp[k])
    /\ require_same_unicode_block => \A k \in i .. j : IsMultibyte(inp[k]) /\ inp[k] = inp[i]

\* Without a grep character, every run of at least MIN characters has been
\* returned when the iterator is exhausted, and so has every run that may go on
\* in the next buffer or continues the last one.  (A string may be found at the
\* start, in the middle or at the end of the buffer, and be longer than a line.)
NoStringLost ==
    pc = "exhausted" /\ NoGrep /\ chars_min_nb \in 1 .. CharMax =>
        \A i, j \in 1 .. Len(inp) :
            /\ IsRun(i, j)
            /\ \/ j + 1 - i >= chars_min_nb
               \/ i <= j /\ j = Len(inp) /\ ~invalid_bytes_after_inp
               \/ i = 1 /\ i <= j /\ call.continue
            => \A k \in i .. j : Covered(k)

\* The doc comment of `chars_min_nb' and the comment in next() have one rule for
\* a substring that fails GREP: "we dismiss the substring".  The next substring
\* with MIN characters, the grep character among them, and a rejected character
\* on both sides would then be returned.
DismissesOnlyTheSubstring ==
    pc = "exhausted" =>
        \A i, j \in 2 .. Len(inp) - 1 :
            /\ i <= j
            /\ \A k \in i .. j : inp[k] \in Af
            /\ inp[i - 1] \in Ascii \ Af
            /\ inp[j + 1] \in Ascii \ Af
            /\ j + 1 - i >= chars_min_nb
            /\ j + 1 - i < CharMax
            /\ \E k \in i .. j : inp[k] \in grep_char
            => \A k \in i .. j : Covered(k)

\* The iterator ends, however often it looks at a rejected character again.
IteratorEnds == <>(pc = "exhausted")

=============================================================================
