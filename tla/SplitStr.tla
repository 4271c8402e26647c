------------------------------ MODULE SplitStr ------------------------------
(***************************************************************************)
(* The iterator SplitStr of src/helper.rs, which cuts a buffer of valid    *)
(* UTF-8 into the substrings that pass the filter of a mission.            *)
(*                                                                         *)
(* A character is modelled by its leading byte: that is all the code ever  *)
(* looks at.  Pointers into the buffer are character indices, counted from *)
(* 1.  One call of next() is a run of the loop, one character a step,      *)
(* followed by one of the three ways to leave it; the caller takes the     *)
(* returned result and calls again.  Exhausted is the None that ends the   *)
(* caller's for loop.                                                      *)
(***************************************************************************)
EXTENDS Naturals, Sequences

CONSTANTS
    Af,           \* the ASCII codes that pass Utf8Filter::af
    Ubf,          \* the leading bytes that pass Utf8Filter::ubf
    CharMax       \* s_char_nb_max

Ascii == 0 .. 127
LeadingBytes == Ascii \cup 192 .. 247

\* Utf8Filter::grep_char: {c} stands for Some(c), {} for None.
GrepCharOK(grep) == grep \subseteq Ascii /\ \A c, d \in grep : c = d

ASSUME SplitStrAssumption ==
    /\ Af \subseteq Ascii
    /\ Ubf \subseteq 192 .. 247
    /\ CharMax \in Nat \ {0}

VARIABLES
    \* The fields of the iterator: those that new() sets and next() only reads,
    inp,
    invalid_bytes_after_inp,
    chars_min_nb,
    require_same_unicode_block,
    grep_char,
    \* and those that next() changes.
    inp_start_p,
    p,
    last_s_was_maybe_cut,
    \* The local variables of next().
    pc,               \* where the iterator is
    ok_s_p,
    ok_char_nb,
    grep_char_ok,
    last_multi_char_leading_byte,
    \* What it has returned so far.
    results

given_vars == <<inp, invalid_bytes_after_inp, chars_min_nb,
                require_same_unicode_block, grep_char>>
iterator_vars == <<given_vars, inp_start_p, p, last_s_was_maybe_cut>>
local_vars == <<ok_s_p, ok_char_nb, grep_char_ok, last_multi_char_leading_byte>>
split_vars == <<iterator_vars, pc, local_vars, results>>

-----------------------------------------------------------------------------

NoGrep == grep_char = {}

IsMultibyte(c) == c \notin Ascii

\* pass_af_filter() and pass_ubf_filter().
PassesFilter(c) == c \in Af \cup Ubf

\* No iterator yet.
NoIterator ==
    /\ inp = <<>>
    /\ inp_start_p = 1
    /\ p = 1
    /\ last_s_was_maybe_cut = FALSE
    /\ invalid_bytes_after_inp = FALSE
    /\ chars_min_nb = 0
    /\ require_same_unicode_block = FALSE
    /\ grep_char = {}
    /\ pc = "none"
    /\ ok_s_p = 1
    /\ ok_char_nb = 0
    /\ grep_char_ok = TRUE
    /\ last_multi_char_leading_byte = 0
    /\ results = <<>>

\* SplitStr::new, and the first call of next().
New(buffer, min, same_block, continue, invalid, grep) ==
    /\ inp' = buffer
    /\ inp_start_p' = 1
    /\ p' = 1
    /\ last_s_was_maybe_cut' = continue
    /\ invalid_bytes_after_inp' = invalid
    /\ chars_min_nb' = min
    /\ require_same_unicode_block' = same_block
    /\ grep_char' = grep
    /\ pc' = "loop"
    /\ ok_s_p' = 1
    /\ ok_char_nb' = 0
    /\ grep_char_ok' = (grep = {})
    /\ last_multi_char_leading_byte' = 0
    /\ results' = <<>>

\* The caller calls next() again.
CallNext ==
    /\ pc = "returned"
    /\ pc' = "loop"
    /\ ok_s_p' = p
    /\ ok_char_nb' = 0
    /\ grep_char_ok' = NoGrep
    /\ last_multi_char_leading_byte' = 0
    /\ UNCHANGED <<iterator_vars, results>>

\* Mutant: the loop does not stop at the longest string.
InLoop_any_length == pc = "loop" /\ p <= Len(inp)

\* The condition of the while loop.
InLoop == pc = "loop" /\ p <= Len(inp) /\ ok_char_nb < CharMax

\* Multi-byte characters of a string may be required to share a leading byte.
OtherBlock(c) ==
    /\ require_same_unicode_block
    /\ IsMultibyte(c)
    /\ last_multi_char_leading_byte \notin {0, c}

\* The grep character is looked for before the filter is applied.
GrepOkWith(c) == grep_char_ok \/ c \in grep_char

\* Mutant: an ASCII character ends the memory of the last block.
Accept_ascii_ends_block ==
    /\ InLoop
    /\ PassesFilter(inp[p])
    /\ ~OtherBlock(inp[p])
    /\ ok_char_nb' = ok_char_nb + 1
    /\ p' = p + 1
    /\ grep_char_ok' = GrepOkWith(inp[p])
    /\ last_multi_char_leading_byte' = IF IsMultibyte(inp[p]) THEN inp[p] ELSE 0
    /\ UNCHANGED <<given_vars, inp_start_p, last_s_was_maybe_cut, pc, ok_s_p,
                   results>>

\* A character is taken into the string.
Accept ==
    /\ InLoop
    /\ PassesFilter(inp[p])
    /\ ~OtherBlock(inp[p])
    /\ ok_char_nb' = ok_char_nb + 1
    /\ p' = p + 1
    /\ grep_char_ok' = GrepOkWith(inp[p])
    /\ last_multi_char_leading_byte' =
           IF IsMultibyte(inp[p]) THEN inp[p] ELSE last_multi_char_leading_byte
    /\ UNCHANGED <<given_vars, inp_start_p, last_s_was_maybe_cut, pc, ok_s_p,
                   results>>

\* Mutant: the block of a character to be looked at again is not remembered.
SkipRejected_keeps_block ==
    /\ p' = IF PassesFilter(inp[p]) THEN p ELSE p + 1
    /\ UNCHANGED last_multi_char_leading_byte

\* What a rejected character does to p and to the memory of the last block: a
\* character of another block is looked at again.
SkipRejected ==
    IF PassesFilter(inp[p])
    THEN /\ p' = p
         /\ last_multi_char_leading_byte' = inp[p]
    ELSE /\ p' = p + 1
         /\ last_multi_char_leading_byte' =
                IF IsMultibyte(inp[p]) THEN 0 ELSE last_multi_char_leading_byte

\* Mutant: a string of exactly MIN characters is not enough.
Collected_more_than_min(grep_ok) ==
    \/ last_s_was_maybe_cut /\ ok_char_nb > 0 /\ ok_s_p = inp_start_p
    \/ ok_char_nb > chars_min_nb /\ grep_ok

\* The string collected so far is to be given back, whatever follows it.
Collected(grep_ok) ==
    \/ last_s_was_maybe_cut /\ ok_char_nb > 0 /\ ok_s_p = inp_start_p
    \/ ok_char_nb >= chars_min_nb /\ grep_ok

Rejected == ~PassesFilter(inp[p]) \/ OtherBlock(inp[p])

\* Mutant: grep_char_ok is not reset for the next string.
Restart_keeps_grep ==
    /\ InLoop
    /\ Rejected
    /\ ~Collected(GrepOkWith(inp[p]))
    /\ SkipRejected
    /\ ok_char_nb' = 0
    /\ ok_s_p' = p'
    /\ grep_char_ok' = GrepOkWith(inp[p])
    /\ UNCHANGED <<given_vars, inp_start_p, last_s_was_maybe_cut, pc, results>>

\* A character is rejected, and with it what was collected before it.
Restart ==
    /\ InLoop
    /\ Rejected
    /\ ~Collected(GrepOkWith(inp[p]))
    /\ SkipRejected
    /\ ok_char_nb' = 0
    /\ ok_s_p' = p'
    /\ grep_char_ok' = NoGrep
    /\ UNCHANGED <<given_vars, inp_start_p, last_s_was_maybe_cut, pc, results>>

\* A character is rejected behind a string to be given back: break.
Break ==
    /\ InLoop
    /\ Rejected
    /\ Collected(GrepOkWith(inp[p]))
    /\ SkipRejected
    /\ pc' = "break"
    /\ grep_char_ok' = GrepOkWith(inp[p])
    /\ UNCHANGED <<given_vars, inp_start_p, last_s_was_maybe_cut, ok_s_p,
                   ok_char_nb, results>>

\* Behind the loop.

LoopLeft == pc = "break" \/ (pc = "loop" /\ ~InLoop)

TouchesLeft  == ok_s_p = inp_start_p
TouchesRight == ok_s_p + ok_char_nb > Len(inp)

IsMaybeCut == \/ ok_char_nb >= CharMax
              \/ TouchesRight /\ ~invalid_bytes_after_inp

\* Mutant: whatever follows a cut string continues it.
CompletesPrevious_anywhere == last_s_was_maybe_cut

CompletesPrevious == TouchesLeft /\ last_s_was_maybe_cut

\* Mutant: a string need not touch the end of the buffer.
ToBeFilteredAgain_anywhere ==
    /\ ~CompletesPrevious
    /\ ~invalid_bytes_after_inp
    /\ ok_char_nb < CharMax \/ ~grep_char_ok

\* Mutant: the completion of a printed string is kept as well.
ToBeFilteredAgain_completions ==
    /\ TouchesRight
    /\ ~invalid_bytes_after_inp
    /\ ok_char_nb < CharMax \/ ~grep_char_ok

ToBeFilteredAgain ==
    /\ ~CompletesPrevious
    /\ TouchesRight
    /\ ~invalid_bytes_after_inp
    /\ ok_char_nb < CharMax \/ ~grep_char_ok

IsDismissed ==
    /\ ~CompletesPrevious
    /\ ~ToBeFilteredAgain
    /\ ~grep_char_ok \/ ok_char_nb < chars_min_nb

\* next() returns None: nothing is left, or what is left is dismissed.
Exhaust ==
    /\ LoopLeft
    /\ ok_char_nb = 0 \/ IsDismissed
    /\ pc' = "exhausted"
    /\ UNCHANGED <<iterator_vars, local_vars, results>>

\* next() returns Some(SplitStrResult).
Return ==
    /\ LoopLeft
    /\ ok_char_nb > 0
    /\ ~IsDismissed
    /\ results' = Append(results,
           [ from                       |-> ok_s_p,
             nb                         |-> ok_char_nb,
             s_completes_previous_s     |-> CompletesPrevious,
             s_is_maybe_cut             |-> IsMaybeCut,
             s_is_to_be_filtered_again  |-> ToBeFilteredAgain,
             s_satisfies_min_char_rule  |-> ok_char_nb >= chars_min_nb,
             s_satisfies_grep_char_rule |-> grep_char_ok ])
    /\ inp_start_p' = IF ok_char_nb >= CharMax THEN p ELSE inp_start_p
    /\ last_s_was_maybe_cut' = IsMaybeCut
    /\ pc' = "returned"
    /\ UNCHANGED <<given_vars, p, local_vars>>

\* A step inside next().
NextStep == Accept \/ Restart \/ Break \/ Exhaust \/ Return

=============================================================================
