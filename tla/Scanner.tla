------------------------------ MODULE Scanner ------------------------------
(***************************************************************************)
(* FindingCollection::from of src/finding_collection.rs with the state it  *)
(* keeps from one slice of input to the next (ScannerState, scanner.rs).   *)
(*                                                                         *)
(* A slice is decoded window by window; what one call of the decoder gives *)
(* is split by a SplitStr iterator, behind the text that an earlier call   *)
(* left over; the strings it returns become findings or the new leftover.  *)
(*                                                                         *)
(* The decoder (encoding_rs, external) reads a stream in which, at every   *)
(* place, any of the characters of Chars or an invalid byte may come next. *)
(* A character is decoded when its last byte is read; the bytes before it  *)
(* are kept in the decoder's inner state, over calls and slices.           *)
(***************************************************************************)
EXTENDS Naturals, Sequences

CONSTANTS
    Af, Ubf,      \* as in SplitStr
    CharsMin,     \* mission.chars_min_nb
    GrepChars,    \* the values of mission.filter.grep_char
    SameBlock,    \* mission.require_same_unicode_block
    LineLen,      \* mission.output_line_char_nb_max
    OutputBufLens,\* the values of OUTPUT_BUF_LEN, one for each build
    Chars,        \* characters: their leading byte in UTF-8 and their width in
                  \* bytes in the encoding of the mission
    Invalid,      \* whether there may be invalid bytes in the stream
    LastFlags,    \* the values is_last_input_buffer is given
    FileIds,      \* the values input_file_id is given
    MaxSlice,     \* bound: bytes in one slice
    MaxBytes      \* bound: bytes in the stream

CharMax == LineLen

VARIABLES
    \* The iterator.
    inp, invalid_bytes_after_inp, chars_min_nb, require_same_unicode_block,
    grep_char, inp_start_p, p, last_s_was_maybe_cut, pc, ok_s_p, ok_char_nb,
    grep_char_ok, last_multi_char_leading_byte, results,
    \* ScannerState.
    decoder,      \* the bytes of an unfinished character
    last_scan_run_leftover,
    last_run_str_was_printed_and_is_maybe_cut_str,
    consumed_bytes,
    \* What the build and the command line say, once for all calls of from().
    output_buf_len,   \* the length of the collection's output_buffer_bytes
    filter_grep_char, \* mission.filter.grep_char
    \* The parameters of from().
    slice_len, is_last_input_buffer, input_file_id,
    \* Its local variables.
    step,         \* where from() is
    decoder_input_start, decoder_input_end, is_last_window, extra_round,
    decoder_output_start,
    last_window_leftover,                  \* the text, not only its length
    last_window_str_was_printed_and_is_maybe_cut_str,
    position_precision, decoder_result,
    decoder_read,                          \* counted from the slice's start
    text,         \* what this call of the decoder wrote, then also the
                  \* leftover in front of it: the iterator's buffer
    v,                \* the findings in the collection
    str_buf_overflow, \* whether the collection is marked as incomplete
    \* History.
    stream,       \* what the decoder has decoded
    printed,      \* the findings in the collections returned so far
    incomplete    \* whether one of these collections was marked so

split_vars == <<inp, invalid_bytes_after_inp, chars_min_nb,
                require_same_unicode_block, grep_char, inp_start_p, p,
                last_s_was_maybe_cut, pc, ok_s_p, ok_char_nb, grep_char_ok,
                last_multi_char_leading_byte, results>>
ss_vars == <<decoder, last_scan_run_leftover,
             last_run_str_was_printed_and_is_maybe_cut_str, consumed_bytes>>
param_vars == <<output_buf_len, filter_grep_char, slice_len,
                is_last_input_buffer, input_file_id>>
window_vars == <<decoder_input_start, decoder_input_end, is_last_window,
                 extra_round>>
call_vars == <<decoder_result, decoder_read>>
collection_vars == <<v, str_buf_overflow>>
returned_vars == <<printed, incomplete>>
cut_flag == last_window_str_was_printed_and_is_maybe_cut_str
vars == <<split_vars, ss_vars, param_vars, step, window_vars,
          decoder_output_start, last_window_leftover, cut_flag,
          position_precision, call_vars, text, collection_vars, stream,
          returned_vars>>

SP == INSTANCE SplitStr

\* The bytes of a character in UTF-8.
CharLen(lead) == IF lead < 128 THEN 1
                 ELSE IF lead < 224 THEN 2
                 ELSE IF lead < 240 THEN 3 ELSE 4

ASSUME ScannerAssumption ==
    /\ Af \subseteq SP!Ascii
    /\ Ubf \subseteq 192 .. 247
    /\ LineLen \in Nat \ {0}
    /\ CharsMin \in 0 .. 255
    /\ OutputBufLens \subseteq Nat
    /\ \A grep \in GrepChars : SP!GrepCharOK(grep)
    /\ SameBlock \in BOOLEAN
    /\ Chars \subseteq [lead : SP!LeadingBytes, width : Nat \ {0}]
    /\ \A c \in Chars : CharLen(c.lead) <= 3 * c.width
    /\ Invalid \in BOOLEAN
    /\ LastFlags \subseteq BOOLEAN
    /\ FileIds \subseteq 0 .. 255
    /\ MaxSlice \in Nat
    /\ MaxBytes \in Nat

-----------------------------------------------------------------------------
\* Decoded text: a sequence of characters, each with its leading byte and the
\* bytes at .. end - 1 of the stream it was decoded from (history).

Utf8Len(t) ==
    LET len[i \in 0 .. Len(t)] ==
            IF i = 0 THEN 0 ELSE len[i - 1] + CharLen(t[i].lead)
    IN  len[Len(t)]

Leads(t) == [i \in 1 .. Len(t) |-> t[i].lead]

NoBytes == [lead |-> 0, at |-> 0, left |-> 0]

\* consumed_bytes counts from 0 here; the program starts it at the mission's
\* counter_offset, which is the same for all scanners and is in Pipeline.
Init ==
    /\ SP!NoIterator
    /\ decoder = NoBytes
    /\ last_scan_run_leftover = <<>>
    /\ last_run_str_was_printed_and_is_maybe_cut_str = FALSE
    /\ consumed_bytes = 0
    /\ slice_len = 0
    /\ is_last_input_buffer = FALSE
    /\ input_file_id = 0
    /\ output_buf_len \in OutputBufLens
    /\ filter_grep_char \in GrepChars
    /\ step = "idle"
    /\ decoder_input_start = 0
    /\ decoder_input_end = 0
    /\ is_last_window = FALSE
    /\ extra_round = FALSE
    /\ decoder_output_start = 0
    /\ last_window_leftover = <<>>
    /\ cut_flag = FALSE
    /\ position_precision = "Exact"
    /\ decoder_result = "InputEmpty"
    /\ decoder_read = 0
    /\ text = <<>>
    /\ v = <<>>
    /\ str_buf_overflow = FALSE
    /\ stream = <<>>
    /\ printed = <<>>
    /\ incomplete = FALSE

\* The parameters of a call.  No slice comes after the last one.
Called ==
    /\ ~is_last_input_buffer
    /\ \E n \in 0 .. MaxSlice, last \in LastFlags, id \in FileIds :
         /\ consumed_bytes + n <= MaxBytes
         /\ slice_len' = n
         /\ is_last_input_buffer' = last
         /\ input_file_id' = id
    /\ UNCHANGED <<output_buf_len, filter_grep_char>>

\* Mutant: the leftover is not taken over.
Begin_drops_leftover ==
    /\ step = "idle"
    /\ Called
    /\ str_buf_overflow' = FALSE
    /\ step' = IF Utf8Len(last_scan_run_leftover) <= output_buf_len
               THEN "window" ELSE "panicked"
    /\ decoder_input_start' = 0
    /\ decoder_read' = 0
    /\ is_last_window' = FALSE
    /\ extra_round' = FALSE
    /\ last_window_leftover' = <<>>
    /\ decoder_output_start' = Utf8Len(last_scan_run_leftover)
    /\ last_scan_run_leftover' = <<>>
    /\ cut_flag' = last_run_str_was_printed_and_is_maybe_cut_str
    /\ UNCHANGED <<split_vars, decoder, consumed_bytes, decoder_input_end,
                   last_run_str_was_printed_and_is_maybe_cut_str,
                   position_precision, decoder_result, text, v, stream,
                   returned_vars>>

\* Mutant: the output buffer is not started anew.
Begin_appends ==
    /\ step = "idle"
    /\ Called
    /\ str_buf_overflow' = FALSE
    /\ step' = IF Utf8Len(last_scan_run_leftover) <= output_buf_len
               THEN "window" ELSE "panicked"
    /\ decoder_input_start' = 0
    /\ decoder_read' = 0
    /\ is_last_window' = FALSE
    /\ extra_round' = FALSE
    /\ last_window_leftover' = last_scan_run_leftover
    /\ decoder_output_start' = decoder_output_start + Utf8Len(last_scan_run_leftover)
    /\ last_scan_run_leftover' = <<>>
    /\ cut_flag' = last_run_str_was_printed_and_is_maybe_cut_str
    /\ UNCHANGED <<split_vars, decoder, consumed_bytes, decoder_input_end,
                   last_run_str_was_printed_and_is_maybe_cut_str,
                   position_precision, decoder_result, text, v, stream,
                   returned_vars>>

\* from() is called, and makes a new collection.  The leftover is copied to the
\* front of its output buffer.
Begin ==
    /\ step = "idle"
    /\ Called
    /\ str_buf_overflow' = FALSE
    /\ step' = IF Utf8Len(last_scan_run_leftover) <= output_buf_len
               THEN "window" ELSE "panicked"
    /\ decoder_input_start' = 0
    /\ decoder_read' = 0
    /\ is_last_window' = FALSE
    /\ extra_round' = FALSE
    /\ last_window_leftover' = last_scan_run_leftover
    /\ decoder_output_start' = Utf8Len(last_scan_run_leftover)
    /\ last_scan_run_leftover' = <<>>
    /\ cut_flag' = last_run_str_was_printed_and_is_maybe_cut_str
    /\ UNCHANGED <<split_vars, decoder, consumed_bytes, decoder_input_end,
                   last_run_str_was_printed_and_is_maybe_cut_str,
                   position_precision, decoder_result, text, v, stream,
                   returned_vars>>

\* Mutant: the window is not cut off at the end of the slice.
OpenWindow_past_the_end ==
    /\ step = "window"
    /\ decoder_input_start < slice_len
    /\ decoder_input_end' = decoder_input_start + 2 * LineLen
    /\ is_last_window' = (decoder_input_end' >= slice_len)
    /\ step' = "decode"
    /\ UNCHANGED <<split_vars, ss_vars, param_vars, decoder_input_start,
                   extra_round, decoder_output_start, last_window_leftover,
                   cut_flag, position_precision, call_vars, text,
                   collection_vars, stream, returned_vars>>

\* Mutant: the width of a window is zero.
OpenWindow_empty ==
    /\ step = "window"
    /\ decoder_input_start < slice_len
    /\ decoder_input_end' = decoder_input_start
    /\ step' = "decode"
    /\ UNCHANGED <<split_vars, ss_vars, param_vars, decoder_input_start,
                   is_last_window, extra_round, decoder_output_start,
                   last_window_leftover, cut_flag, position_precision,
                   call_vars, text, collection_vars, stream,
                   returned_vars>>

\* The head of '_input_window_loop.
OpenWindow ==
    /\ step = "window"
    /\ decoder_input_start < slice_len
    /\ LET end == decoder_input_start + 2 * LineLen
       IN  IF end < slice_len
           THEN /\ decoder_input_end' = end
                /\ UNCHANGED is_last_window
           ELSE /\ decoder_input_end' = slice_len
                /\ is_last_window' = TRUE
    /\ step' = "decode"
    /\ UNCHANGED <<split_vars, ss_vars, param_vars, decoder_input_start,
                   extra_round, decoder_output_start, last_window_leftover,
                   cut_flag, position_precision, call_vars, text,
                   collection_vars, stream, returned_vars>>

\* Mutant: the loop ends before the last window.
EndSlice_one_window_early ==
    /\ step = "window"
    /\ decoder_input_start + 2 * LineLen >= slice_len
    /\ last_scan_run_leftover' = last_window_leftover
    /\ last_run_str_was_printed_and_is_maybe_cut_str' = cut_flag
    /\ consumed_bytes' = consumed_bytes + decoder_input_start
    /\ printed' = printed \o v
    /\ incomplete' = (incomplete \/ str_buf_overflow)
    /\ v' = <<>>
    /\ step' = "idle"
    /\ UNCHANGED <<split_vars, decoder, param_vars, window_vars,
                   decoder_output_start, last_window_leftover, cut_flag,
                   position_precision, call_vars, text, str_buf_overflow, stream>>

\* Mutant: the flag of a cut string is not stored.
EndSlice_forgets_cut ==
    /\ step = "window"
    /\ decoder_input_start >= slice_len
    /\ last_scan_run_leftover' = last_window_leftover
    /\ last_run_str_was_printed_and_is_maybe_cut_str' = FALSE
    /\ consumed_bytes' = consumed_bytes + decoder_input_start
    /\ printed' = printed \o v
    /\ incomplete' = (incomplete \/ str_buf_overflow)
    /\ v' = <<>>
    /\ step' = "idle"
    /\ UNCHANGED <<split_vars, decoder, param_vars, window_vars,
                   decoder_output_start, last_window_leftover, cut_flag,
                   position_precision, call_vars, text, str_buf_overflow, stream>>

\* from() stores its state in ScannerState and returns the collection.
EndSlice ==
    /\ step = "window"
    /\ decoder_input_start >= slice_len
    /\ last_scan_run_leftover' = last_window_leftover
    /\ last_run_str_was_printed_and_is_maybe_cut_str' = cut_flag
    /\ consumed_bytes' = consumed_bytes + decoder_input_start
    /\ printed' = printed \o v
    /\ incomplete' = (incomplete \/ str_buf_overflow)
    /\ v' = <<>>
    /\ step' = "idle"
    /\ UNCHANGED <<split_vars, decoder, param_vars, window_vars,
                   decoder_output_start, last_window_leftover, cut_flag,
                   position_precision, call_vars, text, str_buf_overflow, stream>>

-----------------------------------------------------------------------------
\* One call of decode_to_str_without_replacement() is a run of these steps: it
\* reads and writes characters until one of three things ends it.

Available == decoder_input_end - decoder_read
Free      == output_buf_len - decoder_output_start
StreamPos == consumed_bytes + decoder_read

Decoding == /\ step = "decode"
            /\ UNCHANGED <<split_vars, last_scan_run_leftover,
                   last_run_str_was_printed_and_is_maybe_cut_str,
                   consumed_bytes, param_vars, window_vars,
                   last_window_leftover, cut_flag, position_precision,
                   collection_vars, returned_vars>>

Write(char) ==
    /\ CharLen(char.lead) <= Free
    /\ decoder_output_start' = decoder_output_start + CharLen(char.lead)
    /\ text' = Append(text, char)
    /\ stream' = Append(stream, char)
    /\ UNCHANGED <<decoder_result, step>>

EndCall(result) ==
    /\ decoder_result' = result
    /\ step' = "decoded"
    /\ UNCHANGED <<decoder_output_start, text, stream>>

\* A whole character.
DecodeChar ==
    /\ Decoding
    /\ decoder = NoBytes
    /\ \E c \in Chars :
         /\ c.width <= Available
         /\ Write([lead |-> c.lead, at |-> StreamPos, end |-> StreamPos + c.width])
         /\ decoder_read' = decoder_read + c.width
    /\ UNCHANGED decoder

\* The last bytes of a character.
CompleteChar ==
    /\ Decoding
    /\ decoder.left \in 1 .. Available
    /\ Write([lead |-> decoder.lead, at |-> decoder.at,
              end |-> StreamPos + decoder.left])
    /\ decoder_read' = decoder_read + decoder.left
    /\ decoder' = NoBytes

\* All bytes that are left belong to an unfinished character.
StartChar ==
    /\ Decoding
    /\ decoder = NoBytes
    /\ Available > 0
    /\ \E c \in Chars :
         /\ c.width > Available
         /\ decoder' = [lead |-> c.lead, at |-> StreamPos,
                        left |-> c.width - Available]
    /\ decoder_read' = decoder_input_end
    /\ EndCall("InputEmpty")

ContinueChar ==
    /\ Decoding
    /\ Available > 0
    /\ decoder.left > Available
    /\ decoder' = [decoder EXCEPT !.left = @ - Available]
    /\ decoder_read' = decoder_input_end
    /\ EndCall("InputEmpty")

\* All bytes are read; with `last' set, no unfinished character is left either.
InputEmpty ==
    /\ Decoding
    /\ Available = 0
    /\ extra_round => decoder = NoBytes
    /\ EndCall("InputEmpty")
    /\ UNCHANGED <<decoder, decoder_read>>

\* An invalid byte, one that breaks off an unfinished character, or the end of
\* the stream (`last') in an unfinished character.  A decoder that owes text after
\* such a byte (UTF-16, gb18030) is not covered: the call ends here.
Malformed ==
    /\ Decoding
    /\ \/ /\ Invalid /\ Available > 0
          /\ decoder_read' = decoder_read + 1
       \/ /\ Invalid /\ Available > 0 /\ decoder # NoBytes
          /\ UNCHANGED decoder_read
       \/ /\ extra_round /\ Available = 0 /\ decoder # NoBytes
          /\ UNCHANGED decoder_read
    /\ decoder' = NoBytes
    /\ EndCall("Malformed")

\* There may be no room for the next character, whichever it is.
OutputFull ==
    /\ Decoding
    /\ Available > 0
    /\ Free < 4
    /\ EndCall("OutputFull")
    /\ UNCHANGED <<decoder, decoder_read>>

Decode == DecodeChar \/ CompleteChar \/ StartChar \/ ContinueChar
            \/ InputEmpty \/ Malformed \/ OutputFull

-----------------------------------------------------------------------------
\* What the decoder wrote is split behind the leftover.

\* The text written starts with a multi-byte character whose first bytes came
\* with an earlier slice.  Decoding the slice again with a new decoder shows
\* this only if the result differs from what was written.
MayStartBefore ==
    /\ decoder_input_start = 0
    /\ text # <<>>
    /\ SP!IsMultibyte(text[1].lead)
    /\ text[1].at < consumed_bytes

\* Mutant: a leftover does not cost precision.
Precision_of_the_call(differs) ==
    IF MayStartBefore /\ differs THEN "Before" ELSE "Exact"

Precision(differs) ==
    IF last_window_leftover # <<>> \/ (MayStartBefore /\ differs)
    THEN "Before" ELSE "Exact"

\* `decoder_output_start' as it was before the call, and the leftover's length.
SplitStartUnderflows ==
    decoder_output_start - Utf8Len(text) < Utf8Len(last_window_leftover)

\* Mutant: only the end of the stream ends a string.
InvalidBytesAfter_only_at_end == is_last_window /\ is_last_input_buffer

InvalidBytesAfter ==
    decoder_result = "Malformed" \/ (is_last_window /\ is_last_input_buffer)

\* Mutant: the flag of a cut string stays set until a string resets it.
StartSplit_keeps_flag ==
    /\ step = "decoded"
    /\ IF SplitStartUnderflows
       THEN /\ step' = "panicked"
            /\ UNCHANGED <<split_vars, text, last_window_leftover, cut_flag,
                           position_precision>>
       ELSE /\ step' = "split"
            /\ SP!New(Leads(last_window_leftover \o text), CharsMin, SameBlock,
                      cut_flag, InvalidBytesAfter, filter_grep_char)
            /\ text' = last_window_leftover \o text
            /\ \E differs \in BOOLEAN : position_precision' = Precision(differs)
            /\ last_window_leftover' = <<>>
            /\ UNCHANGED cut_flag
    /\ UNCHANGED <<ss_vars, param_vars, window_vars, decoder_output_start,
                   call_vars, collection_vars, stream, returned_vars>>

\* The iterator is made for the text of this call, behind the leftover, which is
\* used only once; so is the flag of a cut string.
StartSplit ==
    /\ step = "decoded"
    /\ IF SplitStartUnderflows
       THEN /\ step' = "panicked"
            /\ UNCHANGED <<split_vars, text, last_window_leftover, cut_flag,
                           position_precision>>
       ELSE /\ step' = "split"
            /\ SP!New(Leads(last_window_leftover \o text), CharsMin, SameBlock,
                      cut_flag, InvalidBytesAfter, filter_grep_char)
            /\ text' = last_window_leftover \o text
            /\ \E differs \in BOOLEAN : position_precision' = Precision(differs)
            /\ last_window_leftover' = <<>>
            /\ cut_flag' = FALSE
    /\ UNCHANGED <<ss_vars, param_vars, window_vars, decoder_output_start,
                   call_vars, collection_vars, stream, returned_vars>>

\* A step of the iterator.
Split ==
    /\ step = "split"
    /\ SP!NextStep
    /\ UNCHANGED <<ss_vars, param_vars, step, window_vars, decoder_output_start,
                   last_window_leftover, cut_flag, position_precision,
                   call_vars, text, collection_vars, stream,
                   returned_vars>>

Chunk == results[Len(results)]

\* Mutant: a finding is placed at the end of its window.
NewFinding_at_end ==
    [ input_file_id          |-> input_file_id,
      position               |-> consumed_bytes + decoder_input_end,
      position_precision     |-> position_precision,
      s                      |-> SubSeq(text, Chunk.from, Chunk.from + Chunk.nb - 1),
      s_completes_previous_s |-> Chunk.s_completes_previous_s ]

NewFinding ==
    [ input_file_id          |-> input_file_id,
      position               |-> consumed_bytes + decoder_input_start,
      position_precision     |-> position_precision,
      s                      |-> SubSeq(text, Chunk.from, Chunk.from + Chunk.nb - 1),
      s_completes_previous_s |-> Chunk.s_completes_previous_s ]

\* Mutant: a string kept for the next text is printed as well.
TakeChunk_prints_kept ==
    /\ step = "split"
    /\ pc = "returned"
    /\ v' = Append(v, NewFinding)
    /\ IF ~Chunk.s_is_to_be_filtered_again
       THEN /\ last_window_leftover' = <<>>
            /\ cut_flag' = Chunk.s_is_maybe_cut
       ELSE /\ last_window_leftover' =
                   SubSeq(text, Len(text) + 1 - Chunk.nb, Len(text))
            /\ cut_flag' = FALSE
    /\ position_precision' = "After"
    /\ SP!CallNext
    /\ UNCHANGED <<ss_vars, param_vars, step, window_vars, decoder_output_start,
                   call_vars, text, str_buf_overflow, stream, returned_vars>>

\* The body of '_chunk_loop: the chunk becomes a finding, or the leftover, of
\* which the code keeps the length and so the end of the text.
TakeChunk ==
    /\ step = "split"
    /\ pc = "returned"
    /\ IF ~Chunk.s_is_to_be_filtered_again
       THEN /\ v' = Append(v, NewFinding)
            /\ last_window_leftover' = <<>>
            /\ cut_flag' = Chunk.s_is_maybe_cut
       ELSE /\ last_window_leftover' =
                   SubSeq(text, Len(text) + 1 - Chunk.nb, Len(text))
            /\ cut_flag' = FALSE
            /\ UNCHANGED v
    /\ position_precision' = "After"
    /\ SP!CallNext
    /\ UNCHANGED <<ss_vars, param_vars, step, window_vars, decoder_output_start,
                   call_vars, text, str_buf_overflow, stream, returned_vars>>

\* Mutant: the decoder is not flushed.
AfterChunks_no_extra_round ==
    /\ step = "split"
    /\ pc = "exhausted"
    /\ decoder_input_start' = decoder_read
    /\ text' = <<>>
    /\ CASE decoder_result = "InputEmpty" ->
              /\ extra_round' = extra_round
              /\ step' = IF extra_round' # extra_round THEN "decode" ELSE "window"
              /\ UNCHANGED <<collection_vars, decoder_output_start>>
         [] decoder_result = "OutputFull" ->
              /\ v' = <<>>
              /\ str_buf_overflow' = TRUE
              /\ decoder_output_start' = 0
              /\ step' = "decode"
              /\ UNCHANGED extra_round
         [] decoder_result = "Malformed" ->
              /\ step' = "decode"
              /\ UNCHANGED <<collection_vars, decoder_output_start, extra_round>>
    /\ UNCHANGED <<split_vars, ss_vars, param_vars, decoder_input_end,
                   is_last_window, last_window_leftover, cut_flag,
                   position_precision, call_vars, stream, returned_vars>>

\* Behind '_chunk_loop: what ended the call of the decoder decides.
AfterChunks ==
    /\ step = "split"
    /\ pc = "exhausted"
    /\ decoder_input_start' = decoder_read
    /\ text' = <<>>
    /\ CASE decoder_result = "InputEmpty" ->
              /\ extra_round' = (extra_round \/ (is_last_window /\ is_last_input_buffer))
              /\ step' = IF extra_round' # extra_round THEN "decode" ELSE "window"
              /\ UNCHANGED <<collection_vars, decoder_output_start>>
         [] decoder_result = "OutputFull" ->
              /\ v' = <<>>
              /\ str_buf_overflow' = TRUE
              /\ decoder_output_start' = 0
              /\ step' = "decode"
              /\ UNCHANGED extra_round
         [] decoder_result = "Malformed" ->
              /\ step' = "decode"
              /\ UNCHANGED <<collection_vars, decoder_output_start, extra_round>>
    /\ UNCHANGED <<split_vars, ss_vars, param_vars, decoder_input_end,
                   is_last_window, last_window_leftover, cut_flag,
                   position_precision, call_vars, stream, returned_vars>>

-----------------------------------------------------------------------------

\* No more slices, or a panic.
Stopped == /\ \/ step = "idle" /\ is_last_input_buffer
              \/ step = "panicked"
           /\ UNCHANGED vars

\* A step inside from().
ScanStep == \/ OpenWindow \/ EndSlice
            \/ Decode
            \/ StartSplit \/ Split \/ TakeChunk \/ AfterChunks

Next == Begin \/ ScanStep \/ Stopped

Spec == Init /\ [][Next]_vars

-----------------------------------------------------------------------------

Text == Seq([lead : SP!LeadingBytes, at : Nat, end : Nat])

FindingType == [input_file_id : 0 .. 255, position : Nat,
                position_precision : {"Before", "Exact", "After"},
                s : Text, s_completes_previous_s : BOOLEAN]

\* Type invariant.
TypeOK ==
    /\ decoder \in [lead : SP!LeadingBytes, at : Nat, left : Nat]
    /\ last_scan_run_leftover \in Text
    /\ last_run_str_was_printed_and_is_maybe_cut_str \in BOOLEAN
    /\ consumed_bytes \in 0 .. MaxBytes
    /\ slice_len \in 0 .. MaxSlice
    /\ is_last_input_buffer \in BOOLEAN
    /\ input_file_id \in 0 .. 255
    /\ output_buf_len \in OutputBufLens
    /\ filter_grep_char \in GrepChars
    /\ step \in {"idle", "window", "decode", "decoded", "split", "panicked"}
    /\ decoder_input_start \in 0 .. slice_len
    /\ decoder_read \in 0 .. slice_len
    /\ is_last_window \in BOOLEAN
    /\ extra_round \in BOOLEAN
    /\ decoder_output_start \in 0 .. output_buf_len
    /\ last_window_leftover \in Text
    /\ cut_flag \in BOOLEAN
    /\ position_precision \in {"Before", "Exact", "After"}
    /\ decoder_result \in {"InputEmpty", "OutputFull", "Malformed"}
    /\ text \in Text
    /\ v \in Seq(FindingType)
    /\ str_buf_overflow \in BOOLEAN
    /\ printed \in Seq(FindingType)
    /\ incomplete \in BOOLEAN

Findings == printed \o v

StartOf(f) == f.s[1].at
StopOf(f)  == f.s[Len(f.s)].end

Contiguous(t) == \A i \in 1 .. Len(t) - 1 : t[i].end = t[i + 1].at

\* A finding is a piece of the stream: no invalid byte, no character that did
\* not pass, and no character of another slice was left out of its middle,
\* though its text may have been put together from the leftovers of several
\* windows and slices.  The leftover is such a piece as well, and the piece
\* right before what will be decoded next.
FindingsAreStreamText ==
    /\ \A i \in 1 .. Len(Findings) :
          /\ Findings[i].s # <<>>
          /\ Contiguous(Findings[i].s)
          /\ \A k \in 1 .. Len(Findings[i].s) : SP!PassesFilter(Findings[i].s[k].lead)
    /\ Contiguous(last_window_leftover)
    /\ step = "idle" /\ last_scan_run_leftover # <<>> =>
          /\ Contiguous(last_scan_run_leftover)
          /\ last_scan_run_leftover[Len(last_scan_run_leftover)]
                = stream[Len(stream)]

\* No byte of the stream is printed twice, and findings are made in the order in
\* which they lie in the stream.
FindingsInStreamOrder ==
    \A i \in 1 .. Len(Findings) - 1 : StopOf(Findings[i]) <= StartOf(Findings[i + 1])

\* from() places findings as the merger expects it: windows, calls of the decoder
\* that read nothing, a leftover of an earlier slice or an overflow notwithstanding,
\* a collection is sorted, lies in its slice, and the slice is read to its end.
\* (A call that panics never returns.)
Contract == INSTANCE ScanContract WITH
                Start    <- 0,
                busy     <- step # "idle",
                consumed <- consumed_bytes,
                reported <- printed

ImplementsScan == Contract!Spec

\* "The finding is located some [1..2* --output_line_len] bytes after
\* Finding::position" (Precision::After): although the position is that of a call
\* of the decoder, which may have begun in the middle of a character, and the
\* finding any of the strings the call's text and a leftover were split into.
\* (A leftover that is ended by a character of another block is followed by it: the
\* first bytes of this one character may have come before the position.)
AfterIsNear ==
    \A i \in 1 .. Len(Findings) :
        LET f == Findings[i]
        IN  f.position_precision = "After" =>
              /\ f.s[1].end > f.position
              /\ SameBlock \/ StartOf(f) > f.position
              /\ StartOf(f) < f.position + 2 * LineLen

\* "The algorithm could determine the exact position" (Precision::Exact) is said
\* of the position of a call of the decoder.  At least the finding is not one that
\* begins in an earlier call -- but for the first bytes of one character that was
\* still unfinished there -- and begins in the window of that call.
ExactIsNear ==
    \A i \in 1 .. Len(Findings) :
        Findings[i].position_precision = "Exact" =>
            /\ Findings[i].s[1].end > Findings[i].position
            /\ StartOf(Findings[i]) < Findings[i].position + 2 * LineLen

NoGrep == filter_grep_char = {}

\* A finding that is printed on its own has MIN characters and, with GREP, the grep
\* character, however its text was put together; and no finding goes beyond a line.
FindingsSatisfyMinAndGrep ==
    \A i \in 1 .. Len(Findings) :
        LET f == Findings[i]
        IN  /\ Len(f.s) <= LineLen
            /\ ~f.s_completes_previous_s =>
                  /\ Len(f.s) >= CharsMin
                  /\ NoGrep \/ \E k \in 1 .. Len(f.s) : f.s[k].lead \in filter_grep_char

\* The `+' of a printed line ("continues the previous string"): the finding starts
\* at the byte where the finding of this scanner before it stopped, whatever windows
\* and slices lie between and whatever other strings the flag may have survived --
\* unless that one fills its line, which is held to be cut in any case.
ContinuationFollows ==
    ~incomplete /\ ~str_buf_overflow =>
        \A i \in 1 .. Len(Findings) :
            Findings[i].s_completes_previous_s =>
                /\ i > 1
                /\ \/ StopOf(Findings[i - 1]) = StartOf(Findings[i])
                   \/ Len(Findings[i - 1].s) = LineLen

\* Room for a leftover, for what a slice can decode to (a byte of a single-byte
\* encoding is up to three in UTF-8; the first byte of the slice may complete a
\* character of four) and for one more character.  The "at least twice as big as
\* INPUT_BUF_LEN" of the source is not enough: with slices of 4 bytes, a buffer of
\* 8 gets full.
LeftoverMax == IF NoGrep THEN LineLen - 1 ELSE LineLen
RoomEnough == output_buf_len >= 4 * LeftoverMax + 3 * MaxSlice + 2

\* With that room the output buffer never overflows and nothing panics.
\* (OUTPUT_BUF_LEN; "This should never happen", says the code of OutputFull.)
BufferNeverOverflows ==
    RoomEnough => step # "panicked" /\ decoder_result # "OutputFull"

\* stream[i] .. stream[j] is one string: it passes, without a gap.
IsString(i, j) ==
    /\ \A k \in i .. j : SP!PassesFilter(stream[k].lead)
    /\ \A k \in i .. j - 1 : stream[k].end = stream[k + 1].at

StartsString(i) ==
    i = 1 \/ ~SP!PassesFilter(stream[i - 1].lead) \/ stream[i - 1].end # stream[i].at

In(c, t) == \E k \in 1 .. Len(t) : t[k] = c

\* The character is in a finding or kept for the next slice.
Kept(c) == \/ \E i \in 1 .. Len(printed) : In(c, printed[i].s)
           \/ In(c, last_scan_run_leftover)

\* The start of the string was printed as the completion of an earlier finding.
TakenForCompletion(i) ==
    \E k \in 1 .. Len(printed) :
        printed[k].s_completes_previous_s /\ printed[k].s[1] = stream[i]

\* Between slices, no string is lost: of every string in what was decoded that
\* has MIN characters (MIN <= line length, no GREP), the first line is printed,
\* or kept for as long as the string may go on.  It does not matter where the
\* borders of windows and slices and the calls of the decoder cut it -- unless
\* its start was taken for the completion of a string before it (a line that is
\* full is held to be cut, whatever follows it).
FirstLineNotLost ==
    step = "idle" /\ NoGrep /\ ~incomplete =>
        \A i, j \in 1 .. Len(stream) :
            /\ IsString(i, j)
            /\ StartsString(i)
            /\ ~TakenForCompletion(i)
            /\ j + 1 - i \in CharsMin .. LineLen
            => \A k \in i .. j : Kept(stream[k])

\* A slice that is said to be the last one, and is not empty, leaves nothing
\* behind, neither a string kept for the next slice nor bytes in the decoder.
\* (The extra round and `invalid_bytes_after_split_str_buffer'; an empty slice
\* does not get that far.)
LastSliceFlushes ==
    step = "idle" /\ is_last_input_buffer /\ slice_len > 0 =>
        last_scan_run_leftover = <<>> /\ decoder = NoBytes

\* last_run_str_was_printed_and_is_maybe_cut_str: "If yes, this string will be
\* printed, whatever length it has".  Together with MIN: of every string of MIN
\* characters, however long it is and however many slices it spans, all is printed
\* or kept -- or a collection was marked as incomplete.  (False where the first
\* bytes of a character may fill a window: see the run scanner_tail.)
CutStringIsCompleted ==
    step = "idle" /\ NoGrep /\ ~incomplete =>
        \A i, j \in 1 .. Len(stream) :
            /\ IsString(i, j)
            /\ StartsString(i)
            /\ j + 1 - i >= CharsMin
            => \A k \in i .. j : Kept(stream[k])

\* "These string beginnings are always assembled, even if they crossed buffer
\* boundaries": what is kept for the next slice is the beginning of a string, never
\* the tail of one whose first lines were printed, which would be filtered by MIN on
\* its own -- however the string was cut by lines, windows, calls of the decoder and
\* slices before.  (False like CutStringIsCompleted, and where that is false.)
KeptStringIsABeginning ==
    step = "idle" /\ NoGrep /\ ~incomplete /\ last_scan_run_leftover # <<>> =>
        StartsString(Len(stream) + 1 - Len(last_scan_run_leftover))

-----------------------------------------------------------------------------
\* What the documentation says, and the code does not.

\* "If ever it does we clear the FindingCollection to make more space and forget
\* all previous findings": the scan goes on when the output buffer is full.
OverflowIsSurvived == step # "panicked"

=============================================================================
