------------------------------- MODULE Slicer -------------------------------
(***************************************************************************)
(* The data slice producer of src/input.rs: an iterator that reads the     *)
(* inputs named on the command line one after the other into one buffer,   *)
(* and hands out, with every call of next(), the filled part of it.        *)
(*                                                                         *)
(* A byte is the pair <<input, index>> of the input it comes from and its  *)
(* place in that input: its value is of no concern to the slicer.  Inputs  *)
(* are numbered as `current_input_idx' numbers them: 0 is stdin, 1 the     *)
(* first file.  The returned slice is an alias of `input_buffer', so the   *)
(* item keeps its length only: whoever reads it reads the buffer.          *)
(***************************************************************************)
EXTENDS Naturals, Sequences

CONSTANTS
    NInputs,      \* number of names in ARGS.inputs; 0 when the input is stdin
    Size,         \* Size[i]: the number of bytes input i holds
    Openable,     \* the inputs that File::open() can open
    Faulty,       \* the inputs whose read() may return an error
    BufLen        \* INPUT_BUF_LEN

Sources == IF NInputs = 0 THEN {0} ELSE 1 .. NInputs

InputsOK ==
    /\ NInputs \in Nat
    /\ Size \in [Sources -> Nat]
    /\ Openable \subseteq Sources
    /\ NInputs = 0 => 0 \in Openable
    /\ Faulty \subseteq Openable
    /\ BufLen \in Nat \ {0}

ASSUME SlicerAssumption == InputsOK

VARIABLES
    current_input_idx,
    current_input_is_last,
    reader,       \* the input being read and how many of its bytes are left
    input_buffer,
    item,         \* what the latest call of next() returned
    delivered     \* history: all the bytes handed out, in order

slicer_vars == <<current_input_idx, current_input_is_last, reader,
                 input_buffer, item, delivered>>

Byte == Sources \X Nat

NoByte == <<>>    \* the zeros input_buffer is created with

-----------------------------------------------------------------------------

\* `current_input_idx as u8', a value modulo 2^8.
FileId(idx) == idx % 256

\* Mutant: the last name is peeked at one file too early.
IsLastInput_off_by_one(idx) == idx + 1 >= NInputs

IsLastInput(idx) == idx >= NInputs

\* A file that cannot be opened is replaced by io::empty().
OpenReader(i) == [input |-> i, left |-> IF i \in Openable THEN Size[i] ELSE 0]

FirstIdx == IF NInputs = 0 THEN 0 ELSE 1

\* The items of the iterator: nothing yet, Some((slice, id, last)), None, and
\* the panic that replaces a return when the input cannot be read.
NotCalled == [kind |-> "not_called"]
None      == [kind |-> "none"]
Panic     == [kind |-> "panic"]
Some(n, id, last) == [kind |-> "some", len |-> n, id |-> id, is_last |-> last]

Init ==
    /\ current_input_idx = FirstIdx
    /\ current_input_is_last = IsLastInput(FirstIdx)
    /\ reader = OpenReader(FirstIdx)
    /\ input_buffer = [j \in 1 .. BufLen |-> NoByte]
    /\ item = NotCalled
    /\ delivered = <<>>

\* The byte a read() of the reader r puts in the j-th place of the buffer.
ByteAt(r, j) == <<r.input, Size[r.input] - r.left + j>>

\* Mutant: read() may report more bytes than it had to give.
ReadSome_past_the_end ==
    \E n \in 1 .. BufLen :
        /\ reader.left > 0
        /\ reader' = [reader EXCEPT !.left = @ - n]
        /\ input_buffer' = [j \in 1 .. BufLen |->
               IF j <= n THEN ByteAt(reader, j) ELSE input_buffer[j]]
        /\ item' = Some(n, FileId(current_input_idx), FALSE)
        /\ delivered' = delivered \o [j \in 1 .. n |-> ByteAt(reader, j)]
        /\ UNCHANGED <<current_input_idx, current_input_is_last>>

\* Mutant: read() is taken to fill the whole buffer.
ReadSome_full_buffer_assumed ==
    \E n \in 1 .. BufLen :
        /\ n <= reader.left
        /\ reader' = [reader EXCEPT !.left = IF @ > BufLen THEN @ - BufLen ELSE 0]
        /\ input_buffer' = [j \in 1 .. BufLen |->
               IF j <= n THEN ByteAt(reader, j) ELSE input_buffer[j]]
        /\ item' = Some(n, FileId(current_input_idx), FALSE)
        /\ delivered' = delivered \o [j \in 1 .. n |-> ByteAt(reader, j)]
        /\ UNCHANGED <<current_input_idx, current_input_is_last>>

\* read() fills the buffer with n > 0 bytes, and may stop short of the buffer's
\* length.  The bytes behind the n-th one keep what they were.
ReadSome ==
    \E n \in 1 .. BufLen :
        /\ n <= reader.left
        /\ reader' = [reader EXCEPT !.left = @ - n]
        /\ input_buffer' = [j \in 1 .. BufLen |->
               IF j <= n THEN ByteAt(reader, j) ELSE input_buffer[j]]
        /\ item' = Some(n, FileId(current_input_idx), FALSE)
        /\ delivered' = delivered \o [j \in 1 .. n |-> ByteAt(reader, j)]
        /\ UNCHANGED <<current_input_idx, current_input_is_last>>

\* Mutant: the index of the input is not advanced with the reader.
SwitchInput_stale_label ==
    /\ reader.left = 0
    /\ ~current_input_is_last
    /\ current_input_is_last' = IsLastInput(reader.input + 1)
    /\ reader' = OpenReader(reader.input + 1)
    /\ item' = Some(0, FileId(current_input_idx), FALSE)
    /\ UNCHANGED <<current_input_idx, input_buffer, delivered>>

\* read() returns 0 and there is another file: it is opened, and the empty
\* slice is returned under the new file's label.
SwitchInput ==
    /\ reader.left = 0
    /\ ~current_input_is_last
    /\ current_input_idx' = current_input_idx + 1
    /\ current_input_is_last' = IsLastInput(current_input_idx + 1)
    /\ reader' = OpenReader(current_input_idx + 1)
    /\ item' = Some(0, FileId(current_input_idx + 1), FALSE)
    /\ UNCHANGED <<input_buffer, delivered>>

\* read() returns 0 in the last input: the early return.
EndInput ==
    /\ reader.left = 0
    /\ current_input_is_last
    /\ item' = None
    /\ UNCHANGED <<current_input_idx, current_input_is_last, reader,
                   input_buffer, delivered>>

\* read() returns an error: next() panics.
ReadError ==
    /\ current_input_idx \in Faulty
    /\ item' = Panic
    /\ UNCHANGED <<current_input_idx, current_input_is_last, reader,
                   input_buffer, delivered>>

\* One call of next().
NextItem == ReadSome \/ SwitchInput \/ EndInput \/ ReadError

\* The iterator on its own: it may be called again after it returned None, and
\* never after a panic.
Next == \/ item # Panic /\ NextItem
        \/ item = Panic /\ UNCHANGED slicer_vars

Spec == Init /\ [][Next]_slicer_vars

-----------------------------------------------------------------------------

\* Type invariant.
TypeOK ==
    /\ current_input_idx \in Sources
    /\ current_input_is_last \in BOOLEAN
    /\ reader \in [input : Sources, left : Nat]
    /\ input_buffer \in [1 .. BufLen -> Byte \cup {NoByte}]
    /\ item \in {NotCalled, None, Panic}
                  \cup [kind : {"some"}, len : 0 .. BufLen, id : 0 .. 255,
                        is_last : BOOLEAN]
    /\ delivered \in Seq(Byte)

Contributes(i) == i \in Openable /\ Size[i] > 0

\* No input that can be read and holds a byte lies strictly between i and j.
NothingBetween(i, j) == \A k \in Sources : i < k /\ k < j => ~Contributes(k)

\* In the concatenation of the inputs, byte c stands right behind byte b.
IsNextByte(b, c) ==
    \/ c[1] = b[1] /\ c[2] = b[2] + 1
    \/ /\ b[1] < c[1]
       /\ b[2] = Size[b[1]]
       /\ c[2] = 1
       /\ NothingBetween(b[1], c[1])

\* The slices, one after the other, are the concatenation of the inputs: short
\* reads, empty files, files that cannot be opened and the switch from one
\* input to the next neither lose, repeat nor reorder a byte.  (The loop over
\* reader.read() and File::open() in Slicer::next().)
GaplessDelivery ==
    /\ \A p \in 1 .. Len(delivered) - 1 : IsNextByte(delivered[p], delivered[p + 1])
    /\ delivered # <<>> =>
         /\ delivered[1][2] = 1
         /\ \A k \in Sources : k < delivered[1][1] => ~Contributes(k)

\* next() returns None only after every byte of every input that could be
\* opened was handed out: `current_input_is_last' is never set early.
CompleteAtEnd ==
    item = None =>
        \A i \in Openable : \A k \in 1 .. Size[i] :
            \E p \in 1 .. Len(delivered) : delivered[p] = <<i, k>>

\* The label that goes with a slice names the input all its bytes come from:
\* "None: the origin of the input is stdin", "Some(1): the bytes come from the
\* first file", and so on (the doc comment of Slicer's Item).
LabelTellsSource ==
    item.kind = "some" =>
        \A j \in 1 .. item.len : input_buffer[j][1] = item.id

=============================================================================
