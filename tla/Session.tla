------------------------------ MODULE Session ------------------------------
(***************************************************************************)
(* One scanner at work on the inputs of the command line: the loop of      *)
(* main::run gives the slices of the Slicer, with their labels and their   *)
(* flag, to FindingCollection::from, one after the other (src/main.rs).    *)
(*                                                                         *)
(* Threads are left out: the scope of the pool makes the main thread wait  *)
(* for the job before it reads again, and jobs share nothing but the slice *)
(* (Pipeline).  What is left is how the end of a file, which the Slicer    *)
(* sees, meets a string that goes on in the next file, a leftover, the     *)
(* decoder's inner state and a window, which it does not see.              *)
(***************************************************************************)
EXTENDS Scanner

CONSTANTS NInputs, Size, Openable, Faulty, BufLen    \* as in Slicer

VARIABLES current_input_idx, current_input_is_last, reader, input_buffer, item,
          delivered

S == INSTANCE Slicer

slicer_vars == <<current_input_idx, current_input_is_last, reader, input_buffer,
                 item, delivered>>
session_vars == <<vars, slicer_vars>>

\* A slice is at most the Slicer's buffer, and all labels and flags that the
\* Slicer returns are possible parameters of from().
ASSUME SessionAssumption ==
    /\ S!InputsOK
    /\ MaxSlice = BufLen
    /\ LastFlags = BOOLEAN
    /\ FileIds = {S!FileId(i) : i \in S!Sources}

SessionInit == Init /\ S!Init

InputEnded == item \in {S!None, S!Panic}

\* The for loop gets a slice and has it scanned.
Feed ==
    /\ ~InputEnded
    /\ S!ReadSome \/ S!SwitchInput
    /\ Begin
    /\ slice_len' = item'.len
    /\ is_last_input_buffer' = item'.is_last
    /\ input_file_id' = item'.id

\* The for loop ends, or next() panics.  The scanner is not told.
EndOfInput ==
    /\ ~InputEnded
    /\ step = "idle"
    /\ S!EndInput \/ S!ReadError
    /\ UNCHANGED vars

Scan == ScanStep /\ UNCHANGED slicer_vars

Ended ==
    /\ InputEnded \/ step = "panicked"
    /\ UNCHANGED session_vars

SessionNext == Feed \/ EndOfInput \/ Scan \/ Ended

SessionSpec == SessionInit /\ [][SessionNext]_session_vars

\* Sequential code that runs on.
FairSession == SessionSpec /\ WF_session_vars(SessionNext)

-----------------------------------------------------------------------------

\* The input that byte number b of the whole input comes from.
OriginOf(b) == delivered[b + 1][1]

\* The two things a printed line says of where a finding is: the label names the
\* file, the position counts over all files.  They agree: the byte at the position
\* is a byte of the file, although the label is that of a slice, the position that
\* of a window, and a string may have begun in an earlier slice or file.
PositionAndLabelAgree ==
    \A i \in 1 .. Len(Findings) :
        OriginOf(Findings[i].position) = Findings[i].input_file_id

\* All inputs are read to their end, or a read fails, or the scanner panics: no
\* slice and no switch from file to file keeps it for ever.
Termination == <>(InputEnded \/ step = "panicked")

-----------------------------------------------------------------------------
\* What the documentation says, and the code does not.

\* "In case this is the last input_buffer of the stream, last must be set to
\* correctly flush": when all is read, no string of MIN characters is left
\* unprinted.
NothingLeftAtEnd ==
    item = S!None => Len(last_scan_run_leftover) < CharsMin

\* "A label identifying the origin of the input data: ... Some(1) for input coming
\* from the first file": some of the finding comes from the file it is said to
\* come from.
LabelNamesTheOrigin ==
    \A i \in 1 .. Len(Findings) :
        \E k \in 1 .. Len(Findings[i].s) :
            OriginOf(Findings[i].s[k].at) = Findings[i].input_file_id

=============================================================================
