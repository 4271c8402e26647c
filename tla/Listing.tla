------------------------------ MODULE Listing ------------------------------
(***************************************************************************)
(* The labels in front of a printed string (Finding::print, finding.rs),   *)
(* and the legend that --debug-option prints (help.rs): inputs are lettered*)
(* from A, scanners from a.  The label of an input has come with the slice *)
(* that the scanner was given when it returned the string, that of a       *)
(* scanner is its mission_id.  A string may begin in an earlier slice: the *)
(* scanner keeps a string it cannot finish, and returns it under the label *)
(* of the slice that finishes it (run session_label).                      *)
(*                                                                         *)
(* print() does u8 arithmetic and writes the byte it gets; help() converts *)
(* to u8 and prints the char of that number, in UTF-8.  A build with       *)
(* overflow checks panics where one without them wraps.                    *)
(***************************************************************************)
EXTENDS Slicer

CONSTANTS
    NMissions,    \* ARGS.encoding.len(), the number of scanners
    Finders,      \* bound: the mission_ids that findings are printed for
    Kept          \* bound: the bytes before a slice that a string may begin with

ASSUME ListingAssumption ==
    /\ NMissions \in 1 .. 256
    /\ Finders \subseteq 0 .. NMissions - 1
    /\ Kept \in Nat

VARIABLES
    overflow_checks,  \* whether this build has them
    no_metadata,      \* ARGS.no_metadata
    line              \* the labels of the line printed last

build_vars == <<overflow_checks, no_metadata>>
vars == <<slicer_vars, build_vars, line>>

\* Of the line: its columns, which are sequences of bytes, empty if not printed;
\* and (history) the mission_id of the finding and the place, among the bytes
\* delivered, of its first byte.
NoLine == [kind |-> "none"]
PanicLine(m) == [kind |-> "panic", mission_id |-> m]
Line(file, scanner, m, start) ==
    [kind |-> "line", file |-> file, scanner |-> scanner,
     mission_id |-> m, start |-> start]

-----------------------------------------------------------------------------
\* Finding::print().

Overflows(a, b) == overflow_checks /\ a + b > 255

AddU8(a, b) == (a + b) % 256

\* Mutant: the letters of inputs start at '@'.
FileLabel_from_zero(id) == AddU8(id, 63)

\* "map 1 -> 'A', 2 -> 'B', 3 -> 'C'"
FileLabel(id) == AddU8(id, 64)

\* "map 0 -> 'a', 1 -> 'b', 2 -> 'c' ..."
ScannerLabel(mission_id) == AddU8(mission_id, 97)

FileIsShown    == ~no_metadata /\ NInputs > 1
ScannerIsShown == ~no_metadata /\ NMissions > 1

\* The places where a string returned with this slice may begin: in the slice, or,
\* when it was kept, in the bytes before.  An empty slice returns no string.
Starts == {p \in 1 .. Len(delivered) : p + item.len + Kept > Len(delivered)}

\* The merger prints a finding that a scanner has returned for the slice: its
\* input_file_id is the slice's, wherever the string begins.
PrintFinding ==
    /\ item.kind = "some" /\ item.len > 0
    /\ line.kind # "panic"
    /\ \E m \in Finders, start \in Starts :
         line' = IF \/ FileIsShown /\ Overflows(item.id, 64)
                    \/ ScannerIsShown /\ Overflows(m, 97)
                 THEN PanicLine(m)
                 ELSE Line(IF FileIsShown THEN <<FileLabel(item.id)>> ELSE <<>>,
                           IF ScannerIsShown THEN <<ScannerLabel(m)>> ELSE <<>>,
                           m, start)
    /\ UNCHANGED <<slicer_vars, build_vars>>

\* The next slice.
Read ==
    /\ line.kind # "panic"
    /\ item # Panic
    /\ NextItem
    /\ line' = NoLine
    /\ UNCHANGED build_vars

Stopped == (line.kind = "panic" \/ item = Panic) /\ UNCHANGED vars

ListingInit ==
    /\ Init
    /\ overflow_checks \in BOOLEAN
    /\ no_metadata \in BOOLEAN
    /\ line = NoLine

ListingNext == PrintFinding \/ Read \/ Stopped

ListingSpec == ListingInit /\ [][ListingNext]_vars

-----------------------------------------------------------------------------
\* help(), with --debug-option.

\* char::from(c as u8), in UTF-8.
Utf8(c) == IF c % 256 < 128 THEN <<c % 256>>
           ELSE <<192 + ((c % 256) \div 64), 128 + (c % 64)>>

\* The legend of input n + 1 and of scanner n: both count from zero.
InputLegend(n) == Utf8(n + 65)

EncodingLegend(n) == Utf8(n + 97)

-----------------------------------------------------------------------------

\* The input of the slice that the finding just printed was returned with, and the
\* input that its string begins in.
SliceInput == input_buffer[1][1]

Origin == delivered[line.start][1]

\* The letters of a printed line lead a reader of the legend to the scanner of the
\* finding and to the input of the slice it was returned with -- although the
\* Slicer counts inputs from one and passes on a u8, print() adds 64, and the
\* legend counts from zero and adds 65 -- for the first 63 inputs and 31 scanners;
\* a label above 127 is a byte that no legend (and no UTF-8) has.  A letter is
\* never that of another scanner or of another slice's input, and print() does not
\* panic before the 192nd input and the 160th scanner.  The string itself is of
\* that input if it begins in the slice; one that was kept may be of an input
\* before, and none is of an input behind.
LegendNamesTheSlice ==
    /\ line.kind = "line" /\ FileIsShown =>
          /\ \A n \in 0 .. NInputs - 1 : InputLegend(n) = line.file => n + 1 = SliceInput
          /\ SliceInput <= 63 => InputLegend(SliceInput - 1) = line.file
    /\ line.kind = "line" /\ ScannerIsShown =>
          /\ \A n \in 0 .. NMissions - 1 :
                EncodingLegend(n) = line.scanner => n = line.mission_id
          /\ line.mission_id < 31 => EncodingLegend(line.mission_id) = line.scanner
    /\ line.kind = "panic" => SliceInput >= 192 \/ line.mission_id >= 159
    /\ line.kind = "line" =>
          /\ Origin <= SliceInput
          /\ line.start + item.len > Len(delivered) => Origin = SliceInput

=============================================================================
