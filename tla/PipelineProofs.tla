--------------------------- MODULE PipelineProofs ---------------------------
(***************************************************************************)
(* Proofs about Pipeline, for every number of inputs, files of every       *)
(* length, buffers of every length and every number of scanners.           *)
(*                                                                         *)
(* The invariants of the runs do not carry themselves over a step: why a   *)
(* scanner reads what the Slicer has delivered needs the buffer's front to *)
(* be the end of what was delivered (SliceInv) and no job to be running    *)
(* outside a scope (ScopeInv).  IInv conjoins them.                        *)
(*                                                                         *)
(* The merger tells collections apart by counting: N of them are a batch.  *)
(* That a batch is one slice follows from where a collection stands among  *)
(* all those that are in flight (received and not merged, or in the        *)
(* channel): the first Older ones are whole batches of earlier slices, the *)
(* others come from the jobs of this scope that have sent (FlightInv).     *)
(*                                                                         *)
(* That the output is sorted does not follow from the output: a finding    *)
(* may be printed because nothing that belongs before it can still turn    *)
(* up.  PrintInv says where every finding is -- printed, in flight, or in  *)
(* the hands of a job -- and that what is printed precedes what is not.    *)
(* An error of the output drops the channel and what waits in it, and a    *)
(* panicking job leaves a batch that never gets complete (Alive): from     *)
(* then on nothing is printed, and the process cannot report success.      *)
(***************************************************************************)
EXTENDS Pipeline, SequenceTheorems, FiniteSetTheorems, TLAPS

\* The Slicer's members belong together.
SlicerInv ==
    /\ reader.input = current_input_idx
    /\ reader.left <= Size[reader.input]
    /\ current_input_is_last = S!IsLastInput(current_input_idx)

\* The slice at the front of the buffer is the end of what was delivered.
SliceInv ==
    item.kind = "some" =>
        /\ item.len <= Len(delivered)
        /\ \A j \in 1 .. item.len :
              input_buffer[j] = delivered[Len(delivered) - item.len + j]

\* There are jobs of the last slice: its scope is open, or it has panicked.
InScope == \E m \in Missions : job[m] # "idle"

\* Jobs are at work in a scope only, a scope has a slice, and the merger does not
\* come to its end before the main thread has left the loop.
ScopeInv ==
    /\ InScope => item.kind = "some"
    /\ main_pc = "scoped" => \A m \in Missions : job[m] # "idle"
    /\ main_pc \in {"next", "joining"} => \A m \in Missions : job[m] = "idle"
    /\ main_pc # "scoped" => \A m \in Missions : job[m] \notin {"scan", "send"}
    /\ merger_pc \in {"finish", "ok"} => main_pc \notin {"next", "scoped"}

\* What mission m's scanner has yet to read of what was delivered.
Unread(m) == IF HasRead(m) THEN 0 ELSE item.len

CountInv ==
    \A m \in Missions : consumed[m] = CounterOffset + Len(delivered) - Unread(m)

ReadInv ==
    \A m \in Missions :
        /\ Len(scanned[m]) = Len(delivered) - Unread(m)
        /\ \A i \in 1 .. Len(scanned[m]) : scanned[m][i] = delivered[i]

\* A batch to be merged is complete, and an index stands in each collection.
BatchInv ==
    merger_pc = "merge" => Len(results) = NMissions /\ Len(index) = NMissions

IInv == /\ TypeOK
        /\ SlicerInv /\ SliceInv /\ ScopeInv
        /\ CountInv /\ ReadInv
        /\ BatchInv

\* TypeOK by the threads that change its variables.
MainOK ==
    /\ main_pc \in {"next", "scoped", "joining", "unwinding", "exited"}
    /\ exit_code \in {"none", "0", "1", "101"}

JobsOK ==
    /\ job \in [Missions -> {"idle", "scan", "send", "done",
                             "scan_panicked", "panicked"}]
    /\ fc \in [Missions -> Collection]
    /\ consumed \in [Missions -> Nat]
    /\ scanned \in [Missions -> Seq(S!Byte)]
    /\ found \in SUBSET R!Finding

MergerOK ==
    /\ chan \in Seq(Collection)
    /\ Len(chan) <= NMissions
    /\ merger_pc \in {"create", "collect", "merge", "finish", "ok", "err"}
    /\ results \in Seq(Collection)
    /\ index \in Seq(Nat)
    /\ output \in Seq(R!Finding)

LEMMA TypeOKByThreads == TypeOK <=> S!TypeOK /\ MainOK /\ JobsOK /\ MergerOK
BY DEF TypeOK, MainOK, JobsOK, MergerOK

-----------------------------------------------------------------------------
(* The Slicer's steps.                                                     *)

LEMMA BufLenIsPositive == BufLen \in Nat \ {0}
BY PipelineAssumption DEF S!InputsOK

\* What read() puts in the buffer are bytes of the inputs.
LEMMA ReadBytesAreBytes ==
  ASSUME S!TypeOK, SlicerInv
  PROVE  \A j \in Nat : S!ByteAt(reader, j) \in S!Byte
<1>1. /\ reader.input \in S!Sources
      /\ reader.left \in Nat
      /\ reader.left <= Size[reader.input]
  BY DEF S!TypeOK, SlicerInv
<1>2. Size[reader.input] \in Nat
  BY <1>1, PipelineAssumption DEF S!InputsOK
<1> QED  BY <1>1, <1>2 DEF S!ByteAt, S!Byte

ItemType == [kind : {"some"}, len : 0 .. BufLen, id : 0 .. 255, is_last : BOOLEAN]

LEMMA ItemsAreTyped ==
  ASSUME NEW n \in 0 .. BufLen, NEW idx \in Nat
  PROVE  S!Some(n, S!FileId(idx), FALSE) \in ItemType
BY BufLenIsPositive DEF S!Some, S!FileId, ItemType

LEMMA SourcesAreNat == \A i \in S!Sources : i \in Nat
BY PipelineAssumption DEF S!InputsOK, S!Sources

\* The reader of another input has that input's bytes to give, or none.
LEMMA OpenedReader ==
  ASSUME NEW i \in S!Sources
  PROVE  /\ S!OpenReader(i) \in [input : S!Sources, left : Nat]
         /\ S!OpenReader(i).input = i
         /\ S!OpenReader(i).left <= Size[i]
<1>1. Size[i] \in Nat
  BY PipelineAssumption DEF S!InputsOK
<1> QED  BY <1>1 DEF S!OpenReader

\* read() fills some of the buffer.
LEMMA ReadSomeDelivers ==
  ASSUME S!TypeOK, SlicerInv, S!ReadSome
  PROVE  /\ S!TypeOK' /\ SlicerInv'
         /\ item'.kind = "some"
         /\ item'.len \in Nat
         /\ Len(delivered') = Len(delivered) + item'.len
         /\ \A i \in 1 .. Len(delivered) : delivered'[i] = delivered[i]
         /\ SliceInv'
<1>1. PICK n \in 1 .. BufLen :
        /\ n <= reader.left
        /\ reader' = [reader EXCEPT !.left = @ - n]
        /\ input_buffer' = [j \in 1 .. BufLen |->
               IF j <= n THEN S!ByteAt(reader, j) ELSE input_buffer[j]]
        /\ item' = S!Some(n, S!FileId(current_input_idx), FALSE)
        /\ delivered' = delivered \o [j \in 1 .. n |-> S!ByteAt(reader, j)]
        /\ UNCHANGED <<current_input_idx, current_input_is_last>>
  BY DEF S!ReadSome
<1> DEFINE new == [j \in 1 .. n |-> S!ByteAt(reader, j)]
<1>2. n \in Nat /\ n <= BufLen
  BY BufLenIsPositive
<1>3. \A j \in 1 .. n : new[j] = S!ByteAt(reader, j) /\ new[j] \in S!Byte
  BY <1>2, ReadBytesAreBytes
<1>4. new \in Seq(S!Byte) /\ Len(new) = n
  BY <1>2, <1>3
<1>5. \A j \in 1 .. n : input_buffer'[j] = new[j]
  BY <1>1, <1>2, BufLenIsPositive
<1>6. delivered' = delivered \o new /\ delivered \in Seq(S!Byte)
  BY <1>1 DEF S!TypeOK
<1> HIDE DEF new
<1>7. /\ delivered' \in Seq(S!Byte)
      /\ Len(delivered') = Len(delivered) + n
      /\ \A i \in 1 .. Len(delivered) + n : delivered'[i] =
            IF i <= Len(delivered) THEN delivered[i] ELSE new[i - Len(delivered)]
  BY <1>4, <1>6, ConcatProperties
<1>8. item' \in ItemType /\ item'.len = n /\ item'.kind = "some"
  <2>1. current_input_idx \in Nat
    BY SourcesAreNat DEF S!TypeOK
  <2>2. item' \in ItemType
    <3>1. n \in 0 .. BufLen
      BY <1>2, BufLenIsPositive
    <3> QED  BY <1>1, <2>1, <3>1, ItemsAreTyped
  <2> QED  BY <1>1, <2>2 DEF S!Some
<1>9. input_buffer' \in [1 .. BufLen -> S!Byte \cup {S!NoByte}]
  <2>1. \A j \in 1 .. BufLen : input_buffer[j] \in S!Byte \cup {S!NoByte}
    BY DEF S!TypeOK
  <2> QED  BY <1>1, <2>1, ReadBytesAreBytes, BufLenIsPositive
<1>10. reader' \in [input : S!Sources, left : Nat] /\ SlicerInv'
  <2>1. /\ reader \in [input : S!Sources, left : Nat]
        /\ reader'.input = reader.input
        /\ reader'.left = reader.left - n
    BY <1>1 DEF S!TypeOK
  <2>2. Size[reader.input] \in Nat
    BY <2>1, PipelineAssumption DEF S!InputsOK
  <2>3. reader' \in [input : S!Sources, left : Nat]
    BY <1>1, <1>2, <2>1
  <2> QED  BY <1>1, <1>2, <2>1, <2>2, <2>3 DEF SlicerInv, S!IsLastInput
<1>11. SliceInv'
  <2>1. Len(delivered) \in Nat
    BY <1>6
  <2> QED  BY <1>2, <1>5, <1>7, <1>8, <2>1 DEF SliceInv
<1>12. S!TypeOK'
  BY <1>1, <1>7, <1>8, <1>9, <1>10 DEF S!TypeOK, ItemType
<1> QED  BY <1>2, <1>6, <1>7, <1>8, <1>10, <1>11, <1>12

\* The switch to the next input hands out an empty slice.
LEMMA SwitchInputDelivers ==
  ASSUME S!TypeOK, SlicerInv, S!SwitchInput
  PROVE  /\ S!TypeOK' /\ SlicerInv'
         /\ item'.kind = "some"
         /\ item'.len = 0
         /\ delivered' = delivered
<1>1. current_input_idx + 1 \in S!Sources
  <2>1. current_input_idx \in S!Sources /\ ~(current_input_idx >= NInputs)
    BY DEF S!SwitchInput, S!TypeOK, SlicerInv, S!IsLastInput
  <2>2. NInputs \in Nat
    BY PipelineAssumption DEF S!InputsOK
  <2> QED  BY <2>1, <2>2 DEF S!Sources
<1>2. item' \in ItemType /\ item'.kind = "some" /\ item'.len = 0
  <2>1. item' = S!Some(0, S!FileId(current_input_idx + 1), FALSE)
    BY DEF S!SwitchInput
  <2>2. current_input_idx + 1 \in Nat /\ 0 \in 0 .. BufLen
    BY <1>1, SourcesAreNat, BufLenIsPositive
  <2>3. item' \in ItemType
    BY <2>1, <2>2, ItemsAreTyped
  <2> QED  BY <2>1, <2>3 DEF S!Some
<1>3. reader' \in [input : S!Sources, left : Nat] /\ SlicerInv'
  BY <1>1, OpenedReader DEF S!SwitchInput, SlicerInv, S!IsLastInput
<1>4. S!TypeOK'
  <2>1. current_input_idx' \in S!Sources /\ current_input_is_last' \in BOOLEAN
    BY <1>1 DEF S!SwitchInput, S!IsLastInput
  <2>2. UNCHANGED <<input_buffer, delivered>>
    BY DEF S!SwitchInput
  <2> QED  BY <1>2, <1>3, <2>1, <2>2 DEF S!TypeOK, ItemType
<1> QED  BY <1>2, <1>3, <1>4 DEF S!SwitchInput

\* None and the panic leave everything but the item alone.
LEMMA NoSlice ==
  ASSUME S!TypeOK, SlicerInv, S!EndInput \/ S!ReadError
  PROVE  /\ S!TypeOK' /\ SlicerInv' /\ SliceInv'
         /\ delivered' = delivered
<1>1. /\ item' \in {S!None, S!Panic}
      /\ UNCHANGED <<current_input_idx, current_input_is_last, reader,
                     input_buffer, delivered>>
  BY DEF S!EndInput, S!ReadError
<1>2. item'.kind # "some"
  BY <1>1 DEF S!None, S!Panic
<1>3. S!TypeOK' /\ SlicerInv'
  BY <1>1 DEF S!TypeOK, SlicerInv, S!IsLastInput
<1> QED  BY <1>1, <1>2, <1>3 DEF SliceInv

-----------------------------------------------------------------------------
(* The frames: parts of the invariant that a step leaves alone.            *)

LEMMA SlicerFrame ==
  ASSUME S!TypeOK, SlicerInv, SliceInv, UNCHANGED slicer_vars
  PROVE  S!TypeOK' /\ SlicerInv' /\ SliceInv'
BY DEF slicer_vars, S!TypeOK, SlicerInv, S!IsLastInput, SliceInv

LEMMA JobsFrame ==
  ASSUME JobsOK, CountInv, ReadInv, UNCHANGED <<slicer_vars, job_vars>>
  PROVE  JobsOK' /\ CountInv' /\ ReadInv'
BY DEF slicer_vars, job_vars, JobsOK, CountInv, ReadInv, Unread, HasRead

LEMMA MergerFrame ==
  ASSUME MergerOK, BatchInv, UNCHANGED <<chan, merger_vars>>
  PROVE  MergerOK' /\ BatchInv'
BY DEF merger_vars, MergerOK, BatchInv

-----------------------------------------------------------------------------
(* The steps of the merger.                                                *)

LEMMA NMissionsIsPositive == NMissions \in Nat \ {0}
BY PipelineAssumption

LEMMA HeadIsAFinding ==
  ASSUME MergerOK, BatchInv, merger_pc = "merge",
         NEW i \in 1 .. NMissions, HasHead(i)
  PROVE  HeadOf(i) \in R!Finding /\ index[i] \in Nat
<1>1. /\ results \in Seq(Collection) /\ i \in 1 .. Len(results)
      /\ index \in Seq(Nat) /\ i \in 1 .. Len(index)
  BY DEF MergerOK, BatchInv
<1>2. results[i] \in Collection /\ index[i] \in Nat
  BY <1>1, ElementOfSeq
<1>3. results[i].v \in Seq(R!Finding)
  BY <1>2 DEF Collection
<1>4. index[i] + 1 \in 1 .. Len(results[i].v)
  BY <1>2, <1>3, LenProperties DEF HasHead
<1> QED  BY <1>2, <1>3, <1>4, ElementOfSeq DEF HeadOf

LEMMA OutputFailsKeepsTypes ==
  ASSUME MergerOK, OutputFails
  PROVE  MergerOK' /\ BatchInv'
BY NMissionsIsPositive, EmptySeq DEF OutputFails, MergerOK, BatchInv

LEMMA MergerKeepsTypes ==
  ASSUME MergerOK, BatchInv, Merger
  PROVE  MergerOK' /\ BatchInv'
<1>1. CASE CreateOutput
  <2>1. CASE OutputFails
    BY <2>1, OutputFailsKeepsTypes
  <2>2. CASE merger_pc' = "collect" /\ UNCHANGED <<chan, results, index, output>>
    BY <2>2 DEF MergerOK, BatchInv
  <2> QED  BY <1>1, <2>1, <2>2 DEF CreateOutput
<1>2. CASE Recv
  <2>1. /\ chan \in Seq(Collection) /\ chan # <<>>
        /\ chan' = Tail(chan)
        /\ results' = Append(results, Head(chan))
        /\ index' = [i \in 1 .. NMissions |-> 0]
        /\ merger_pc' = IF Len(results') = NMissions THEN "merge" ELSE "collect"
        /\ UNCHANGED output
    BY <1>2 DEF Recv, MergerOK
  <2>2. /\ Head(chan) \in Collection
        /\ chan' \in Seq(Collection)
        /\ Len(chan') = Len(chan) - 1
    BY <2>1, HeadTailProperties
  <2>3. results' \in Seq(Collection)
    BY <2>1, <2>2 DEF MergerOK
  <2>4. index' \in Seq(Nat) /\ Len(index') = NMissions
    BY <2>1, NMissionsIsPositive
  <2>5. Len(chan) \in Nat /\ Len(chan') <= NMissions
    BY <2>1, <2>2, NMissionsIsPositive, LenProperties DEF MergerOK
  <2> QED  BY <2>1, <2>2, <2>3, <2>4, <2>5 DEF MergerOK, BatchInv
<1>3. CASE RecvFails
  BY <1>3, EmptySeq DEF RecvFails, MergerOK, BatchInv
<1>4. CASE PrintNext
  <2>1. CASE OutputFails
    BY <2>1, OutputFailsKeepsTypes
  <2>2. ASSUME NEW i \in 1 .. NMissions, HasHead(i),
               output' = Append(output, HeadOf(i)),
               index' = [index EXCEPT ![i] = @ + 1],
               UNCHANGED <<merger_pc, chan, results>>
        PROVE  MergerOK' /\ BatchInv'
    <3>1. merger_pc = "merge"
      BY <1>4 DEF PrintNext
    <3>2. HeadOf(i) \in R!Finding /\ index[i] \in Nat
      BY <2>2, <3>1, HeadIsAFinding
    <3>3. index \in Seq(Nat) /\ i \in 1 .. Len(index) /\ index[i] + 1 \in Nat
      BY <2>2, <3>1, <3>2 DEF MergerOK, BatchInv
    <3>4. index' \in Seq(Nat) /\ Len(index') = Len(index)
      BY <2>2, <3>3, ExceptSeq
    <3>5. output' \in Seq(R!Finding)
      BY <2>2, <3>2 DEF MergerOK
    <3> QED  BY <2>2, <3>4, <3>5 DEF MergerOK, BatchInv
  <2> QED  BY <1>4, <2>1, <2>2 DEF PrintNext
<1>5. CASE BatchPrinted
  BY <1>5, EmptySeq DEF BatchPrinted, MergerOK, BatchInv
<1>6. CASE FinishOutput
  <2>1. CASE OutputFails
    BY <2>1, OutputFailsKeepsTypes
  <2>2. CASE merger_pc' = "ok" /\ UNCHANGED <<chan, results, index, output>>
    BY <2>2 DEF MergerOK, BatchInv
  <2> QED  BY <1>6, <2>1, <2>2 DEF FinishOutput
<1> QED  BY <1>1, <1>2, <1>3, <1>4, <1>5, <1>6 DEF Merger

\* The merger changes nothing of the other threads.
LEMMA MergerStep ==
  ASSUME IInv, Merger
  PROVE  IInv'
<1>1. UNCHANGED <<slicer_vars, main_pc, job_vars, exit_code>>
  BY DEF Merger, CreateOutput, Recv, RecvFails, PrintNext, BatchPrinted, FinishOutput
<1>2. S!TypeOK /\ MainOK /\ JobsOK /\ MergerOK
  BY TypeOKByThreads DEF IInv
<1>3. S!TypeOK' /\ SlicerInv' /\ SliceInv'
  BY <1>1, <1>2, SlicerFrame DEF IInv
<1>4. JobsOK' /\ CountInv' /\ ReadInv'
  BY <1>1, <1>2, JobsFrame DEF IInv
<1>5. MainOK' /\ ScopeInv'
  <2>1. /\ UNCHANGED <<main_pc, job, item>>
        /\ merger_pc' \in {"finish", "ok"} =>
              merger_pc \in {"finish", "ok"} \/ main_pc \notin {"next", "scoped"}
    BY <1>1 DEF Merger, CreateOutput, Recv, RecvFails, PrintNext, BatchPrinted,
                FinishOutput, OutputFails, SendersDropped, slicer_vars, job_vars
  <2> QED  BY <1>1, <1>2, <2>1 DEF IInv, MainOK, ScopeInv, InScope
<1>6. MergerOK' /\ BatchInv'
  BY <1>2, MergerKeepsTypes DEF IInv
<1>7. TypeOK'
  BY <1>2, <1>3, <1>4, <1>5, <1>6 DEF TypeOK, MainOK, JobsOK, MergerOK
<1> QED  BY <1>3, <1>4, <1>5, <1>6, <1>7 DEF IInv

-----------------------------------------------------------------------------
(* The steps of the jobs.                                                  *)

LEMMA CollectionsAreTyped ==
  ASSUME NEW m \in Missions, NEW start \in Nat, NEW n \in Nat,
         NEW v \in Collections(m, start, n)
  PROVE  v \in Seq(R!Finding) /\ FindingsOf(v) \subseteq R!Finding
<1>1. PICK k \in 0 .. MaxFindings :
        v \in [1 .. k -> [position : start .. start + n - 1, mission : {m},
                          nr : 1 .. k]]
  BY DEF Collections
<1>2. k \in Nat
  BY <1>1, PipelineAssumption
<1>3. \A i \in 1 .. k : v[i] \in R!Finding
  <2>1. TAKE i \in 1 .. k
  <2>2. v[i] \in [position : start .. start + n - 1, mission : {m}, nr : 1 .. k]
    BY <1>1
  <2>3. v[i].position \in Nat /\ v[i].mission \in R!Missions /\ v[i].nr \in Nat \ {0}
    BY <1>2, <2>2 DEF Missions
  <2> QED  BY <2>2, <2>3 DEF R!Finding
<1>4. DOMAIN v = 1 .. k
  BY <1>1
<1>5. v = [i \in 1 .. k |-> v[i]]
  BY <1>1
<1>6. v \in Seq(R!Finding)
  BY <1>2, <1>3, <1>5
<1> QED  BY <1>3, <1>4, <1>6 DEF FindingsOf

\* A job that has not read its slice finds it at the front of the buffer.
LEMMA SliceToScan ==
  ASSUME IInv, NEW m \in Missions, ~HasRead(m)
  PROVE  /\ item.len \in Nat
         /\ item.len <= Len(delivered)
         /\ Len(delivered) \in Nat
         /\ \A j \in 1 .. item.len :
               /\ input_buffer[j] \in S!Byte
               /\ input_buffer[j] = delivered[Len(delivered) - item.len + j]
<1>1. item.kind = "some"
  BY DEF IInv, ScopeInv, InScope, HasRead
<1>2. item.len \in Nat
  <2>1. item \in {S!NotCalled, S!None, S!Panic} \cup ItemType
    BY DEF IInv, TypeOK, S!TypeOK, ItemType
  <2>2. item \in ItemType
    BY <1>1, <2>1 DEF S!NotCalled, S!None, S!Panic
  <2> QED  BY <2>2, BufLenIsPositive DEF ItemType
<1>3. delivered \in Seq(S!Byte) /\ Len(delivered) \in Nat
  BY DEF IInv, TypeOK, S!TypeOK
<1>4. /\ item.len <= Len(delivered)
      /\ \A j \in 1 .. item.len :
            input_buffer[j] = delivered[Len(delivered) - item.len + j]
  BY <1>1 DEF IInv, SliceInv
<1>5. \A i \in 1 .. Len(delivered) : delivered[i] \in S!Byte
  BY <1>3, ElementOfSeq
<1>6. \A j \in 1 .. item.len : Len(delivered) - item.len + j \in 1 .. Len(delivered)
  BY <1>2, <1>3, <1>4
<1> QED  BY <1>2, <1>3, <1>4, <1>5, <1>6

\* A scanner reads what it has not read yet of the stream.
LEMMA ScanStep ==
  ASSUME IInv, NEW m \in Missions, Scan(m)
  PROVE  IInv'
<1>1. /\ job[m] = "scan"
      /\ consumed' = [consumed EXCEPT ![m] = @ + item.len]
      /\ scanned' = [scanned EXCEPT ![m] = @ \o SubSeq(input_buffer, 1, item.len)]
      /\ job' = [job EXCEPT ![m] = "send"]
      /\ UNCHANGED <<slicer_vars, main_pc, chan, merger_vars, exit_code>>
  BY DEF Scan
<1>2. PICK v \in Collections(m, consumed[m], item.len) :
        /\ fc' = [fc EXCEPT ![m] = FindingCollection(m, consumed[m], v)]
        /\ found' = found \cup FindingsOf(v)
  BY DEF Scan
<1>3. S!TypeOK /\ MainOK /\ JobsOK /\ MergerOK
  BY TypeOKByThreads DEF IInv
<1>4. /\ item.len \in Nat
      /\ item.len <= Len(delivered)
      /\ Len(delivered) \in Nat
      /\ \A j \in 1 .. item.len :
            /\ input_buffer[j] \in S!Byte
            /\ input_buffer[j] = delivered[Len(delivered) - item.len + j]
  BY <1>1, SliceToScan DEF HasRead
<1>5. UNCHANGED delivered /\ UNCHANGED item
  BY <1>1 DEF slicer_vars
<1> DEFINE slice == SubSeq(input_buffer, 1, item.len)
<1>6. /\ slice \in Seq(S!Byte)
      /\ Len(slice) = item.len
      /\ \A i \in 1 .. item.len : slice[i] = input_buffer[i]
  <2>1. /\ SubSeq(input_buffer, 1, item.len) \in Seq(S!Byte)
        /\ Len(SubSeq(input_buffer, 1, item.len))
              = IF 1 <= item.len THEN item.len - 1 + 1 ELSE 0
        /\ \A i \in 1 .. item.len - 1 + 1 :
              SubSeq(input_buffer, 1, item.len)[i] = input_buffer[1 + i - 1]
    BY <1>4, SubSeqProperties
  <2> QED  BY <1>4, <2>1
<1>7. scanned[m] \in Seq(S!Byte) /\ scanned' = [scanned EXCEPT ![m] = @ \o slice]
  BY <1>1, <1>3 DEF JobsOK
<1> HIDE DEF slice
<1>8. /\ scanned[m] \o slice \in Seq(S!Byte)
      /\ Len(scanned[m] \o slice) = Len(scanned[m]) + item.len
      /\ \A i \in 1 .. Len(scanned[m]) + item.len : (scanned[m] \o slice)[i] =
            IF i <= Len(scanned[m]) THEN scanned[m][i]
                                    ELSE slice[i - Len(scanned[m])]
  <2>1. \A s, t \in Seq(S!Byte) :
          /\ s \o t \in Seq(S!Byte)
          /\ Len(s \o t) = Len(s) + Len(t)
          /\ \A i \in 1 .. Len(s) + Len(t) :
                (s \o t)[i] = IF i <= Len(s) THEN s[i] ELSE t[i - Len(s)]
    BY ConcatProperties
  <2> QED  BY <1>6, <1>7, <2>1
<1>9. /\ consumed[m] \in Nat
      /\ FindingCollection(m, consumed[m], v) \in Collection
      /\ FindingsOf(v) \subseteq R!Finding
  <2>1. consumed[m] \in Nat
    BY <1>3 DEF JobsOK
  <2>2. v \in Seq(R!Finding) /\ FindingsOf(v) \subseteq R!Finding
    BY <1>2, <1>4, <2>1, CollectionsAreTyped
  <2> QED  BY <2>1, <2>2 DEF FindingCollection, Collection
<1>10. JobsOK'
  <2>1. fc' \in [Missions -> Collection] /\ found' \in SUBSET R!Finding
    BY <1>2, <1>3, <1>9 DEF JobsOK
  <2>2. scanned' \in [Missions -> Seq(S!Byte)]
    BY <1>3, <1>7, <1>8 DEF JobsOK
  <2>3. consumed' \in [Missions -> Nat]
    BY <1>1, <1>3, <1>4, <1>9 DEF JobsOK
  <2> QED  BY <1>1, <1>3, <2>1, <2>2, <2>3 DEF JobsOK
<1>11. CountInv'
  <2>1. ASSUME NEW k \in Missions
        PROVE  /\ consumed'[k] = IF k = m THEN consumed[m] + item.len ELSE consumed[k]
               /\ job'[k] = IF k = m THEN "send" ELSE job[k]
    BY <1>1, <1>3 DEF JobsOK
  <2>2. consumed[m] = CounterOffset + Len(delivered) - item.len
    BY <1>1 DEF IInv, CountInv, Unread, HasRead
  <2>3. CounterOffset \in Nat
    BY PipelineAssumption
  <2>4. \A k \in Missions : consumed[k] = CounterOffset + Len(delivered)
                                - (IF HasRead(k) THEN 0 ELSE item.len)
    BY DEF IInv, CountInv, Unread
  <2>5. \A k \in Missions : consumed'[k] = CounterOffset + Len(delivered')
                                - (IF HasRead(k)' THEN 0 ELSE item'.len)
    <3>1. TAKE k \in Missions
    <3>2. CASE k = m
      <4>1. consumed'[k] = consumed[m] + item.len /\ HasRead(k)'
        BY <2>1, <3>2 DEF HasRead
      <4> QED  BY <1>4, <1>5, <2>2, <2>3, <4>1
    <3>3. CASE k # m
      <4>1. consumed'[k] = consumed[k] /\ HasRead(k)' = HasRead(k)
        BY <2>1, <3>3 DEF HasRead
      <4> QED  BY <1>5, <2>4, <4>1
    <3> QED  BY <3>2, <3>3
  <2> QED  BY <2>5 DEF CountInv, Unread
<1>12. ReadInv'
  <2>1. /\ Len(scanned[m]) = Len(delivered) - item.len
        /\ \A i \in 1 .. Len(scanned[m]) : scanned[m][i] = delivered[i]
    BY <1>1 DEF IInv, ReadInv, Unread, HasRead
  <2>2. \A i \in 1 .. Len(delivered) : (scanned[m] \o slice)[i] = delivered[i]
    <3>1. TAKE i \in 1 .. Len(delivered)
    <3>2. Len(scanned[m]) + item.len = Len(delivered)
      BY <1>4, <2>1
    <3>3. CASE i <= Len(scanned[m])
      BY <1>8, <2>1, <3>2, <3>3
    <3>4. CASE ~(i <= Len(scanned[m]))
      <4>1. i - Len(scanned[m]) \in 1 .. item.len
        BY <1>4, <2>1, <3>4
      <4>2. (scanned[m] \o slice)[i] = slice[i - Len(scanned[m])]
        BY <1>8, <3>2, <3>4
      <4>3. Len(delivered) - item.len + (i - Len(scanned[m])) = i
        BY <1>4, <2>1
      <4>4. slice[i - Len(scanned[m])]
               = delivered[Len(delivered) - item.len + (i - Len(scanned[m]))]
        BY <1>4, <1>6, <4>1
      <4> QED  BY <4>2, <4>3, <4>4
    <3> QED  BY <3>3, <3>4
  <2>3. scanned'[m] = scanned[m] \o slice /\ job'[m] = "send"
    BY <1>1, <1>3, <1>7 DEF JobsOK
  <2>4. /\ Len(scanned'[m]) = Len(delivered)
        /\ \A i \in 1 .. Len(scanned'[m]) : scanned'[m][i] = delivered[i]
    <3>1. scanned'[m] = scanned[m] \o slice
      BY <2>3
    <3>2. Len(scanned'[m]) = Len(delivered)
      BY <1>4, <1>8, <2>1, <3>1
    <3>3. \A i \in 1 .. Len(delivered) : scanned'[m][i] = delivered[i]
      BY <2>2, <3>1
    <3> QED  BY <3>2, <3>3
  <2>5. ASSUME NEW k \in Missions, k # m
        PROVE  /\ Len(scanned'[k]) = Len(delivered') - Unread(k)'
               /\ \A i \in 1 .. Len(scanned'[k]) : scanned'[k][i] = delivered'[i]
    <3>1. scanned'[k] = scanned[k] /\ job'[k] = job[k]
      BY <1>1, <1>3, <1>7, <2>5 DEF JobsOK
    <3> QED  BY <1>5, <3>1 DEF IInv, ReadInv, Unread, HasRead
  <2>6. Unread(m)' = 0
    BY <2>3 DEF Unread, HasRead
  <2>7. ASSUME NEW k \in Missions
        PROVE  /\ Len(scanned'[k]) = Len(delivered') - Unread(k)'
               /\ \A i \in 1 .. Len(scanned'[k]) : scanned'[k][i] = delivered'[i]
    <3>1. CASE k = m
      BY <1>4, <1>5, <2>4, <2>6, <3>1
    <3> QED  BY <2>5, <3>1
  <2> QED  BY <2>7 DEF ReadInv
<1>13. S!TypeOK' /\ SlicerInv' /\ SliceInv'
  BY <1>1, <1>3, SlicerFrame DEF IInv
<1>14. MergerOK' /\ BatchInv'
  BY <1>1, <1>3, MergerFrame DEF IInv
<1>15. MainOK' /\ ScopeInv'
  <2>1. main_pc = "scoped" /\ item.kind = "some"
    BY <1>1 DEF IInv, ScopeInv, InScope
  <2> QED  BY <1>1, <1>3, <1>5, <2>1 DEF IInv, MainOK, ScopeInv, JobsOK, merger_vars
<1>16. TypeOK'
  BY <1>10, <1>13, <1>14, <1>15 DEF TypeOK, MainOK, JobsOK, MergerOK
<1> QED  BY <1>11, <1>12, <1>13, <1>14, <1>15, <1>16 DEF IInv

\* What a job sends or fails to send is of no concern to the scanners, and one
\* that panics while it scans has not read its slice.
LEMMA SendStep ==
  ASSUME IInv, NEW m \in Missions, Send(m) \/ SendFails(m) \/ ScanPanics(m)
  PROVE  IInv'
<1>1. /\ \/ /\ job[m] = "send"
            /\ \E s \in {"done", "panicked"} : job' = [job EXCEPT ![m] = s]
         \/ /\ job[m] = "scan"
            /\ job' = [job EXCEPT ![m] = "scan_panicked"]
      /\ UNCHANGED <<slicer_vars, main_pc, fc, consumed, scanned, found,
                     merger_vars, exit_code>>
  BY DEF Send, SendFails, ScanPanics
<1>2. S!TypeOK /\ MainOK /\ JobsOK /\ MergerOK
  BY TypeOKByThreads DEF IInv
<1>3. job' \in [Missions -> {"idle", "scan", "send", "done",
                            "scan_panicked", "panicked"}]
  BY <1>1, <1>2 DEF JobsOK
<1>4. \A k \in Missions : Unread(k)' = Unread(k)
  BY <1>1, <1>2 DEF JobsOK, Unread, HasRead, slicer_vars
<1>5. JobsOK' /\ CountInv' /\ ReadInv'
  BY <1>1, <1>2, <1>3, <1>4 DEF IInv, JobsOK, CountInv, ReadInv, slicer_vars
<1>6. chan' \in Seq(Collection) /\ Len(chan') <= NMissions
  <2>1. CASE Send(m)
    BY <1>2, <2>1, NMissionsIsPositive DEF Send, JobsOK, MergerOK
  <2>2. CASE SendFails(m) \/ ScanPanics(m)
    BY <1>2, <2>2 DEF SendFails, ScanPanics, MergerOK
  <2> QED  BY <2>1, <2>2
<1>7. MergerOK' /\ BatchInv'
  BY <1>1, <1>2, <1>6 DEF IInv, MergerOK, BatchInv, merger_vars
<1>8. S!TypeOK' /\ SlicerInv' /\ SliceInv'
  BY <1>1, <1>2, SlicerFrame DEF IInv
<1>9. MainOK' /\ ScopeInv'
  <2>1. main_pc = "scoped" /\ item.kind = "some"
    BY <1>1 DEF IInv, ScopeInv, InScope
  <2>2. \A k \in Missions : job[k] # "idle" => job'[k] # "idle"
    BY <1>1, <1>2 DEF JobsOK
  <2> QED  BY <1>1, <1>2, <2>1, <2>2
           DEF IInv, MainOK, ScopeInv, slicer_vars, merger_vars
<1>10. TypeOK'
  BY <1>5, <1>7, <1>8, <1>9 DEF TypeOK, MainOK, JobsOK, MergerOK
<1> QED  BY <1>5, <1>7, <1>8, <1>9, <1>10 DEF IInv

-----------------------------------------------------------------------------
(* The steps of the main thread.                                           *)

\* A new slice is unread by all: every job is to scan it, and nobody has read
\* anything behind what was delivered before it.
LEMMA NextSliceStep ==
  ASSUME IInv, NextSlice
  PROVE  IInv'
<1>1. /\ main_pc = "next" /\ main_pc' = "scoped"
      /\ S!ReadSome \/ S!SwitchInput
      /\ job' = [m \in Missions |-> "scan"]
      /\ UNCHANGED <<fc, consumed, scanned, found, chan, merger_vars, exit_code>>
  BY DEF NextSlice
<1>2. S!TypeOK /\ MainOK /\ JobsOK /\ MergerOK /\ SlicerInv /\ SliceInv
  BY TypeOKByThreads DEF IInv
<1>3. delivered \in Seq(S!Byte) /\ Len(delivered) \in Nat
  BY <1>2 DEF S!TypeOK
<1>4. /\ S!TypeOK' /\ SlicerInv' /\ SliceInv'
      /\ item'.kind = "some"
      /\ item'.len \in Nat
      /\ Len(delivered') = Len(delivered) + item'.len
      /\ \A i \in 1 .. Len(delivered) : delivered'[i] = delivered[i]
  <2>1. CASE S!ReadSome
    BY <1>2, <2>1, ReadSomeDelivers
  <2>2. CASE S!SwitchInput
    <3>1. /\ S!TypeOK' /\ SlicerInv'
          /\ item'.kind = "some"
          /\ item'.len = 0
          /\ delivered' = delivered
      BY <1>2, <2>2, SwitchInputDelivers
    <3> QED  BY <1>3, <3>1 DEF SliceInv
  <2> QED  BY <1>1, <2>1, <2>2
<1>5. \A m \in Missions : job[m] = "idle" /\ job'[m] = "scan"
  BY <1>1 DEF IInv, ScopeInv
<1>6. JobsOK'
  BY <1>1, <1>2 DEF JobsOK
<1>7. CountInv'
  <2> SUFFICES ASSUME NEW m \in Missions
               PROVE  consumed'[m] = CounterOffset + Len(delivered') - Unread(m)'
    BY DEF CountInv
  <2>2. consumed[m] = CounterOffset + Len(delivered) - 0
    BY <1>5 DEF IInv, CountInv, Unread, HasRead
  <2>3. Unread(m)' = item'.len
    BY <1>5 DEF Unread, HasRead
  <2>4. consumed'[m] = consumed[m] /\ CounterOffset \in Nat
    BY <1>1, PipelineAssumption
  <2> QED  BY <1>3, <1>4, <2>2, <2>3, <2>4
<1>8. ReadInv'
  <2> SUFFICES ASSUME NEW m \in Missions
               PROVE  /\ Len(scanned'[m]) = Len(delivered') - Unread(m)'
                      /\ \A i \in 1 .. Len(scanned'[m]) : scanned'[m][i] = delivered'[i]
    BY DEF ReadInv
  <2>2. /\ Len(scanned[m]) = Len(delivered) - 0
        /\ \A i \in 1 .. Len(scanned[m]) : scanned[m][i] = delivered[i]
    BY <1>5 DEF IInv, ReadInv, Unread, HasRead
  <2>3. Unread(m)' = item'.len
    BY <1>5 DEF Unread, HasRead
  <2>4. scanned'[m] = scanned[m]
    BY <1>1
  <2> QED  BY <1>3, <1>4, <2>2, <2>3, <2>4
<1>9. MergerOK' /\ BatchInv'
  BY <1>1, <1>2, MergerFrame DEF IInv
<1>10. MainOK' /\ ScopeInv'
  <2>1. merger_pc \notin {"finish", "ok"} /\ merger_pc' = merger_pc
    BY <1>1 DEF IInv, ScopeInv, merger_vars
  <2> QED  BY <1>1, <1>2, <1>4, <1>5, <2>1 DEF MainOK, ScopeInv
<1>11. TypeOK'
  BY <1>4, <1>6, <1>9, <1>10 DEF TypeOK, MainOK, JobsOK, MergerOK
<1> QED  BY <1>4, <1>7, <1>8, <1>9, <1>10, <1>11 DEF IInv

\* A scope ends with all its jobs through, or unwinds with them as they are.
LEMMA ScopeEnds ==
  ASSUME EndScope
  PROVE  /\ main_pc = "scoped"
         /\ \/ /\ main_pc' = "next" /\ job' = [m \in Missions |-> "idle"]
               /\ \A m \in Missions : job[m] = "done"
            \/ /\ main_pc' = "unwinding" /\ job' = job
               /\ \A m \in Missions : job[m] \in {"done", "scan_panicked", "panicked"}
         /\ UNCHANGED <<slicer_vars, fc, consumed, scanned, found, chan,
                        merger_vars, exit_code>>
<1>1. CASE \E m \in Missions : JobPanicked(m)
  BY <1>1 DEF EndScope, JobEnded, JobPanicked
<1>2. CASE ~\E m \in Missions : JobPanicked(m)
  BY <1>2 DEF EndScope, JobEnded
<1> QED  BY <1>1, <1>2

\* The other steps of the main thread move no byte, and leave what is unread.
LEMMA OtherMainStep ==
  ASSUME IInv, InputEnds \/ InputFails \/ EndScope \/ JoinMerger \/ Die
  PROVE  IInv'
<1>1. S!TypeOK /\ MainOK /\ JobsOK /\ MergerOK /\ SlicerInv /\ SliceInv
  BY TypeOKByThreads DEF IInv
<1>2. /\ UNCHANGED <<fc, consumed, scanned, found, chan, merger_vars>>
      /\ main_pc' \in {"next", "joining", "unwinding", "exited"}
      /\ MainOK'
  BY <1>1, ScopeEnds DEF InputEnds, InputFails, JoinMerger, Die, MainOK, job_vars
<1>3. \A m \in Missions : job[m] \notin {"scan", "send"}
  <2>1. CASE EndScope
    BY <2>1, ScopeEnds
  <2>2. CASE InputEnds \/ InputFails \/ JoinMerger \/ Die
    BY <2>2 DEF InputEnds, InputFails, JoinMerger, Die, IInv, ScopeInv
  <2> QED  BY <2>1, <2>2
<1>4. \/ /\ job' = job
         /\ main_pc' = "joining" => \A m \in Missions : job[m] = "idle"
         /\ main_pc' # "next"
      \/ /\ job' = [m \in Missions |-> "idle"]
         /\ \A m \in Missions : HasRead(m)
  <2>1. CASE EndScope
    BY <2>1, ScopeEnds DEF HasRead
  <2>2. CASE InputEnds \/ InputFails \/ JoinMerger \/ Die
    BY <2>2 DEF InputEnds, InputFails, JoinMerger, Die, job_vars, IInv, ScopeInv
  <2> QED  BY <2>1, <2>2
<1>5. /\ S!TypeOK' /\ SlicerInv' /\ SliceInv' /\ UNCHANGED delivered
      /\ item' = item \/ \A m \in Missions : job[m] = "idle"
  <2>1. CASE InputEnds \/ InputFails
    <3>1. \A m \in Missions : job[m] = "idle"
      BY <2>1 DEF InputEnds, InputFails, IInv, ScopeInv
    <3> QED  BY <1>1, <2>1, <3>1, NoSlice DEF InputEnds, InputFails
  <2>2. CASE EndScope \/ JoinMerger \/ Die
    <3>1. UNCHANGED slicer_vars
      BY <2>2, ScopeEnds DEF JoinMerger, Die
    <3> QED  BY <1>1, <3>1, SlicerFrame DEF slicer_vars
  <2> QED  BY <2>1, <2>2
<1>6. JobsOK'
  BY <1>1, <1>2, <1>4 DEF JobsOK
<1>7. \A m \in Missions : Unread(m)' = Unread(m)
  <2>1. CASE job' = job
    BY <1>5, <2>1 DEF Unread, HasRead
  <2>2. CASE job' = [m \in Missions |-> "idle"] /\ \A m \in Missions : HasRead(m)
    BY <2>2 DEF Unread, HasRead
  <2> QED  BY <1>4, <2>1, <2>2
<1>8. CountInv' /\ ReadInv'
  BY <1>2, <1>5, <1>7 DEF IInv, CountInv, ReadInv
<1>9. ScopeInv'
  <2>1. InScope' => InScope /\ item' = item
    BY <1>4, <1>5 DEF InScope
  <2>2. /\ main_pc' \in {"next", "joining"} => \A m \in Missions : job'[m] = "idle"
        /\ \A m \in Missions : job'[m] \notin {"scan", "send"}
    BY <1>3, <1>4
  <2>3. merger_pc \in {"finish", "ok"} => main_pc' # "next"
    <3>1. main_pc' = "next" => main_pc = "scoped"
      BY ScopeEnds DEF InputEnds, InputFails, JoinMerger, Die
    <3> QED  BY <3>1 DEF IInv, ScopeInv
  <2> QED  BY <1>2, <2>1, <2>2, <2>3 DEF IInv, ScopeInv, merger_vars
<1>10. MergerOK' /\ BatchInv'
  BY <1>1, <1>2, MergerFrame DEF IInv
<1>11. TypeOK'
  BY <1>2, <1>5, <1>6, <1>10 DEF TypeOK, MainOK, JobsOK, MergerOK
<1> QED  BY <1>5, <1>8, <1>9, <1>10, <1>11 DEF IInv

-----------------------------------------------------------------------------
(* IInv is an inductive invariant.                                         *)

LEMMA FirstInputIsASource == S!FirstIdx \in S!Sources
BY PipelineAssumption DEF S!InputsOK, S!FirstIdx, S!Sources

LEMMA InitIInv == Init => IInv
<1> SUFFICES ASSUME Init PROVE IInv
  OBVIOUS
<1>1. S!TypeOK /\ SlicerInv /\ SliceInv
  <2>1. S!TypeOK
    BY FirstInputIsASource, OpenedReader, BufLenIsPositive, EmptySeq
       DEF Init, S!Init, S!TypeOK, S!IsLastInput
  <2>2. SlicerInv
    BY FirstInputIsASource, OpenedReader DEF Init, S!Init, SlicerInv
  <2>3. SliceInv
    BY DEF Init, S!Init, S!NotCalled, SliceInv
  <2> QED  BY <2>1, <2>2, <2>3
<1>2. CounterOffset \in Nat /\ NMissions \in Nat
  BY PipelineAssumption
<1>3. delivered = <<>>
  BY DEF Init, S!Init
<1>4. MainOK /\ ScopeInv
  BY DEF Init, MainOK, ScopeInv, InScope
<1>5. JobsOK
  BY <1>2, EmptySeq DEF Init, JobsOK, FindingCollection, Collection
<1>6. MergerOK /\ BatchInv
  BY <1>2, EmptySeq DEF Init, MergerOK, BatchInv
<1>7. CountInv /\ ReadInv
  BY <1>2, <1>3 DEF Init, CountInv, ReadInv, Unread, HasRead
<1> QED  BY <1>1, <1>4, <1>5, <1>6, <1>7, TypeOKByThreads DEF IInv

LEMMA StutterKeepsIInv ==
  ASSUME IInv, UNCHANGED vars
  PROVE  IInv'
<1>1. S!TypeOK /\ MainOK /\ JobsOK /\ MergerOK
  BY TypeOKByThreads DEF IInv
<1>2. UNCHANGED <<slicer_vars, main_pc, job_vars, chan, merger_vars, exit_code>>
  BY DEF vars
<1>3. S!TypeOK' /\ SlicerInv' /\ SliceInv'
  BY <1>1, <1>2, SlicerFrame DEF IInv
<1>4. JobsOK' /\ CountInv' /\ ReadInv'
  BY <1>1, <1>2, JobsFrame DEF IInv
<1>5. MergerOK' /\ BatchInv'
  BY <1>1, <1>2, MergerFrame DEF IInv
<1>6. MainOK' /\ ScopeInv'
  BY <1>1, <1>2 DEF IInv, MainOK, ScopeInv, InScope, slicer_vars, job_vars, merger_vars
<1>7. TypeOK'
  BY <1>3, <1>4, <1>5, <1>6 DEF TypeOK, MainOK, JobsOK, MergerOK
<1> QED  BY <1>3, <1>4, <1>5, <1>6, <1>7 DEF IInv

LEMMA NextKeepsIInv == IInv /\ [Next]_vars => IInv'
<1> SUFFICES ASSUME IInv, [Next]_vars PROVE IInv'
  OBVIOUS
<1>1. CASE Main
  BY <1>1, NextSliceStep, OtherMainStep DEF Main
<1>2. ASSUME NEW m \in Missions, Job(m) PROVE IInv'
  BY <1>2, ScanStep, SendStep DEF Job
<1>3. CASE Merger
  BY <1>3, MergerStep
<1>4. CASE Terminated \/ UNCHANGED vars
  BY <1>4, StutterKeepsIInv DEF Terminated
<1> QED  BY <1>1, <1>2, <1>3, <1>4 DEF Next

LEMMA InductiveInvariant == Spec => []IInv
BY InitIInv, NextKeepsIInv, PTL DEF Spec

-----------------------------------------------------------------------------

\* The threads of run() keep all that they share, and their own state, well
\* typed: the channel holds at most n_threads collections, and no scanner is
\* ever given the bytes of the buffer that no read() has filled.
THEOREM TypeCorrect == Spec => []TypeOK
<1>1. IInv => TypeOK
  BY DEF IInv
<1> QED  BY <1>1, InductiveInvariant, PTL

\* Every scanner reads the input stream gaplessly and exactly once, whatever the
\* order in which the jobs of a scope run, however many inputs there are and
\* however short the reads are.  (The scope in main::run, and the lifetime that
\* as_mut_slice_no_borrow_check! takes from the buffer in input.rs.)
THEOREM ReadingIsExact == Spec => []ScannersReadTheStream
<1>1. IInv => ScannersReadTheStream
  <2> SUFFICES ASSUME IInv, NEW m \in Missions
               PROVE  SameBytes(scanned[m],
                          IF HasRead(m) THEN delivered
                          ELSE SubSeq(delivered, 1, Len(delivered) - item.len))
    BY DEF ScannersReadTheStream
  <2>1. delivered \in Seq(S!Byte) /\ Len(delivered) \in Nat
    BY DEF IInv, TypeOK, S!TypeOK
  <2>2. /\ Len(scanned[m]) = Len(delivered) - Unread(m)
        /\ \A i \in 1 .. Len(scanned[m]) : scanned[m][i] = delivered[i]
    BY DEF IInv, ReadInv
  <2>3. CASE ~HasRead(m)
    <3> DEFINE n == Len(delivered) - item.len
    <3>1. n \in Nat /\ n <= Len(delivered)
      BY <2>1, <2>3, SliceToScan
    <3>2. \A i \in 1 .. n : delivered[i] \in S!Byte
      BY <2>1, <3>1, ElementOfSeq
    <3> HIDE DEF n
    <3>3. /\ Len(SubSeq(delivered, 1, n)) = IF 1 <= n THEN n - 1 + 1 ELSE 0
          /\ \A i \in 1 .. n - 1 + 1 : SubSeq(delivered, 1, n)[i] = delivered[1 + i - 1]
      BY <3>1, <3>2, SubSeqProperties
    <3>4. Len(scanned[m]) = n
      BY <2>2, <2>3 DEF Unread, n
    <3>5. SameBytes(scanned[m], SubSeq(delivered, 1, n))
      BY <2>2, <3>1, <3>3, <3>4 DEF SameBytes
    <3> QED  BY <2>3, <3>5 DEF n
  <2>4. CASE HasRead(m)
    BY <2>1, <2>2, <2>4 DEF SameBytes, Unread
  <2> QED  BY <2>3, <2>4
<1> QED  BY <1>1, InductiveInvariant, PTL

\* All scanners count the same byte positions, so that the merger may compare
\* those of different scanners.  (ss.consumed_bytes in FindingCollection::from
\* and the sort key in Finding::partial_cmp.)
THEOREM PositionsAgree == Spec => []PositionsInStep
<1>1. IInv => PositionsInStep
  <2> SUFFICES ASSUME IInv, NEW m \in Missions, HasRead(m)
               PROVE  consumed[m] = CounterOffset + Len(delivered)
    BY DEF PositionsInStep
  <2>1. consumed[m] = CounterOffset + Len(delivered) - 0
    BY DEF IInv, CountInv, Unread
  <2>2. CounterOffset \in Nat /\ Len(delivered) \in Nat
    BY PipelineAssumption DEF IInv, TypeOK, S!TypeOK
  <2> QED  BY <2>1, <2>2
<1> QED  BY <1>1, InductiveInvariant, PTL

-----------------------------------------------------------------------------
(* What the merger receives and merges.                                    *)

\* The merger has lost nothing: no output error has dropped the channel, and it
\* has not left behind the collections of jobs beside which another panicked.
Alive ==
    /\ merger_pc # "err"
    /\ merger_pc \in {"finish", "ok"} => ~InScope

\* The jobs of this scope that have sent their collection.
Done == {m \in Missions : job[m] = "done"}

\* The collections in flight, the one received first in front.
Flight == Len(results) + Len(chan)
Entry(i) == IF i <= Len(results) THEN results[i] ELSE chan[i - Len(results)]

\* How many of them are of earlier slices; it is negative when those of the
\* current slice have been printed before the scope ends.
Older == Flight - Cardinality(Done)

\* The positions of the slice that the jobs of this scope scan; outside a scope,
\* both are the position of the next byte.
SliceEnd == CounterOffset + Len(delivered)
SliceStart == IF InScope THEN SliceEnd - item.len ELSE SliceEnd

\* The findings of a collection are numbered, in order and of its mission.
WellFormed(c) ==
    /\ \A x \in 1 .. Len(c.v) : /\ c.v[x].mission = c.mission
                                /\ c.v[x].nr = x
                                /\ c.v[x].position >= c.first_byte_position
    /\ \A x, y \in 1 .. Len(c.v) : x < y => c.v[x].position <= c.v[y].position

EndsBefore(c, position) == \A x \in 1 .. Len(c.v) : c.v[x].position < position

\* Entries i and j are merged together.
SameBatch(i, j) == i <= NMissions <=> j <= NMissions

\* What jobs are about to send is of this slice.
SendingInv ==
    \A m \in Missions : job[m] = "send" =>
        /\ WellFormed(fc[m])
        /\ fc[m].mission = m
        /\ fc[m].first_byte_position = SliceStart
        /\ EndsBefore(fc[m], SliceEnd)

\* Batches of earlier slices, and the collections of this slice.
OlderInv ==
    /\ Older \in {-NMissions, 0, NMissions, 2 * NMissions}
    /\ \A i \in 1 .. Flight : i <= Older => EndsBefore(Entry(i), SliceStart)
    /\ \A i \in 1 .. Flight : i > Older =>
          /\ Entry(i).first_byte_position = SliceStart
          /\ EndsBefore(Entry(i), SliceEnd)
          /\ Entry(i).mission \in Done

\* A batch has one collection of each mission, and one position.
OneSliceInv ==
    /\ \A i, j \in 1 .. Flight : SameBatch(i, j) =>
          /\ Entry(i).first_byte_position = Entry(j).first_byte_position
          /\ Entry(i).mission = Entry(j).mission => i = j
    /\ \A i, j \in 1 .. Flight : i <= NMissions /\ NMissions < j =>
          EndsBefore(Entry(i), Entry(j).first_byte_position)

\* Nobody is missing in a batch.
AllMissionsInv ==
    /\ Older >= 0 => \A m \in Done : \E i \in 1 .. Flight :
          i > Older /\ Entry(i).mission = m
    /\ Older >= NMissions => \A m \in Missions : \E i \in 1 .. Flight :
          i <= NMissions /\ Entry(i).mission = m
    /\ Older = 2 * NMissions => \A m \in Missions : \E i \in 1 .. Flight :
          i > NMissions /\ Entry(i).mission = m

\* Where the merger is.
CollectInv ==
    /\ merger_pc = "create" => results = <<>> /\ output = <<>>
    /\ merger_pc = "collect" => Len(results) < NMissions
    /\ merger_pc \in {"finish", "ok"} => results = <<>> /\ chan = <<>>
    /\ \A m \in Missions : job[m] # "panicked"

FlightOK ==
    /\ CollectInv
    /\ SendingInv
    /\ \A i \in 1 .. Flight : WellFormed(Entry(i))
    /\ OlderInv
    /\ OneSliceInv
    /\ AllMissionsInv

\* (An output error drops the channel, and with it the merger's count.)
FlightInv == Alive => FlightOK

MInv == IInv /\ FlightInv

-----------------------------------------------------------------------------
(* Facts about the types, and about the size of Done.                      *)

LEMMA FlightTypes ==
  ASSUME IInv
  PROVE  /\ NMissions \in Nat \ {0}
         /\ results \in Seq(Collection) /\ Len(results) \in Nat
         /\ chan \in Seq(Collection) /\ Len(chan) \in Nat /\ Len(chan) <= NMissions
         /\ Flight \in Nat
         /\ \A m \in Missions : fc[m] \in Collection /\ consumed[m] \in Nat
         /\ output \in Seq(R!Finding) /\ Len(output) \in Nat
         /\ Len(delivered) \in Nat
         /\ CounterOffset \in Nat
         /\ SliceEnd \in Nat
<1>1. S!TypeOK /\ MainOK /\ JobsOK /\ MergerOK
  BY TypeOKByThreads DEF IInv
<1>2. delivered \in Seq(S!Byte)
  BY <1>1 DEF S!TypeOK
<1>3. results \in Seq(Collection) /\ chan \in Seq(Collection) /\ output \in Seq(R!Finding)
  BY <1>1 DEF MergerOK
<1>4. Len(results) \in Nat /\ Len(chan) \in Nat /\ Len(output) \in Nat /\ Len(delivered) \in Nat
  BY <1>2, <1>3, LenProperties
<1>5. CounterOffset \in Nat
  BY PipelineAssumption
<1>6. Len(chan) <= NMissions
  BY <1>1 DEF MergerOK
<1>7. \A m \in Missions : fc[m] \in Collection /\ consumed[m] \in Nat
  BY <1>1 DEF JobsOK
<1> QED  BY <1>3, <1>4, <1>5, <1>6, <1>7, NMissionsIsPositive DEF Flight, SliceEnd

\* An entry is one of the received or one of the waiting collections.
LEMMA EntryTypes ==
  ASSUME IInv, NEW i \in 1 .. Flight
  PROVE  /\ Entry(i) \in Collection
         /\ Entry(i).v \in Seq(R!Finding)
         /\ Len(Entry(i).v) \in Nat
         /\ Entry(i).first_byte_position \in Nat
         /\ Entry(i).mission \in Missions
<1>1. Entry(i) \in Collection
  <2>1. CASE i <= Len(results)
    <3>1. i \in 1 .. Len(results)
      BY <2>1, FlightTypes
    <3>2. results[i] \in Collection
      BY <3>1, FlightTypes, ElementOfSeq
    <3> QED  BY <2>1, <3>2 DEF Entry
  <2>2. CASE ~(i <= Len(results))
    <3>1. i - Len(results) \in 1 .. Len(chan)
      BY <2>2, FlightTypes DEF Flight
    <3>2. chan[i - Len(results)] \in Collection
      BY <3>1, FlightTypes, ElementOfSeq
    <3> QED  BY <2>2, <3>2 DEF Entry
  <2> QED  BY <2>1, <2>2
<1>2. Entry(i).v \in Seq(R!Finding)
  BY <1>1 DEF Collection
<1> QED  BY <1>1, <1>2, LenProperties DEF Collection

LEMMA FindingTypes ==
  ASSUME NEW c \in Collection, NEW x \in 1 .. Len(c.v)
  PROVE  /\ c.v[x] \in R!Finding
         /\ c.v[x].position \in Nat
         /\ c.v[x].mission \in Missions
         /\ c.v[x].nr \in Nat
<1>1. c.v \in Seq(R!Finding)
  BY DEF Collection
<1>2. c.v[x] \in R!Finding
  BY <1>1, ElementOfSeq
<1> QED  BY <1>2 DEF R!Finding, Missions

LEMMA MissionsAreFinite == /\ IsFiniteSet(Missions)
                           /\ Cardinality(Missions) = NMissions
                           /\ \A m \in Missions : m \in Nat
<1>1. Missions = 0 .. NMissions - 1
  BY DEF Missions, R!Missions
<1>2. 0 \in Int /\ NMissions - 1 \in Int /\ ~(0 > NMissions - 1)
  BY NMissionsIsPositive
<1>3. /\ IsFiniteSet(0 .. NMissions - 1)
      /\ Cardinality(0 .. NMissions - 1) = NMissions - 1 - 0 + 1
  BY <1>2, FS_Interval
<1> QED  BY <1>1, <1>3, NMissionsIsPositive

LEMMA DoneIsFinite == /\ IsFiniteSet(Done)
                      /\ Cardinality(Done) \in 0 .. NMissions
                      /\ Cardinality(Done) = NMissions => Done = Missions
<1>1. Done \in SUBSET Missions
  BY DEF Done
<1>2. /\ IsFiniteSet(Done)
      /\ Cardinality(Done) <= Cardinality(Missions)
      /\ Cardinality(Missions) = Cardinality(Done) => Missions = Done
  BY <1>1, MissionsAreFinite, FS_Subset
<1>3. Cardinality(Done) \in Nat
  BY <1>2, FS_CardinalityType
<1> QED  BY <1>2, <1>3, MissionsAreFinite, NMissionsIsPositive

\* A job that has not sent: not all entries that a slice makes are in flight.
LEMMA DoneIsNotAll ==
  ASSUME NEW m \in Missions, m \notin Done
  PROVE  Cardinality(Done) < NMissions
BY DoneIsFinite, NMissionsIsPositive

\* With a job that is still to send, only earlier slices have made up a batch.
LEMMA OlderIsNat ==
  ASSUME IInv, OlderInv, NEW m \in Missions, m \notin Done
  PROVE  Older \in {0, NMissions, 2 * NMissions}
<1>1. Cardinality(Done) \in 0 .. NMissions /\ Cardinality(Done) < NMissions
  BY DoneIsFinite, DoneIsNotAll
<1> QED  BY <1>1, FlightTypes DEF OlderInv, Older

\* The slice of a scope ends where the delivered bytes end.
LEMMA SliceStartInScope ==
  ASSUME IInv, InScope
  PROVE  /\ item.len \in Nat
         /\ SliceStart \in Nat
         /\ SliceStart + item.len = SliceEnd
<1>1. item.kind = "some"
  BY DEF IInv, ScopeInv, InScope, HasRead
<1>2. item.len \in Nat
  <2>1. item \in {S!NotCalled, S!None, S!Panic} \cup ItemType
    BY DEF IInv, TypeOK, S!TypeOK, ItemType
  <2>2. item \in ItemType
    BY <1>1, <2>1 DEF S!NotCalled, S!None, S!Panic
  <2> QED  BY <2>2, BufLenIsPositive DEF ItemType
<1>3. item.len <= Len(delivered)
  BY <1>1 DEF IInv, SliceInv
<1> QED  BY <1>2, <1>3, FlightTypes DEF SliceStart, SliceEnd

LEMMA SliceStartIsNat ==
  ASSUME IInv
  PROVE  SliceStart \in Nat /\ SliceStart <= SliceEnd
<1>1. CASE InScope
  BY <1>1, SliceStartInScope, FlightTypes
<1>2. CASE ~InScope
  BY <1>2, FlightTypes DEF SliceStart
<1> QED  BY <1>1, <1>2

\* Where a scanner is.
LEMMA ConsumedIs ==
  ASSUME IInv, NEW m \in Missions
  PROVE  consumed[m] = IF HasRead(m) THEN SliceEnd ELSE SliceStart
<1>1. consumed[m] = CounterOffset + (Len(delivered) - Unread(m))
  BY DEF IInv, CountInv
<1>2. CASE ~HasRead(m)
  <2>1. InScope
    BY <1>2 DEF InScope, HasRead
  <2> QED  BY <1>1, <1>2, <2>1, SliceStartInScope, FlightTypes
           DEF Unread, SliceStart, SliceEnd
<1>3. CASE HasRead(m)
  BY <1>1, <1>3, FlightTypes DEF Unread, SliceEnd
<1> QED  BY <1>2, <1>3

\* Outside a scope nobody has sent anything of the next slice.
LEMMA NoneDoneOutsideScopes ==
  ASSUME ~InScope, IInv
  PROVE  Done = {} /\ Older = Flight
<1>1. Done = {}
  BY DEF InScope, Done
<1> QED  BY <1>1, FS_EmptySet, FlightTypes DEF Older

\* What is lost once is lost for ever.
LEMMA AliveIsNotRegained ==
  ASSUME IInv, [Next]_vars, Alive'
  PROVE  Alive
<1>1. CASE Merger
  <2>1. UNCHANGED job
    BY <1>1 DEF Merger, CreateOutput, Recv, RecvFails, PrintNext, BatchPrinted,
                FinishOutput, job_vars
  <2>2. merger_pc # "err"
    BY <1>1 DEF Merger, CreateOutput, Recv, RecvFails, PrintNext, BatchPrinted,
                FinishOutput
  <2>3. CASE merger_pc \in {"finish", "ok"}
    <3>1. merger_pc' \in {"ok", "err"}
      BY <1>1, <2>3 DEF Merger, CreateOutput, Recv, RecvFails, PrintNext,
                        BatchPrinted, FinishOutput, OutputFails
    <3> QED  BY <2>1, <2>2, <3>1 DEF Alive, InScope
  <2> QED  BY <2>2, <2>3 DEF Alive
<1>2. ASSUME merger_pc' = merger_pc, merger_pc \in {"finish", "ok"} => UNCHANGED job
      PROVE  Alive
  BY <1>2 DEF Alive, InScope
<1>3. ASSUME NEW m \in Missions, Job(m) PROVE Alive
  <2>1. job[m] \in {"scan", "send"} /\ merger_pc' = merger_pc
    BY <1>3 DEF Job, Scan, ScanPanics, Send, SendFails, merger_vars
  <2>2. merger_pc \notin {"finish", "ok"}
    BY <2>1 DEF IInv, ScopeInv
  <2> QED  BY <1>2, <2>1, <2>2
<1>4. CASE NextSlice \/ EndScope
  <2>1. main_pc \in {"next", "scoped"} /\ merger_pc' = merger_pc
    BY <1>4, ScopeEnds DEF NextSlice, merger_vars
  <2> QED  BY <1>2, <2>1 DEF IInv, ScopeInv
<1>5. CASE InputEnds \/ InputFails \/ JoinMerger \/ Die \/ UNCHANGED vars
  <2>1. UNCHANGED <<merger_pc, job>>
    BY <1>5 DEF InputEnds, InputFails, JoinMerger, Die, vars, job_vars, merger_vars
  <2> QED  BY <1>2, <2>1
<1> QED  BY <1>1, <1>3, <1>4, <1>5 DEF Next, Main, Terminated

-----------------------------------------------------------------------------
(* FlightOK over the steps of the merger.                                  *)

\* What is in flight, and the slice of the scope, stay the same.
LEMMA FlightFrame ==
  ASSUME FlightOK, UNCHANGED <<results, chan>>, Done' = Done,
         SliceStart' = SliceStart, SliceEnd' = SliceEnd, CollectInv', SendingInv'
  PROVE  FlightOK'
<1>1. Flight' = Flight /\ \A i : Entry(i)' = Entry(i)
  BY DEF Flight, Entry
<1>2. Older' = Older
  BY <1>1 DEF Older
<1>4. \A i \in 1 .. Flight' : WellFormed(Entry(i))'
  BY <1>1 DEF FlightOK, WellFormed
<1>5. OlderInv'
  BY <1>1, <1>2 DEF FlightOK, OlderInv, EndsBefore
<1>6. OneSliceInv'
  BY <1>1 DEF FlightOK, OneSliceInv, EndsBefore, SameBatch
<1>7. AllMissionsInv'
  BY <1>1, <1>2 DEF FlightOK, AllMissionsInv
<1> QED  BY <1>4, <1>5, <1>6, <1>7 DEF FlightOK

\* The jobs stay as they are.
LEMMA JobsUnchanged ==
  ASSUME FlightOK, UNCHANGED <<job, fc>>, SliceStart' = SliceStart, SliceEnd' = SliceEnd
  PROVE  Done' = Done /\ SendingInv'
BY DEF FlightOK, Done, SendingInv, WellFormed, EndsBefore

LEMMA SliceFrame ==
  ASSUME InScope' = InScope, UNCHANGED <<item, delivered>>
  PROVE  SliceStart' = SliceStart /\ SliceEnd' = SliceEnd
BY DEF SliceStart, SliceEnd

LEMMA MergerLeavesTheRest ==
  ASSUME Merger
  PROVE  UNCHANGED <<slicer_vars, item, delivered, main_pc, job_vars, job, fc,
                     consumed, scanned, found, exit_code>>
BY DEF Merger, CreateOutput, Recv, RecvFails, PrintNext, BatchPrinted, FinishOutput,
       job_vars, slicer_vars

\* The entry received is the one it was while it waited in the channel.
LEMMA RecvKeepsEntries ==
  ASSUME IInv, Recv
  PROVE  /\ Flight' = Flight
         /\ \A i \in 1 .. Flight : Entry(i)' = Entry(i)
         /\ Len(results') = Len(results) + 1
<1>1. /\ chan # <<>>
      /\ results' = Append(results, Head(chan))
      /\ chan' = Tail(chan)
  BY DEF Recv
<1>2. /\ Head(chan) \in Collection
      /\ Len(Tail(chan)) = Len(chan) - 1
      /\ \A i \in 1 .. Len(Tail(chan)) : Tail(chan)[i] = chan[i + 1]
  BY <1>1, FlightTypes, HeadTailProperties
<1>3. /\ Len(results') = Len(results) + 1
      /\ \A i \in 1 .. Len(results) : results'[i] = results[i]
      /\ results'[Len(results) + 1] = Head(chan)
  BY <1>1, <1>2, FlightTypes, AppendProperties
<1>4. Head(chan) = chan[1]
  BY <1>1
<1>5. ASSUME NEW i \in 1 .. Flight
      PROVE  Entry(i)' = Entry(i)
  <2>1. CASE i <= Len(results)
    BY <1>3, <2>1, FlightTypes DEF Entry
  <2>2. CASE i = Len(results) + 1
    <3>1. ~(i <= Len(results)) /\ i - Len(results) = 1 /\ i <= Len(results')
      BY <1>3, <2>2, FlightTypes
    <3> QED  BY <1>3, <1>4, <2>2, <3>1 DEF Entry
  <2>3. CASE i > Len(results) + 1
    <3>1. /\ ~(i <= Len(results)) /\ ~(i <= Len(results'))
          /\ i - Len(results') \in 1 .. Len(Tail(chan))
          /\ (i - Len(results')) + 1 = i - Len(results)
      BY <1>2, <1>3, <2>3, FlightTypes DEF Flight
    <3> QED  BY <1>1, <1>2, <3>1 DEF Entry
  <2> QED  BY <2>1, <2>2, <2>3, FlightTypes
<1> QED  BY <1>1, <1>2, <1>3, <1>5, FlightTypes DEF Flight

LEMMA RecvKeepsFlight ==
  ASSUME IInv, FlightOK, Recv
  PROVE  FlightOK'
<1>1. /\ Flight' = Flight
      /\ \A i \in 1 .. Flight : Entry(i)' = Entry(i)
      /\ Len(results') = Len(results) + 1
  BY RecvKeepsEntries
<1>2. UNCHANGED <<job, fc, main_pc, item, delivered>>
  BY DEF Recv, job_vars, slicer_vars
<1>3. SliceStart' = SliceStart /\ SliceEnd' = SliceEnd
  BY <1>2, SliceFrame DEF InScope
<1>4. Done' = Done /\ Older' = Older
  BY <1>1, <1>2 DEF Done, Older
<1>5. CollectInv'
  <2>1. merger_pc = "collect" /\ Len(results) < NMissions
    BY DEF Recv, FlightOK, CollectInv
  <2>2. /\ merger_pc' = "merge" \/ merger_pc' = "collect"
        /\ merger_pc' = "collect" => Len(results') < NMissions
    BY <1>1, <2>1, FlightTypes DEF Recv
  <2> QED  BY <1>2, <2>2 DEF FlightOK, CollectInv
<1>6. SendingInv'
  BY <1>2, <1>3 DEF FlightOK, SendingInv, WellFormed, EndsBefore
<1>7. \A i \in 1 .. Flight' : WellFormed(Entry(i))'
  BY <1>1 DEF FlightOK, WellFormed
<1>8. OlderInv'
  BY <1>1, <1>3, <1>4 DEF FlightOK, OlderInv, EndsBefore
<1>9. OneSliceInv'
  BY <1>1 DEF FlightOK, OneSliceInv, EndsBefore, SameBatch
<1>10. AllMissionsInv'
  BY <1>1, <1>4 DEF FlightOK, AllMissionsInv
<1> QED  BY <1>5, <1>6, <1>7, <1>8, <1>9, <1>10 DEF FlightOK

\* A batch has been printed: the entries behind it move to the front.
LEMMA BatchPrintedMovesEntries ==
  ASSUME IInv, BatchPrinted
  PROVE  /\ Len(results) = NMissions
         /\ Flight' = Flight - NMissions
         /\ Flight' <= NMissions
         /\ \A i \in 1 .. Flight' : /\ i + NMissions \in 1 .. Flight
                                    /\ Entry(i)' = Entry(i + NMissions)
<1>1. merger_pc = "merge" /\ results' = <<>> /\ chan' = chan
  BY DEF BatchPrinted
<1>2. Len(results) = NMissions
  BY <1>1 DEF IInv, BatchInv
<1>3. Flight' = Flight - NMissions /\ Flight' = Len(chan)
  BY <1>1, <1>2, EmptySeq, FlightTypes DEF Flight
<1>4. ASSUME NEW i \in 1 .. Flight'
      PROVE  i + NMissions \in 1 .. Flight /\ Entry(i)' = Entry(i + NMissions)
  <2>1. /\ i + NMissions \in 1 .. Flight
        /\ ~(i + NMissions <= Len(results))
        /\ (i + NMissions) - Len(results) = i
        /\ ~(i <= 0) /\ i - 0 = i
    BY <1>2, <1>3, FlightTypes DEF Flight
  <2>2. Len(results') = 0
    BY <1>1, EmptySeq
  <2> QED  BY <1>1, <2>1, <2>2 DEF Entry
<1> QED  BY <1>2, <1>3, <1>4, FlightTypes

LEMMA BatchPrintedKeepsFlight ==
  ASSUME IInv, FlightOK, BatchPrinted
  PROVE  FlightOK'
<1> DEFINE N == NMissions
<1>1. /\ Len(results) = N
      /\ Flight' = Flight - N
      /\ Flight' <= N
      /\ \A i \in 1 .. Flight' : i + N \in 1 .. Flight /\ Entry(i)' = Entry(i + N)
  BY BatchPrintedMovesEntries
<1>2. UNCHANGED <<job, fc, main_pc, item, delivered>>
  BY DEF BatchPrinted, job_vars, slicer_vars
<1>3. SliceStart' = SliceStart /\ SliceEnd' = SliceEnd
  BY <1>2, SliceFrame DEF InScope
<1>4. N \in Nat \ {0} /\ Flight \in Nat /\ Flight >= N
  BY <1>1, FlightTypes DEF Flight
<1>5. Done' = Done /\ Cardinality(Done) \in 0 .. N
  BY <1>2, DoneIsFinite DEF Done
<1>6. Older' = Older - N
  BY <1>1, <1>4, <1>5 DEF Older
<1>7. Older \in {0, N, 2 * N}
  BY <1>4, <1>5 DEF FlightOK, OlderInv, Older
<1>8. CollectInv'
  <2>1. merger_pc' = "collect" /\ Len(results') = 0
    BY EmptySeq DEF BatchPrinted
  <2> QED  BY <1>2, <1>4, <2>1 DEF FlightOK, CollectInv
<1>9. SendingInv'
  BY <1>2, <1>3 DEF FlightOK, SendingInv, WellFormed, EndsBefore
<1>10. \A i \in 1 .. Flight' : WellFormed(Entry(i))'
  BY <1>1 DEF FlightOK, WellFormed
<1>11. OlderInv'
  <2>1. \A i \in 1 .. Flight' : i <= Older' <=> i + N <= Older
    BY <1>1, <1>4, <1>6, <1>7
  <2>2. Older' \in {-N, 0, N, 2 * N}
    BY <1>4, <1>6, <1>7
  <2>3. \A i \in 1 .. Flight' : i > Older' <=> i + N > Older
    BY <1>1, <1>4, <1>6, <1>7
  <2> QED  BY <1>1, <1>3, <1>5, <2>1, <2>2, <2>3 DEF FlightOK, OlderInv, EndsBefore
<1>12. OneSliceInv'
  <2>1. \A i \in 1 .. Flight' : i <= N /\ ~(i + N <= N)
    BY <1>1, <1>4
  <2>2. \A i, j \in 1 .. Flight' : i + N = j + N => i = j
    BY <1>1, <1>4
  <2>3. ASSUME NEW i \in 1 .. Flight', NEW j \in 1 .. Flight'
        PROVE  /\ Entry(i)'.first_byte_position = Entry(j)'.first_byte_position
               /\ Entry(i)'.mission = Entry(j)'.mission => i = j
    <3>1. SameBatch(i + N, j + N)
      BY <2>1 DEF SameBatch
    <3> QED  BY <1>1, <2>2, <3>1 DEF FlightOK, OneSliceInv
  <2>4. \A j \in 1 .. Flight' : ~(N < j)
    BY <1>1, <1>4
  <2> QED  BY <2>3, <2>4 DEF OneSliceInv
<1>13. AllMissionsInv'
  <2>1. ASSUME NEW m, NEW i \in 1 .. Flight, i > N, Entry(i).mission = m
        PROVE  /\ i - N \in 1 .. Flight' /\ i - N <= N
               /\ Entry(i - N)'.mission = m
    <3>1. i - N \in 1 .. Flight' /\ (i - N) + N = i /\ i - N <= N
      BY <1>1, <1>4, <2>1
    <3> QED  BY <1>1, <2>1, <3>1
  <2>2. Older' >= 0 => \A m \in Done' : \E i \in 1 .. Flight' :
          i > Older' /\ Entry(i)'.mission = m
    <3> SUFFICES ASSUME Older' >= 0, NEW m \in Done
                 PROVE  \E i \in 1 .. Flight' : i > Older' /\ Entry(i)'.mission = m
      BY <1>5
    <3>1. PICK i \in 1 .. Flight : i > Older /\ Entry(i).mission = m
      BY <1>4, <1>6, <1>7 DEF FlightOK, AllMissionsInv
    <3>2. i > N /\ i - N > Older'
      BY <1>4, <1>6, <1>7, <3>1
    <3> QED  BY <2>1, <3>1, <3>2
  <2>3. Older' >= N => \A m \in Missions : \E i \in 1 .. Flight' :
          i <= N /\ Entry(i)'.mission = m
    <3> SUFFICES ASSUME Older' >= N, NEW m \in Missions
                 PROVE  \E i \in 1 .. Flight' : i <= N /\ Entry(i)'.mission = m
      OBVIOUS
    <3>1. Older = 2 * N
      BY <1>4, <1>6, <1>7
    <3>2. PICK i \in 1 .. Flight : i > N /\ Entry(i).mission = m
      BY <3>1 DEF FlightOK, AllMissionsInv
    <3> QED  BY <2>1, <3>2
  <2>4. Older' # 2 * N
    BY <1>4, <1>6, <1>7
  <2> QED  BY <2>2, <2>3, <2>4 DEF AllMissionsInv
<1> QED  BY <1>8, <1>9, <1>10, <1>11, <1>12, <1>13 DEF FlightOK

\* When the senders are gone with no job left behind, and the channel is empty,
\* no batch is incomplete: there is nothing that RecvFails could drop.
LEMMA NothingIsDropped ==
  ASSUME IInv, FlightOK, ~InScope, chan = <<>>, Len(results) < NMissions
  PROVE  results = <<>> /\ Flight = 0
<1>1. Older = Flight
  BY NoneDoneOutsideScopes
<1>2. Flight = Len(results)
  BY EmptySeq, FlightTypes DEF Flight
<1>3. Len(results) = 0
  BY <1>1, <1>2, FlightTypes DEF FlightOK, OlderInv
<1>4. results = <<>>
  BY <1>3, FlightTypes, EmptySeq
<1> QED  BY <1>2, <1>3, <1>4

LEMMA MergerKeepsFlight ==
  ASSUME IInv, FlightInv, Merger
  PROVE  FlightInv'
<1> SUFFICES ASSUME Alive' PROVE FlightOK'
  BY DEF FlightInv
<1>0. FlightOK
  BY AliveIsNotRegained DEF FlightInv, Next
<1>1. UNCHANGED <<job, fc, main_pc, item, delivered>>
  BY MergerLeavesTheRest
<1>2. /\ SliceStart' = SliceStart /\ SliceEnd' = SliceEnd
      /\ InScope' = InScope
  BY <1>1, SliceFrame DEF InScope
<1>3. ~OutputFails
  BY DEF OutputFails, Alive
<1>4. CASE CreateOutput
  <2>1. /\ merger_pc = "create" /\ merger_pc' = "collect"
        /\ UNCHANGED <<chan, results>>
    BY <1>3, <1>4 DEF CreateOutput
  <2>3. CollectInv'
    <3>1. Len(results') = 0
      BY <2>1, <1>0, EmptySeq DEF FlightOK, CollectInv
    <3> QED  BY <1>1, <2>1, <1>0, <3>1, FlightTypes DEF FlightOK, CollectInv
  <2> QED  BY <1>1, <1>2, <2>1, <1>0, <2>3, FlightFrame, JobsUnchanged
<1>5. CASE Recv
  BY <1>0, <1>5, RecvKeepsFlight
<1>6. CASE RecvFails
  <2>1. /\ merger_pc = "collect" /\ merger_pc' = "finish"
        /\ chan = <<>> /\ chan' = chan
        /\ results' = <<>>
        /\ ~InScope
    BY <1>2, <1>6 DEF RecvFails, Alive
  <2>3. results = <<>>
    BY <2>1, <1>0, NothingIsDropped DEF FlightOK, CollectInv
  <2>4. CollectInv'
    BY <1>1, <2>1, <1>0 DEF FlightOK, CollectInv
  <2> QED  BY <1>1, <1>2, <2>1, <1>0, <2>3, <2>4, FlightFrame, JobsUnchanged
<1>7. CASE PrintNext
  <2>1. UNCHANGED <<merger_pc, chan, results>> /\ merger_pc = "merge"
    BY <1>3, <1>7 DEF PrintNext
  <2>3. CollectInv'
    BY <1>1, <2>1, <1>0 DEF FlightOK, CollectInv
  <2> QED  BY <1>1, <1>2, <2>1, <1>0, <2>3, FlightFrame, JobsUnchanged
<1>8. CASE BatchPrinted
  BY <1>0, <1>8, BatchPrintedKeepsFlight
<1>9. CASE FinishOutput
  <2>1. /\ merger_pc = "finish" /\ merger_pc' = "ok"
        /\ UNCHANGED <<chan, results>>
    BY <1>3, <1>9 DEF FinishOutput
  <2>3. CollectInv'
    BY <1>1, <2>1, <1>0 DEF FlightOK, CollectInv
  <2> QED  BY <1>1, <1>2, <2>1, <1>0, <2>3, FlightFrame, JobsUnchanged
<1> QED  BY <1>4, <1>5, <1>6, <1>7, <1>8, <1>9 DEF Merger

-----------------------------------------------------------------------------
(* FlightOK over the steps of the jobs.                                    *)

\* What a scanner makes of its slice.
LEMMA ScanMakes ==
  ASSUME IInv, NEW m \in Missions, job[m] = "scan",
         NEW v \in Collections(m, consumed[m], item.len),
         NEW c, c = FindingCollection(m, consumed[m], v)
  PROVE  /\ c.mission = m
         /\ c.first_byte_position = SliceStart
         /\ c.v = v
         /\ WellFormed(c)
         /\ EndsBefore(c, SliceEnd)
         /\ v \in Seq(R!Finding)
         /\ FindingsOf(v) = {v[x] : x \in 1 .. Len(v)}
<1>1. InScope /\ ~HasRead(m)
  BY DEF InScope, HasRead
<1>2. /\ consumed[m] = SliceStart
      /\ SliceStart \in Nat /\ item.len \in Nat
      /\ SliceStart + item.len = SliceEnd
  BY <1>1, SliceStartInScope, ConsumedIs
<1>3. /\ c.mission = m /\ c.first_byte_position = SliceStart /\ c.v = v
  BY <1>2 DEF FindingCollection
<1>4. PICK k \in 0 .. MaxFindings :
        v \in [1 .. k -> [position : SliceStart .. SliceStart + item.len - 1,
                          mission : {m}, nr : 1 .. k]]
  BY <1>2 DEF Collections
<1>5. v \in Seq(R!Finding)
  BY <1>2, CollectionsAreTyped
<1>6. DOMAIN v = 1 .. Len(v) /\ DOMAIN v = 1 .. k
  BY <1>4, <1>5, LenProperties
<1>7. /\ \A x \in 1 .. Len(v) : v[x].nr = x
      /\ \A x, y \in 1 .. Len(v) : x < y => v[x].position <= v[y].position
  BY <1>6 DEF Collections
<1>8. \A x \in 1 .. Len(v) : /\ v[x].mission = m
                             /\ v[x].position >= SliceStart
                             /\ v[x].position < SliceEnd
  <2> TAKE x \in 1 .. Len(v)
  <2>1. v[x] \in [position : SliceStart .. SliceStart + item.len - 1,
                  mission : {m}, nr : 1 .. k]
    BY <1>4, <1>6
  <2>2. v[x].position \in SliceStart .. SliceStart + item.len - 1 /\ v[x].mission = m
    BY <2>1
  <2> QED  BY <1>2, <2>2
<1> QED  BY <1>3, <1>5, <1>6, <1>7, <1>8 DEF WellFormed, EndsBefore, FindingsOf

LEMMA ScanKeepsFlight ==
  ASSUME IInv, FlightOK, NEW m \in Missions, Scan(m)
  PROVE  FlightOK'
<1>1. /\ job[m] = "scan"
      /\ job' = [job EXCEPT ![m] = "send"]
      /\ UNCHANGED <<results, chan, merger_pc, output, main_pc, item, delivered>>
  BY DEF Scan, merger_vars, slicer_vars
<1>2. PICK v \in Collections(m, consumed[m], item.len) :
        fc' = [fc EXCEPT ![m] = FindingCollection(m, consumed[m], v)]
  BY DEF Scan
<1>3. JobsOK
  BY TypeOKByThreads DEF IInv
<1>4. \A k \in Missions :
        /\ job'[k] = IF k = m THEN "send" ELSE job[k]
        /\ fc'[k] = IF k = m THEN FindingCollection(m, consumed[m], v) ELSE fc[k]
  BY <1>1, <1>2, <1>3 DEF JobsOK
<1>5. SliceStart' = SliceStart /\ SliceEnd' = SliceEnd
  <2>1. InScope /\ InScope'
    BY <1>1, <1>4 DEF InScope
  <2> QED  BY <1>1, <2>1, SliceFrame
<1>6. Flight' = Flight /\ \A i : Entry(i)' = Entry(i)
  BY <1>1 DEF Flight, Entry
<1>7. Done' = Done
  BY <1>1, <1>4 DEF Done
<1>8. Older' = Older
  BY <1>6, <1>7 DEF Older
<1>9. CollectInv'
  BY <1>1, <1>4 DEF FlightOK, CollectInv
<1>10. SendingInv'
  <2> SUFFICES ASSUME NEW k \in Missions, job'[k] = "send"
               PROVE  /\ WellFormed(fc'[k])
                      /\ fc'[k].mission = k
                      /\ fc'[k].first_byte_position = SliceStart
                      /\ EndsBefore(fc'[k], SliceEnd)
    BY <1>5 DEF SendingInv, WellFormed, EndsBefore
  <2>1. CASE k = m
    BY <1>1, <1>4, <2>1, ScanMakes
  <2>2. CASE k # m
    BY <1>4, <2>2 DEF FlightOK, SendingInv
  <2> QED  BY <2>1, <2>2
<1>11. \A i \in 1 .. Flight' : WellFormed(Entry(i))'
  BY <1>6 DEF FlightOK, WellFormed
<1>12. OlderInv'
  BY <1>5, <1>6, <1>7, <1>8 DEF FlightOK, OlderInv, EndsBefore
<1>13. OneSliceInv'
  BY <1>6 DEF FlightOK, OneSliceInv, EndsBefore, SameBatch
<1>14. AllMissionsInv'
  BY <1>6, <1>7, <1>8 DEF FlightOK, AllMissionsInv
<1> QED  BY <1>9, <1>10, <1>11, <1>12, <1>13, <1>14 DEF FlightOK

\* The channel gets a new last entry.
LEMMA SendAddsAnEntry ==
  ASSUME IInv, NEW m \in Missions, Send(m)
  PROVE  /\ Flight' = Flight + 1
         /\ \A i \in 1 .. Flight : Entry(i)' = Entry(i)
         /\ \A i : i = Flight + 1 => Entry(i)' = fc[m]
<1>1. chan' = Append(chan, fc[m]) /\ results' = results
  BY DEF Send, merger_vars
<1>2. /\ Len(chan') = Len(chan) + 1
      /\ \A i \in 1 .. Len(chan) : chan'[i] = chan[i]
      /\ chan'[Len(chan) + 1] = fc[m]
  BY <1>1, FlightTypes, AppendProperties
<1>3. Flight' = Flight + 1
  BY <1>1, <1>2, FlightTypes DEF Flight
<1>4. ASSUME NEW i \in 1 .. Flight
      PROVE  Entry(i)' = Entry(i)
  <2>1. ~(i <= Len(results)) => i - Len(results) \in 1 .. Len(chan)
    BY FlightTypes DEF Flight
  <2> QED  BY <1>1, <1>2, <2>1 DEF Entry
<1>5. ASSUME NEW i, i = Flight + 1
      PROVE  Entry(i)' = fc[m]
  <2>1. ~(i <= Len(results)) /\ i - Len(results) = Len(chan) + 1
    BY <1>5, FlightTypes DEF Flight
  <2> QED  BY <1>1, <1>2, <2>1 DEF Entry
<1> QED  BY <1>3, <1>4, <1>5

\* What a job sends is put into the batch of its slice, at a place that nobody
\* else of the mission has.
LEMMA SendKeepsFlight ==
  ASSUME IInv, FlightOK, NEW m \in Missions, Send(m)
  PROVE  FlightOK'
<1> DEFINE N == NMissions
           last == Flight + 1
<1>1. /\ job[m] = "send"
      /\ Len(chan) < N
      /\ job' = [job EXCEPT ![m] = "done"]
      /\ UNCHANGED <<fc, results, merger_pc, output, main_pc, item, delivered>>
  BY DEF Send, merger_vars, slicer_vars
<1>2. Flight' = last /\ last \in Nat /\ last > Flight
  BY SendAddsAnEntry, FlightTypes
<1>3. /\ \A i \in 1 .. Flight : Entry(i)' = Entry(i)
      /\ \A i : i = last => Entry(i)' = fc[m]
  BY SendAddsAnEntry
<1>4. \A i \in 1 .. Flight' : i \in 1 .. Flight \/ i = last
  BY <1>2, FlightTypes
<1>5. \A k \in Missions : job'[k] = IF k = m THEN "done" ELSE job[k]
  <2>1. JobsOK
    BY TypeOKByThreads DEF IInv
  <2> QED  BY <1>1, <2>1 DEF JobsOK
<1>6. SliceStart' = SliceStart /\ SliceEnd' = SliceEnd
  <2>1. InScope /\ InScope'
    BY <1>1, <1>5 DEF InScope
  <2> QED  BY <1>1, <2>1, SliceFrame
<1>7. m \notin Done /\ Done' = Done \cup {m}
  BY <1>1, <1>5 DEF Done
<1>8. Older' = Older
  <2>1. Cardinality(Done') = Cardinality(Done) + 1
    BY <1>7, DoneIsFinite, FS_AddElement
  <2> QED  BY <1>2, <2>1, DoneIsFinite, FlightTypes DEF Older
<1>9. /\ Older \in {0, N, 2 * N}
      /\ Cardinality(Done) \in Nat /\ Cardinality(Done) < N
      /\ Older = Flight - Cardinality(Done)
      /\ N \in Nat \ {0} /\ Flight \in Nat
  BY <1>7, OlderIsNat, DoneIsNotAll, DoneIsFinite, FlightTypes DEF FlightOK, Older
<1>10. /\ merger_pc # "merge" => Len(results) <= N
       /\ merger_pc = "merge" => Len(results) <= N
  <2>1. merger_pc \notin {"finish", "ok"}
    BY <1>1 DEF IInv, ScopeInv
  <2>2. merger_pc \in {"create", "collect", "merge", "finish", "ok", "err"}
    BY DEF IInv, TypeOK
  <2>3. merger_pc # "err"
    BY DEF Send, ReceiverDropped
  <2>4. results = <<>> => Len(results) <= N
    BY <1>9, EmptySeq
  <2> QED  BY <2>1, <2>2, <2>3, <2>4, FlightTypes DEF FlightOK, CollectInv, IInv, BatchInv
<1>11. last <= 2 * N
  BY <1>1, <1>9, <1>10, FlightTypes DEF Flight
<1>12. /\ WellFormed(fc[m]) /\ fc[m].mission = m
       /\ fc[m].first_byte_position = SliceStart
       /\ EndsBefore(fc[m], SliceEnd)
  BY <1>1 DEF FlightOK, SendingInv
<1>13. CollectInv'
  <2>1. merger_pc \notin {"finish", "ok"}
    BY <1>1 DEF IInv, ScopeInv
  <2> QED  BY <1>1, <1>5, <2>1 DEF FlightOK, CollectInv
<1>14. SendingInv'
  BY <1>1, <1>5, <1>6 DEF FlightOK, SendingInv, WellFormed, EndsBefore
<1>15. \A i \in 1 .. Flight' : WellFormed(Entry(i))'
  BY <1>3, <1>4, <1>12 DEF FlightOK, WellFormed
<1>16. OlderInv'
  <2>1. last > Older
    BY <1>9
  <2>2. \A i \in 1 .. Flight' : i <= Older' => EndsBefore(Entry(i), SliceStart)'
    <3> SUFFICES ASSUME NEW i \in 1 .. Flight', i <= Older
                 PROVE  EndsBefore(Entry(i)', SliceStart)
      BY <1>6, <1>8 DEF EndsBefore
    <3>1. i \in 1 .. Flight
      BY <1>4, <1>9, <2>1
    <3> QED  BY <1>3, <3>1 DEF FlightOK, OlderInv
  <2>3. ASSUME NEW i \in 1 .. Flight', i > Older
        PROVE  /\ Entry(i)'.first_byte_position = SliceStart
               /\ EndsBefore(Entry(i)', SliceEnd)
               /\ Entry(i)'.mission \in Done'
    <3>1. CASE i \in 1 .. Flight
      BY <1>3, <1>7, <2>3, <3>1 DEF FlightOK, OlderInv
    <3>2. CASE i = last
      BY <1>3, <1>7, <1>12, <3>2
    <3> QED  BY <1>4, <3>1, <3>2
  <2>4. Older' \in {-N, 0, N, 2 * N}
    BY <1>8, <1>9
  <2> QED  BY <1>6, <1>8, <2>2, <2>3, <2>4 DEF OlderInv, EndsBefore
<1>17. \A i \in 1 .. Flight : SameBatch(i, last) => i > Older
  BY <1>9, <1>11 DEF SameBatch
<1>18. \A i \in 1 .. Flight : i <= N /\ N < last => i <= Older
  BY <1>9
<1>19. OneSliceInv'
  <2>1. \A i \in 1 .. Flight : SameBatch(i, last) =>
          /\ Entry(i).first_byte_position = fc[m].first_byte_position
          /\ Entry(i).mission # fc[m].mission
    BY <1>7, <1>12, <1>17 DEF FlightOK, OlderInv
  <2>2. \A i \in 1 .. Flight : i <= N /\ N < last =>
          EndsBefore(Entry(i), fc[m].first_byte_position)
    BY <1>12, <1>18 DEF FlightOK, OlderInv
  <2>3. ~(last <= N /\ N < last)
    BY <1>2, <1>9
  <2>4. \A i, j \in 1 .. Flight' : SameBatch(i, j) =>
          /\ Entry(i)'.first_byte_position = Entry(j)'.first_byte_position
          /\ Entry(i)'.mission = Entry(j)'.mission => i = j
    <3> SUFFICES ASSUME NEW i \in 1 .. Flight', NEW j \in 1 .. Flight', SameBatch(i, j)
                 PROVE  /\ Entry(i)'.first_byte_position = Entry(j)'.first_byte_position
                        /\ Entry(i)'.mission = Entry(j)'.mission => i = j
      OBVIOUS
    <3>1. CASE i \in 1 .. Flight /\ j \in 1 .. Flight
      BY <1>3, <3>1 DEF FlightOK, OneSliceInv
    <3>2. CASE i \in 1 .. Flight /\ j = last
      BY <1>3, <2>1, <3>2
    <3>3. CASE i = last /\ j \in 1 .. Flight
      <4>1. SameBatch(j, last)
        BY <3>3 DEF SameBatch
      <4> QED  BY <1>3, <2>1, <3>3, <4>1
    <3>4. CASE i = last /\ j = last
      BY <3>4
    <3> QED  BY <1>4, <3>1, <3>2, <3>3, <3>4
  <2>5. \A i, j \in 1 .. Flight' : i <= N /\ N < j =>
          EndsBefore(Entry(i)', Entry(j)'.first_byte_position)
    <3> SUFFICES ASSUME NEW i \in 1 .. Flight', NEW j \in 1 .. Flight', i <= N, N < j
                 PROVE  EndsBefore(Entry(i)', Entry(j)'.first_byte_position)
      OBVIOUS
    <3>1. i \in 1 .. Flight
      BY <1>2, <1>4, <1>9
    <3>2. CASE j \in 1 .. Flight
      BY <1>3, <3>1, <3>2 DEF FlightOK, OneSliceInv
    <3>3. CASE j = last
      BY <1>3, <2>2, <3>1, <3>3
    <3> QED  BY <1>4, <3>2, <3>3
  <2> QED  BY <2>4, <2>5 DEF OneSliceInv, EndsBefore, SameBatch
<1>20. AllMissionsInv'
  <2>1. \A k, i : k \in Missions /\ i \in 1 .. Flight /\ Entry(i).mission = k
           => i \in 1 .. Flight' /\ Entry(i)'.mission = k
    BY <1>2, <1>3, <1>9
  <2>2. \E i \in 1 .. Flight' : i > Older /\ Entry(i)'.mission = m
    <3>1. PICK i : i = last
      OBVIOUS
    <3>2. i \in 1 .. Flight' /\ i > Older /\ Entry(i)'.mission = m
      BY <1>2, <1>3, <1>9, <1>12, <3>1
    <3> QED  BY <3>2
  <2>3. \A k \in Done : k \in Missions
    BY DEF Done
  <2>4. \A k \in Done' : \E i \in 1 .. Flight' : i > Older /\ Entry(i)'.mission = k
    <3> SUFFICES ASSUME NEW k \in Done
                 PROVE  \E i \in 1 .. Flight' : i > Older /\ Entry(i)'.mission = k
      BY <1>7, <2>2
    <3>1. PICK i \in 1 .. Flight : i > Older /\ Entry(i).mission = k
      BY <1>9 DEF FlightOK, AllMissionsInv
    <3> QED  BY <2>1, <2>3, <3>1
  <2>5. Older >= N => \A k \in Missions : \E i \in 1 .. Flight' :
          i <= N /\ Entry(i)'.mission = k
    BY <2>1 DEF FlightOK, AllMissionsInv
  <2>6. Older = 2 * N => \A k \in Missions : \E i \in 1 .. Flight' :
          i > N /\ Entry(i)'.mission = k
    BY <2>1 DEF FlightOK, AllMissionsInv
  <2> QED  BY <1>8, <2>4, <2>5, <2>6 DEF AllMissionsInv
<1> QED  BY <1>13, <1>14, <1>15, <1>16, <1>19, <1>20 DEF FlightOK

\* A job that panics while it scans has nothing in flight, and nobody will get
\* its collection: the batch of its slice never becomes complete.
LEMMA PanicKeepsFlight ==
  ASSUME IInv, FlightOK, NEW m \in Missions, ScanPanics(m)
  PROVE  FlightOK'
<1>1. /\ job[m] = "scan"
      /\ job' = [job EXCEPT ![m] = "scan_panicked"]
      /\ UNCHANGED <<results, chan, fc, merger_pc, output, item, delivered>>
  BY DEF ScanPanics, merger_vars, slicer_vars
<1>2. \A k \in Missions : job'[k] = IF k = m THEN "scan_panicked" ELSE job[k]
  <2>1. JobsOK
    BY TypeOKByThreads DEF IInv
  <2> QED  BY <1>1, <2>1 DEF JobsOK
<1>3. SliceStart' = SliceStart /\ SliceEnd' = SliceEnd
  <2>1. InScope /\ InScope'
    BY <1>1, <1>2 DEF InScope
  <2> QED  BY <1>1, <2>1, SliceFrame
<1>4. Done' = Done
  BY <1>1, <1>2 DEF Done
<1>5. SendingInv'
  <2> SUFFICES ASSUME NEW k \in Missions, job'[k] = "send"
               PROVE  /\ WellFormed(fc[k])
                      /\ fc[k].mission = k
                      /\ fc[k].first_byte_position = SliceStart
                      /\ EndsBefore(fc[k], SliceEnd)
    BY <1>1, <1>3 DEF SendingInv, WellFormed, EndsBefore
  <2> QED  BY <1>2 DEF FlightOK, SendingInv
<1>6. CollectInv'
  BY <1>1, <1>2 DEF FlightOK, CollectInv
<1> QED  BY <1>1, <1>3, <1>4, <1>5, <1>6, FlightFrame

\* A job that cannot send has seen the receiver dropped.
LEMMA JobKeepsFlight ==
  ASSUME IInv, FlightInv, NEW m \in Missions, Job(m)
  PROVE  FlightInv'
<1> SUFFICES ASSUME Alive' PROVE FlightOK'
  BY DEF FlightInv
<1>1. FlightOK /\ Alive
  BY AliveIsNotRegained DEF FlightInv, Next
<1>2. CASE SendFails(m)
  BY <1>1, <1>2 DEF SendFails, ReceiverDropped, Alive
<1> QED  BY <1>1, <1>2, ScanKeepsFlight, SendKeepsFlight, PanicKeepsFlight DEF Job

-----------------------------------------------------------------------------
(* FlightOK over the steps of the main thread.                             *)

\* A read() adds its slice behind what was delivered.
LEMMA NextSliceStartsBehind ==
  ASSUME IInv, NextSlice
  PROVE  SliceStart' = SliceStart
<1>1. /\ main_pc = "next" /\ main_pc' = "scoped"
      /\ S!ReadSome \/ S!SwitchInput
  BY DEF NextSlice
<1>2. S!TypeOK /\ SlicerInv
  BY DEF IInv, TypeOK
<1>3. item'.len \in Nat /\ Len(delivered') = Len(delivered) + item'.len
  <2>1. CASE S!ReadSome
    BY <1>2, <2>1, ReadSomeDelivers
  <2>2. CASE S!SwitchInput
    BY <1>2, <2>2, SwitchInputDelivers, FlightTypes
  <2> QED  BY <1>1, <2>1, <2>2
<1>4. ~InScope /\ InScope'
  <2>1. ~InScope
    BY <1>1 DEF IInv, ScopeInv, InScope
  <2>2. 0 \in Missions /\ job' = [m \in Missions |-> "scan"]
    BY NMissionsIsPositive DEF NextSlice, Missions, R!Missions
  <2> QED  BY <2>1, <2>2 DEF InScope
<1> QED  BY <1>3, <1>4, FlightTypes DEF SliceStart, SliceEnd

LEMMA NextSliceKeepsFlight ==
  ASSUME IInv, FlightOK, NextSlice
  PROVE  FlightOK'
<1>1. /\ main_pc = "next" /\ main_pc' = "scoped"
      /\ job' = [m \in Missions |-> "scan"]
      /\ UNCHANGED <<fc, chan, results, merger_pc, output>>
  BY DEF NextSlice, merger_vars
<1>2. SliceStart' = SliceStart
  BY NextSliceStartsBehind
<1>3. Flight' = Flight /\ \A i : Entry(i)' = Entry(i)
  BY <1>1 DEF Flight, Entry
<1>0. ~InScope
  BY <1>1 DEF IInv, ScopeInv, InScope
<1>4. Done = {} /\ Done' = {}
  BY <1>0, <1>1, NoneDoneOutsideScopes DEF Done
<1>5. Older' = Older /\ Older = Flight
  BY <1>0, <1>1, <1>3, <1>4, NoneDoneOutsideScopes DEF Older
<1>6. CollectInv'
  BY <1>1 DEF FlightOK, CollectInv
<1>7. SendingInv'
  BY <1>1 DEF SendingInv
<1>8. \A i \in 1 .. Flight' : WellFormed(Entry(i))'
  BY <1>3 DEF FlightOK, WellFormed
<1>9. OlderInv'
  BY <1>2, <1>3, <1>5, FlightTypes DEF FlightOK, OlderInv, EndsBefore
<1>10. OneSliceInv'
  BY <1>3 DEF FlightOK, OneSliceInv, EndsBefore, SameBatch
<1>11. AllMissionsInv'
  BY <1>3, <1>4, <1>5 DEF FlightOK, AllMissionsInv
<1> QED  BY <1>6, <1>7, <1>8, <1>9, <1>10, <1>11 DEF FlightOK

\* When the scope ends and the loop goes on, its slice has made up a batch.
LEMMA EndScopeKeepsFlight ==
  ASSUME IInv, FlightOK, Alive, EndScope, main_pc' = "next"
  PROVE  FlightOK'
<1> DEFINE N == NMissions
<1>1. /\ main_pc = "scoped"
      /\ job' = [m \in Missions |-> "idle"]
      /\ UNCHANGED <<delivered, fc, chan, results, merger_pc, output>>
  BY ScopeEnds DEF slicer_vars, merger_vars
<1>2. \A m \in Missions : job[m] = "done"
  BY ScopeEnds
<1>3. Done = Missions /\ Done' = {}
  BY <1>1, <1>2 DEF Done
<1>4. Cardinality(Done) = N /\ Cardinality(Done') = 0
  BY <1>3, MissionsAreFinite, FS_EmptySet
<1>5. Flight' = Flight /\ \A i : Entry(i)' = Entry(i)
  BY <1>1 DEF Flight, Entry
<1>6. Older' = Flight /\ Older = Flight - N /\ N \in Nat \ {0} /\ Flight \in Nat
  BY <1>4, <1>5, FlightTypes DEF Older
<1>7. Len(results) <= N
  <2>1. merger_pc \in {"create", "collect", "merge"}
    BY <1>1 DEF Alive, ScopeInv, IInv, TypeOK
  <2>2. results = <<>> => Len(results) <= N
    BY <1>6, EmptySeq
  <2> QED  BY <2>1, <2>2, FlightTypes DEF FlightOK, CollectInv, IInv, BatchInv
<1>8. Older \in {-N, 0, N} /\ Older' = Older + N
  BY <1>6, <1>7, FlightTypes DEF FlightOK, OlderInv, Flight
<1>9. SliceStart' = SliceEnd /\ SliceEnd' = SliceEnd
  BY <1>1 DEF SliceStart, SliceEnd, InScope
<1>10. CollectInv'
  BY <1>1 DEF FlightOK, CollectInv
<1>11. SendingInv'
  BY <1>1 DEF SendingInv
<1>12. \A i \in 1 .. Flight' : WellFormed(Entry(i))'
  BY <1>5 DEF FlightOK, WellFormed
<1>13. \A i \in 1 .. Flight : EndsBefore(Entry(i), SliceEnd)
  <2> TAKE i \in 1 .. Flight
  <2>1. CASE i > Older
    BY <2>1 DEF FlightOK, OlderInv
  <2>2. CASE i <= Older
    <3>1. EndsBefore(Entry(i), SliceStart)
      BY <2>2 DEF FlightOK, OlderInv
    <3> QED  BY <3>1, EntryTypes, FindingTypes, SliceStartIsNat, FlightTypes
             DEF EndsBefore
  <2> QED  BY <1>6, <2>1, <2>2
<1>14. OlderInv'
  BY <1>5, <1>6, <1>8, <1>9, <1>13 DEF OlderInv, EndsBefore
<1>15. OneSliceInv'
  BY <1>5 DEF FlightOK, OneSliceInv, EndsBefore, SameBatch
<1>16. AllMissionsInv'
  <2>1. Older' >= 0 => \A m \in Done' : \E i \in 1 .. Flight' :
          i > Older' /\ Entry(i)'.mission = m
    BY <1>3
  <2>2. ASSUME Older' >= N, NEW m \in Missions
        PROVE  \E i \in 1 .. Flight : i <= N /\ Entry(i).mission = m
    <3>1. CASE Older = 0
      <4>1. PICK i \in 1 .. Flight : i > Older /\ Entry(i).mission = m
        BY <1>3, <1>6, <3>1 DEF FlightOK, AllMissionsInv
      <4> QED  BY <1>6, <3>1, <4>1
    <3>2. CASE Older = N
      BY <1>6, <3>2 DEF FlightOK, AllMissionsInv
    <3> QED  BY <1>6, <1>8, <2>2, <3>1, <3>2
  <2>3. ASSUME Older' = 2 * N, NEW m \in Missions
        PROVE  \E i \in 1 .. Flight : i > N /\ Entry(i).mission = m
    <3>1. Older = N
      BY <1>6, <1>8, <2>3
    <3>2. PICK i \in 1 .. Flight : i > Older /\ Entry(i).mission = m
      BY <1>3, <1>6, <3>1 DEF FlightOK, AllMissionsInv
    <3> QED  BY <3>1, <3>2
  <2> QED  BY <1>5, <2>1, <2>2, <2>3 DEF AllMissionsInv
<1> QED  BY <1>10, <1>11, <1>12, <1>14, <1>15, <1>16 DEF FlightOK

LEMMA MainKeepsFlight ==
  ASSUME IInv, FlightInv, Main
  PROVE  FlightInv'
<1> SUFFICES ASSUME Alive' PROVE FlightOK'
  BY DEF FlightInv
<1>1. FlightOK /\ Alive
  BY AliveIsNotRegained DEF FlightInv, Next
<1>2. CASE NextSlice
  BY <1>1, <1>2, NextSliceKeepsFlight
<1>3. CASE EndScope /\ main_pc' = "next"
  BY <1>1, <1>3, EndScopeKeepsFlight
<1>4. ASSUME UNCHANGED <<results, chan, job, fc, merger_pc, output, delivered>>,
             item' = item \/ ~InScope
      PROVE  FlightOK'
  <2>1. SliceStart' = SliceStart /\ SliceEnd' = SliceEnd
    BY <1>4 DEF SliceStart, SliceEnd, InScope
  <2>2. CollectInv'
    BY <1>1, <1>4 DEF FlightOK, CollectInv
  <2> QED  BY <1>1, <1>4, <2>1, <2>2, FlightFrame, JobsUnchanged
<1>5. CASE EndScope /\ main_pc' # "next"
  <2>1. UNCHANGED <<results, chan, job, fc, merger_pc, output, delivered, item>>
    BY <1>5, ScopeEnds DEF slicer_vars, merger_vars
  <2> QED  BY <1>4, <2>1
<1>6. CASE InputEnds \/ InputFails
  <2>1. UNCHANGED <<results, chan, job, fc, merger_pc, output, delivered>> /\ ~InScope
    BY <1>6 DEF InputEnds, InputFails, S!EndInput, S!ReadError, job_vars, merger_vars,
                IInv, ScopeInv, InScope
  <2> QED  BY <1>4, <2>1
<1>7. CASE JoinMerger \/ Die
  <2>1. UNCHANGED <<results, chan, job, fc, merger_pc, output, delivered, item>>
    BY <1>7 DEF JoinMerger, Die, job_vars, merger_vars, slicer_vars
  <2> QED  BY <1>4, <2>1
<1> QED  BY <1>2, <1>3, <1>5, <1>6, <1>7 DEF Main

LEMMA NextKeepsFlight ==
  ASSUME IInv, FlightInv, [Next]_vars
  PROVE  FlightInv'
<1>1. CASE UNCHANGED vars
  <2>1. /\ UNCHANGED <<results, chan, job, fc, output, merger_pc, item, delivered>>
        /\ InScope' = InScope
    BY <1>1 DEF vars, slicer_vars, job_vars, merger_vars, InScope
  <2>2. SliceStart' = SliceStart /\ SliceEnd' = SliceEnd
    BY <2>1, SliceFrame
  <2>3. FlightOK => FlightOK'
    <3>1. FlightOK => CollectInv'
      BY <2>1 DEF FlightOK, CollectInv
    <3> QED  BY <2>1, <2>2, <3>1, FlightFrame, JobsUnchanged
  <2> QED  BY <2>1, <2>3 DEF FlightInv, Alive
<1> QED  BY <1>1, MainKeepsFlight, JobKeepsFlight, MergerKeepsFlight DEF Next, Terminated

-----------------------------------------------------------------------------

LEMMA InitFlight == Init => FlightInv
<1> SUFFICES ASSUME Init PROVE FlightOK
  BY DEF FlightInv
<1>1. /\ results = <<>> /\ chan = <<>> /\ output = <<>> /\ merger_pc = "create"
      /\ job = [m \in Missions |-> "idle"]
  BY DEF Init
<1>2. Flight = 0
  BY <1>1 DEF Flight
<1>3. Done = {} /\ Cardinality(Done) = 0
  BY <1>1, FS_EmptySet DEF Done
<1>4. Older = 0
  BY <1>2, <1>3 DEF Older
<1>5. CollectInv /\ SendingInv
  BY <1>1 DEF CollectInv, SendingInv
<1>6. OlderInv /\ OneSliceInv /\ AllMissionsInv
  BY <1>2, <1>3, <1>4, NMissionsIsPositive DEF OlderInv, OneSliceInv, AllMissionsInv
<1> QED  BY <1>2, <1>5, <1>6 DEF FlightOK

LEMMA MergerInvariant == Spec => []MInv
<1>1. Init => MInv
  BY InitIInv, InitFlight DEF MInv
<1>2. MInv /\ [Next]_vars => MInv'
  BY NextKeepsIInv, NextKeepsFlight DEF MInv
<1> QED  BY <1>1, <1>2, PTL DEF Spec

\* N collections are received: that is a batch of an earlier slice, or all jobs
\* of this scope have sent.
LEMMA BatchInFlight ==
  ASSUME MInv, merger_pc = "merge"
  PROVE  /\ FlightOK
         /\ Len(results) = NMissions
         /\ 1 .. NMissions \subseteq 1 .. Flight
         /\ \A i \in 1 .. NMissions : Entry(i) = results[i]
         /\ Older >= NMissions \/ (Older = 0 /\ Flight = NMissions /\ Done = Missions)
<1>1. FlightOK /\ Len(results) = NMissions
  BY DEF MInv, FlightInv, Alive, IInv, BatchInv
<1>2. /\ NMissions \in Nat \ {0} /\ Flight \in Nat
      /\ Flight = NMissions + Len(chan) /\ Len(chan) \in Nat
      /\ Cardinality(Done) \in 0 .. NMissions
  BY <1>1, FlightTypes, DoneIsFinite DEF Flight, MInv
<1>3. Older >= NMissions \/ (Older = 0 /\ Flight = NMissions /\ Done = Missions)
  BY <1>1, <1>2, DoneIsFinite DEF FlightOK, OlderInv, Older
<1>4. \A i \in 1 .. NMissions : Entry(i) = results[i]
  BY <1>1, <1>2 DEF Entry
<1> QED  BY <1>1, <1>2, <1>3, <1>4

\* Counting to the number of scanners is enough: what the merger merges is one
\* collection of every mission, all of one slice, however the jobs of this scope
\* and the merger overtake one another.  (The loop that collects in main::run.)
THEOREM BatchesAreSlices == Spec => []BatchIsOneSlice
<1>1. MInv => BatchIsOneSlice
  <2> SUFFICES ASSUME MInv, merger_pc = "merge"
               PROVE  /\ {results[i].mission : i \in 1 .. Len(results)} = Missions
                      /\ \A i, j \in 1 .. Len(results) :
                            results[i].first_byte_position = results[j].first_byte_position
    BY DEF BatchIsOneSlice
  <2> DEFINE N == NMissions
  <2>1. /\ FlightOK /\ Len(results) = N
        /\ N \in Nat \ {0} /\ Flight \in Nat
        /\ \A i \in 1 .. N : i \in 1 .. Flight /\ Entry(i) = results[i]
        /\ Older >= N \/ (Older = 0 /\ Flight = N /\ Done = Missions)
    BY BatchInFlight, FlightTypes DEF MInv
  <2>2. \A i, j \in 1 .. N : results[i].first_byte_position = results[j].first_byte_position
    <3> TAKE i, j \in 1 .. N
    <3>1. SameBatch(i, j)
      BY <2>1 DEF SameBatch
    <3> QED  BY <2>1, <3>1 DEF FlightOK, OneSliceInv
  <2>3. \A i \in 1 .. N : results[i].mission \in Missions
    BY <2>1, EntryTypes DEF MInv
  <2>4. ASSUME NEW m \in Missions
        PROVE  \E i \in 1 .. N : results[i].mission = m
    <3>1. CASE Older >= N
      <4>1. PICK i \in 1 .. Flight : i <= N /\ Entry(i).mission = m
        BY <2>1, <3>1 DEF FlightOK, AllMissionsInv
      <4>2. i \in 1 .. N
        BY <2>1, <4>1
      <4> QED  BY <2>1, <4>1, <4>2
    <3>2. CASE Older = 0 /\ Flight = N /\ Done = Missions
      BY <2>1, <3>2 DEF FlightOK, AllMissionsInv
    <3> QED  BY <2>1, <3>1, <3>2
  <2> QED  BY <2>1, <2>2, <2>3, <2>4
<1> QED  BY <1>1, MergerInvariant, PTL

-----------------------------------------------------------------------------
(* What is printed.                                                        *)

\* How many findings of entry i are printed.
PrintedOf(i) == IF merger_pc = "merge" /\ i <= Len(results) THEN index[i] ELSE 0

\* Found and not printed: in flight, or about to be sent.
InFlight(f) == \E i \in 1 .. Flight : \E x \in 1 .. Len(Entry(i).v) :
                   x > PrintedOf(i) /\ f = Entry(i).v[x]
InSending(f) == \E m \in Missions : job[m] = "send" /\
                    \E x \in 1 .. Len(fc[m].v) : f = fc[m].v[x]
Pending == {f \in R!Finding : InFlight(f) \/ InSending(f)}

PrintOK ==
    /\ found = R!Printed \cup Pending
    /\ \A p \in 1 .. Len(output) : \A g \in Pending : R!Precedes(output[p], g)
    /\ \A p \in 1 .. Len(output) : \A m \in Missions : output[p].position < consumed[m]

PrintInv == Alive => PrintOK

\* Why the main thread waits for the merger, and with what result it exits.
ExitInv ==
    /\ main_pc = "next" => item # S!Panic
    /\ main_pc = "joining" => item = S!None
    /\ Running <=> main_pc # "exited"
    /\ exit_code = "0" => merger_pc = "ok" /\ item = S!None /\ ~InScope

OInv == MInv /\ PrintInv /\ OutputSorted /\ ExitInv

-----------------------------------------------------------------------------
(* Nothing that is pending precedes what the merger prints.                *)

\* The head of the i-th collection of the batch, among the entries in flight.
LEMMA HeadInFlight ==
  ASSUME MInv, merger_pc = "merge", NEW i \in 1 .. NMissions, HasHead(i)
  PROVE  /\ i \in 1 .. Flight
         /\ index[i] \in Nat
         /\ index[i] + 1 \in 1 .. Len(Entry(i).v)
         /\ HeadOf(i) = Entry(i).v[index[i] + 1]
         /\ PrintedOf(i) = index[i]
         /\ HeadOf(i) \in R!Finding
         /\ HeadOf(i).position \in Nat
         /\ HeadOf(i).mission = Entry(i).mission
         /\ HeadOf(i).nr = index[i] + 1
<1>1. /\ i \in 1 .. Flight /\ Entry(i) = results[i]
      /\ Len(results) = NMissions
      /\ FlightOK
  BY BatchInFlight
<1>2. HeadOf(i) \in R!Finding /\ index[i] \in Nat
  BY HeadIsAFinding, TypeOKByThreads DEF MInv, IInv
<1>3. Len(Entry(i).v) \in Nat
  BY <1>1, EntryTypes DEF MInv
<1>4. index[i] + 1 \in 1 .. Len(Entry(i).v)
  BY <1>1, <1>2, <1>3 DEF HasHead
<1>5. HeadOf(i) = Entry(i).v[index[i] + 1]
  BY <1>1 DEF HeadOf
<1>6. WellFormed(Entry(i))
  BY <1>1 DEF FlightOK
<1>7. HeadOf(i).mission = Entry(i).mission /\ HeadOf(i).nr = index[i] + 1
  BY <1>4, <1>5, <1>6 DEF WellFormed
<1>8. PrintedOf(i) = index[i]
  BY <1>1 DEF PrintedOf
<1> QED  BY <1>1, <1>2, <1>4, <1>5, <1>7, <1>8 DEF R!Finding

LEMMA PrecedesByPosition ==
  ASSUME NEW f, NEW g, f.position < g.position
  PROVE  R!Precedes(f, g)
BY DEF R!Precedes

\* kmerge has compared f with the head h that stands before g.
LEMMA PrecedesByHead ==
  ASSUME NEW f, NEW g, NEW h, ~Less(h, f),
         f.position \in Nat, g.position \in Nat, h.position \in Nat,
         f.mission \in Nat, g.mission \in Nat,
         h.position <= g.position, h.mission = g.mission, f.mission # g.mission
  PROVE  R!Precedes(f, g)
BY DEF R!Precedes, Less

LEMMA HeadPrecedesFlight ==
  ASSUME MInv, merger_pc = "merge", NEW i \in 1 .. NMissions, HasHead(i),
         \A j \in 1 .. NMissions : HasHead(j) => ~Less(HeadOf(j), HeadOf(i)),
         NEW j \in 1 .. Flight, NEW x \in 1 .. Len(Entry(j).v),
         x > PrintedOf(j), j # i \/ x # index[i] + 1
  PROVE  R!Precedes(HeadOf(i), Entry(j).v[x])
<1> DEFINE N == NMissions
           f == HeadOf(i)
           g == Entry(j).v[x]
<1>1. /\ i \in 1 .. Flight
      /\ index[i] \in Nat
      /\ index[i] + 1 \in 1 .. Len(Entry(i).v)
      /\ f = Entry(i).v[index[i] + 1]
      /\ PrintedOf(i) = index[i]
      /\ f.position \in Nat /\ f.mission = Entry(i).mission /\ f.nr = index[i] + 1
  BY HeadInFlight
<1>2. FlightOK /\ Len(results) = N /\ N \in Nat \ {0}
  BY BatchInFlight, NMissionsIsPositive
<1>3. /\ Entry(i) \in Collection /\ Entry(j) \in Collection
      /\ Entry(i).mission \in Nat /\ Entry(j).mission \in Nat
      /\ Len(Entry(i).v) \in Nat /\ Len(Entry(j).v) \in Nat
      /\ Entry(j).first_byte_position \in Nat
  BY <1>1, EntryTypes, MissionsAreFinite DEF MInv
<1>4. g.position \in Nat
  BY <1>3, FindingTypes
<1>5. /\ g.mission = Entry(j).mission /\ g.nr = x
      /\ g.position >= Entry(j).first_byte_position
  BY <1>2 DEF FlightOK, WellFormed
<1>6. CASE j = i
  <2>1. x \in Nat /\ x > index[i] + 1
    BY <1>1, <1>3, <1>6
  <2>2. f.position <= g.position
    BY <1>1, <1>2, <1>6, <2>1 DEF FlightOK, WellFormed
  <2> QED  BY <1>1, <1>4, <1>5, <1>6, <2>1, <2>2 DEF R!Precedes
<1>7. CASE j # i /\ j <= N
  <2>1. Entry(j) = results[j] /\ PrintedOf(j) = index[j]
    BY <1>2, <1>7 DEF Entry, PrintedOf
  <2>2. index[j] \in Nat
    <3>1. index \in Seq(Nat) /\ Len(index) = N
      BY <1>2 DEF MInv, IInv, TypeOK, BatchInv
    <3> QED  BY <1>7, <1>2, <3>1, ElementOfSeq, FlightTypes DEF MInv
  <2>3. j \in 1 .. N /\ HasHead(j)
    BY <1>2, <1>3, <1>7, <2>1, <2>2, FlightTypes DEF HasHead, MInv
  <2> DEFINE h == HeadOf(j)
  <2>4. /\ h = Entry(j).v[index[j] + 1] /\ h.position \in Nat
        /\ index[j] + 1 \in 1 .. Len(Entry(j).v)
        /\ h.mission = Entry(j).mission
    BY <2>3, HeadInFlight
  <2>5. ~Less(h, f)
    BY <2>3
  <2>6. h.position <= g.position
    <3>1. x = index[j] + 1 \/ index[j] + 1 < x
      BY <1>3, <2>1, <2>2
    <3> QED  BY <1>2, <1>4, <2>4, <3>1 DEF FlightOK, WellFormed
  <2>7. f.mission # g.mission /\ f.mission \in Nat /\ g.mission \in Nat
    <3>1. SameBatch(i, j)
      BY <1>2, <1>7 DEF SameBatch
    <3> QED  BY <1>1, <1>2, <1>3, <1>5, <1>7, <3>1 DEF FlightOK, OneSliceInv
  <2> QED  BY <1>1, <1>4, <1>5, <2>4, <2>5, <2>6, <2>7, PrecedesByHead
<1>8. CASE N < j
  <2>1. EndsBefore(Entry(i), Entry(j).first_byte_position)
    BY <1>1, <1>2, <1>8 DEF FlightOK, OneSliceInv
  <2>2. f.position < Entry(j).first_byte_position
    BY <1>1, <2>1 DEF EndsBefore
  <2>3. f.position < g.position
    <3>1. f.position \in Nat /\ g.position \in Nat /\ Entry(j).first_byte_position \in Nat
      BY <1>1, <1>3, <1>4
    <3>2. g.position >= Entry(j).first_byte_position
      BY <1>5
    <3> QED  BY <2>2, <3>1, <3>2
  <2> QED  BY <2>3, PrecedesByPosition
<1> QED  BY <1>2, <1>6, <1>7, <1>8, FlightTypes DEF MInv

\* A job that is about to send: the batch is of an earlier slice.
LEMMA HeadPrecedesSending ==
  ASSUME MInv, merger_pc = "merge", NEW i \in 1 .. NMissions, HasHead(i),
         NEW m \in Missions, job[m] = "send", NEW x \in 1 .. Len(fc[m].v)
  PROVE  R!Precedes(HeadOf(i), fc[m].v[x])
<1>1. /\ i \in 1 .. Flight
      /\ index[i] + 1 \in 1 .. Len(Entry(i).v)
      /\ HeadOf(i) = Entry(i).v[index[i] + 1]
      /\ HeadOf(i).position \in Nat
  BY HeadInFlight
<1>2. FlightOK /\ Older >= NMissions
  BY BatchInFlight DEF Done
<1>3. i <= Older
  <2>1. Older \in Int
    BY DoneIsFinite, FlightTypes DEF Older, MInv
  <2> QED  BY <1>2, <2>1, NMissionsIsPositive
<1>4. EndsBefore(Entry(i), SliceStart)
  BY <1>1, <1>2, <1>3 DEF FlightOK, OlderInv
<1>5. HeadOf(i).position < SliceStart
  BY <1>1, <1>4 DEF EndsBefore
<1>6. fc[m].v[x].position >= SliceStart /\ fc[m].v[x].position \in Nat
  BY <1>2, FlightTypes, FindingTypes DEF FlightOK, SendingInv, WellFormed, MInv
<1> QED  BY <1>1, <1>5, <1>6, SliceStartIsNat DEF R!Precedes, MInv

\* All scanners have passed what is printed.
LEMMA HeadIsPassed ==
  ASSUME MInv, merger_pc = "merge", NEW i \in 1 .. NMissions, HasHead(i),
         NEW m \in Missions
  PROVE  HeadOf(i).position < consumed[m]
<1>1. /\ i \in 1 .. Flight
      /\ index[i] + 1 \in 1 .. Len(Entry(i).v)
      /\ HeadOf(i) = Entry(i).v[index[i] + 1]
      /\ HeadOf(i).position \in Nat
  BY HeadInFlight
<1>2. /\ FlightOK
      /\ Older >= NMissions \/ (Older = 0 /\ Done = Missions)
  BY BatchInFlight
<1>3. /\ SliceStart \in Nat /\ SliceEnd \in Nat /\ SliceStart <= SliceEnd
      /\ consumed[m] = IF HasRead(m) THEN SliceEnd ELSE SliceStart
  BY SliceStartIsNat, ConsumedIs, FlightTypes DEF MInv
<1>4. Older \in Int
  BY DoneIsFinite, FlightTypes DEF Older, MInv
<1>5. CASE Older >= NMissions
  <2>1. i <= Older
    BY <1>4, <1>5, NMissionsIsPositive
  <2>2. EndsBefore(Entry(i), SliceStart)
    BY <1>1, <1>2, <2>1 DEF FlightOK, OlderInv
  <2>3. HeadOf(i).position < SliceStart
    BY <1>1, <2>2 DEF EndsBefore
  <2> QED  BY <1>1, <1>3, <2>3
<1>6. CASE Older = 0 /\ Done = Missions
  <2>1. HasRead(m)
    BY <1>6 DEF Done, HasRead
  <2>2. EndsBefore(Entry(i), SliceEnd)
    BY <1>1, <1>2, <1>6 DEF FlightOK, OlderInv
  <2> QED  BY <1>1, <1>3, <2>1, <2>2 DEF EndsBefore
<1> QED  BY <1>2, <1>5, <1>6

-----------------------------------------------------------------------------
(* PrintOK and OutputSorted when a finding is printed.                     *)

LEMMA PrecedesIsIrreflexive ==
  ASSUME NEW f \in R!Finding
  PROVE  ~R!Precedes(f, f)
<1>1. f.position \in Nat /\ f.mission \in Nat /\ f.nr \in Nat
  BY MissionsAreFinite DEF R!Finding, Missions
<1> QED  BY <1>1 DEF R!Precedes

\* What the merger does when it prints the head of the i-th collection.
Prints(i) ==
    /\ merger_pc = "merge"
    /\ HasHead(i)
    /\ \A j \in 1 .. NMissions : HasHead(j) => ~Less(HeadOf(j), HeadOf(i))
    /\ output' = Append(output, HeadOf(i))
    /\ index' = [index EXCEPT ![i] = @ + 1]
    /\ UNCHANGED <<merger_pc, chan, results, job, fc, consumed, found>>

LEMMA HeadIsPending ==
  ASSUME MInv, merger_pc = "merge", NEW i \in 1 .. NMissions, HasHead(i)
  PROVE  HeadOf(i) \in Pending
<1>1. /\ i \in 1 .. Flight
      /\ index[i] \in Nat
      /\ index[i] + 1 \in 1 .. Len(Entry(i).v)
      /\ HeadOf(i) = Entry(i).v[index[i] + 1]
      /\ PrintedOf(i) = index[i]
      /\ HeadOf(i) \in R!Finding
  BY HeadInFlight
<1>2. index[i] + 1 > PrintedOf(i)
  BY <1>1
<1> QED  BY <1>1, <1>2 DEF Pending, InFlight

LEMMA PrintedAfter ==
  ASSUME MInv, NEW i \in 1 .. NMissions, Prints(i), NEW j \in 1 .. Flight
  PROVE  PrintedOf(j)' = IF j = i THEN index[i] + 1 ELSE PrintedOf(j)
<1>1. Len(results) = NMissions /\ i \in 1 .. Len(index) /\ index \in Seq(Nat)
  BY DEF MInv, IInv, BatchInv, TypeOK, Prints
<1>2. index' = [index EXCEPT ![i] = @ + 1] /\ DOMAIN index = 1 .. Len(index)
  BY <1>1, LenProperties DEF Prints
<1>3. index'[j] = IF j = i THEN index[i] + 1 ELSE index[j]
  <2>1. CASE j = i
    BY <1>1, <1>2, <2>1
  <2>2. CASE j # i
    <3>1. CASE j \in DOMAIN index
      BY <1>1, <1>2, <2>2, <3>1
    <3>2. CASE j \notin DOMAIN index
      BY <1>2, <2>2, <3>2
    <3> QED  BY <3>1, <3>2
  <2> QED  BY <2>1, <2>2
<1>4. i <= Len(results)
  BY <1>1, NMissionsIsPositive
<1> QED  BY <1>1, <1>3, <1>4 DEF PrintedOf, Prints

LEMMA PendingAfterPrint ==
  ASSUME MInv, NEW i \in 1 .. NMissions, Prints(i)
  PROVE  /\ Pending' = Pending \ {HeadOf(i)}
         /\ \A g \in Pending' : R!Precedes(HeadOf(i), g)
<1> DEFINE f == HeadOf(i)
<1>1. /\ merger_pc = "merge" /\ HasHead(i)
      /\ \A j \in 1 .. NMissions : HasHead(j) => ~Less(HeadOf(j), f)
      /\ UNCHANGED <<chan, results, job, fc>>
  BY DEF Prints
<1>2. Flight' = Flight /\ \A j : Entry(j)' = Entry(j)
  BY <1>1 DEF Flight, Entry
<1>3. /\ PrintedOf(i) = index[i] /\ index[i] \in Nat
      /\ f = Entry(i).v[index[i] + 1] /\ f \in R!Finding
  BY <1>1, HeadInFlight
<1>4. \A j \in 1 .. Flight : PrintedOf(j)' = IF j = i THEN index[i] + 1 ELSE PrintedOf(j)
  BY PrintedAfter
<1>5. \A j \in 1 .. Flight : Len(Entry(j).v) \in Nat
  BY EntryTypes DEF MInv
<1>6. ASSUME NEW j \in 1 .. Flight, NEW x \in 1 .. Len(Entry(j).v)
      PROVE  x > PrintedOf(j)' <=> x > PrintedOf(j) /\ (j # i \/ x # index[i] + 1)
  <2>1. x \in Nat
    BY <1>5
  <2>2. CASE j = i
    BY <1>3, <1>4, <2>1, <2>2
  <2>3. CASE j # i
    BY <1>4, <2>3
  <2> QED  BY <2>2, <2>3
<1>7. ASSUME NEW g \in Pending'
      PROVE  g \in Pending /\ R!Precedes(f, g)
  <2>1. g \in R!Finding
    BY DEF Pending
  <2>2. CASE InSending(g)'
    <3>1. PICK m \in Missions : job[m] = "send" /\ \E x \in 1 .. Len(fc[m].v) : g = fc[m].v[x]
      BY <1>1, <2>2 DEF InSending
    <3>2. InSending(g)
      BY <3>1 DEF InSending
    <3> QED  BY <1>1, <2>1, <3>1, <3>2, HeadPrecedesSending DEF Pending
  <2>3. CASE InFlight(g)'
    <3>1. PICK j \in 1 .. Flight : \E x \in 1 .. Len(Entry(j).v) :
             x > PrintedOf(j)' /\ g = Entry(j).v[x]
      BY <1>2, <2>3 DEF InFlight
    <3>2. PICK x \in 1 .. Len(Entry(j).v) : x > PrintedOf(j)' /\ g = Entry(j).v[x]
      BY <3>1
    <3>3. x > PrintedOf(j) /\ (j # i \/ x # index[i] + 1)
      BY <1>6, <3>2
    <3>4. InFlight(g)
      BY <3>2, <3>3 DEF InFlight
    <3> QED  BY <1>1, <2>1, <3>2, <3>3, <3>4, HeadPrecedesFlight DEF Pending
  <2> QED  BY <2>2, <2>3 DEF Pending
<1>8. ASSUME NEW g \in Pending, g # f
      PROVE  g \in Pending'
  <2>1. g \in R!Finding
    BY DEF Pending
  <2>2. CASE InSending(g)
    <3>1. InSending(g)'
      BY <1>1, <2>2 DEF InSending
    <3> QED  BY <2>1, <3>1 DEF Pending
  <2>3. CASE InFlight(g)
    <3>1. PICK j \in 1 .. Flight : \E x \in 1 .. Len(Entry(j).v) :
             x > PrintedOf(j) /\ g = Entry(j).v[x]
      BY <2>3 DEF InFlight
    <3>2. PICK x \in 1 .. Len(Entry(j).v) : x > PrintedOf(j) /\ g = Entry(j).v[x]
      BY <3>1
    <3>3. x > PrintedOf(j)'
      BY <1>3, <1>6, <1>8, <3>2
    <3>4. InFlight(g)'
      BY <1>2, <3>2, <3>3 DEF InFlight
    <3> QED  BY <2>1, <3>4 DEF Pending
  <2> QED  BY <2>2, <2>3 DEF Pending
<1>9. f \notin Pending'
  BY <1>3, <1>7, PrecedesIsIrreflexive
<1> QED  BY <1>7, <1>8, <1>9

\* The finding goes from Pending to the end of the output.
LEMMA PrintKeepsOrder ==
  ASSUME MInv, PrintOK, OutputSorted, NEW i \in 1 .. NMissions, Prints(i)
  PROVE  PrintOK' /\ OutputSorted'
<1> DEFINE f == HeadOf(i)
<1>1. /\ merger_pc = "merge" /\ HasHead(i)
      /\ output' = Append(output, f)
      /\ UNCHANGED <<consumed, found>>
  BY DEF Prints
<1>2. /\ f \in Pending /\ f \in R!Finding
      /\ Pending' = Pending \ {f}
      /\ \A g \in Pending' : R!Precedes(f, g)
  BY <1>1, HeadIsPending, PendingAfterPrint DEF Pending
<1>3. output \in Seq(R!Finding) /\ Len(output) \in Nat
  BY FlightTypes DEF MInv
<1>4. /\ Len(output') = Len(output) + 1
      /\ \A p \in 1 .. Len(output) : output'[p] = output[p]
      /\ output'[Len(output) + 1] = f
  BY <1>1, <1>2, <1>3, AppendProperties
<1> HIDE DEF f
<1>5. \A p \in 1 .. Len(output') :
         \/ p \in 1 .. Len(output) /\ output'[p] = output[p]
         \/ p = Len(output) + 1 /\ output'[p] = f
  BY <1>3, <1>4
<1>6. found' = R!Printed' \cup Pending'
  <2>1. R!Printed' = R!Printed \cup {f}
    BY <1>3, <1>4, <1>5 DEF R!Printed
  <2> QED  BY <1>1, <1>2, <2>1 DEF PrintOK
<1>7. \A p \in 1 .. Len(output') : \A g \in Pending' : R!Precedes(output'[p], g)
  BY <1>2, <1>5 DEF PrintOK
<1>8. \A p \in 1 .. Len(output') : \A m \in Missions : output'[p].position < consumed'[m]
  <2>1. \A m \in Missions : f.position < consumed[m]
    BY <1>1, HeadIsPassed DEF f
  <2> QED  BY <1>1, <1>5, <2>1 DEF PrintOK
<1>9. OutputSorted'
  <2>1. ASSUME NEW p \in 1 .. Len(output') - 1
        PROVE  R!Precedes(output'[p], output'[p + 1])
    <3>1. p \in 1 .. Len(output) /\ output'[p] = output[p]
      BY <1>3, <1>4
    <3>2. CASE p = Len(output)
      BY <1>2, <1>4, <3>1, <3>2 DEF PrintOK
    <3>3. CASE p # Len(output)
      <4>1. p \in 1 .. Len(output) - 1 /\ p + 1 \in 1 .. Len(output)
        BY <1>3, <3>1, <3>3
      <4> QED  BY <1>4, <3>1, <4>1 DEF OutputSorted
    <3> QED  BY <3>2, <3>3
  <2> QED  BY <2>1 DEF OutputSorted, R!Precedes
<1> QED  BY <1>6, <1>7, <1>8, <1>9 DEF PrintOK, R!Precedes

-----------------------------------------------------------------------------
(* PrintOK over the other steps.                                           *)

\* What is pending stays so while entries, their heads and the jobs that are
\* about to send stay the same.
LEMMA PendingFrame ==
  ASSUME Flight' = Flight, UNCHANGED fc,
         \A i \in 1 .. Flight : Entry(i)' = Entry(i) /\ PrintedOf(i)' = PrintedOf(i),
         \A m \in Missions : job'[m] = "send" <=> job[m] = "send"
  PROVE  Pending' = Pending
<1>1. ASSUME NEW f PROVE InFlight(f)' <=> InFlight(f)
  BY DEF InFlight
<1>2. ASSUME NEW f PROVE InSending(f)' <=> InSending(f)
  BY DEF InSending
<1> QED  BY <1>1, <1>2 DEF Pending

LEMMA PrintFrame ==
  ASSUME PrintOK, Pending' = Pending, UNCHANGED <<found, output, consumed>>
  PROVE  PrintOK'
BY DEF PrintOK, R!Printed, R!Precedes

LEMMA OutputFrame ==
  ASSUME OutputSorted, UNCHANGED output
  PROVE  OutputSorted'
BY DEF OutputSorted, R!Precedes

\* What has been received has not been printed.
LEMMA RecvKeepsPrint ==
  ASSUME MInv, PrintOK, Recv
  PROVE  PrintOK'
<1>1. /\ merger_pc = "collect" /\ index' = [i \in 1 .. NMissions |-> 0]
      /\ UNCHANGED <<fc, job, consumed, found, output>>
      /\ merger_pc' = IF Len(results') = NMissions THEN "merge" ELSE "collect"
  BY DEF Recv, job_vars
<1>2. /\ Flight' = Flight
      /\ \A i \in 1 .. Flight : Entry(i)' = Entry(i)
  BY RecvKeepsEntries DEF MInv
<1>3. ASSUME NEW i \in 1 .. Flight
      PROVE  PrintedOf(i)' = PrintedOf(i)
  <2>1. PrintedOf(i) = 0
    BY <1>1 DEF PrintedOf
  <2>2. CASE merger_pc' = "merge" /\ i <= Len(results')
    <3>1. i \in 1 .. NMissions
      BY <1>1, <2>2, FlightTypes DEF MInv
    <3>2. index'[i] = 0
      BY <1>1, <3>1
    <3> QED  BY <2>1, <2>2, <3>2 DEF PrintedOf
  <2>3. CASE ~(merger_pc' = "merge" /\ i <= Len(results'))
    BY <2>1, <2>3 DEF PrintedOf
  <2> QED  BY <2>2, <2>3
<1>4. Pending' = Pending
  BY <1>1, <1>2, <1>3, PendingFrame
<1> QED  BY <1>1, <1>4, PrintFrame

\* A batch is merged to its last finding.
LEMMA BatchPrintedKeepsPrint ==
  ASSUME MInv, PrintOK, BatchPrinted
  PROVE  PrintOK'
<1> DEFINE N == NMissions
<1>1. /\ merger_pc = "merge" /\ merger_pc' = "collect"
      /\ \A i \in 1 .. N : ~HasHead(i)
      /\ UNCHANGED <<fc, job, consumed, found, output>>
  BY DEF BatchPrinted, job_vars
<1>2. /\ Len(results) = N
      /\ Flight' = Flight - N
      /\ \A i \in 1 .. Flight' : i + N \in 1 .. Flight /\ Entry(i)' = Entry(i + N)
  BY BatchPrintedMovesEntries DEF MInv
<1>3. N \in Nat \ {0} /\ Flight \in Nat /\ Flight' \in Nat
  BY <1>2, FlightTypes DEF Flight, MInv
<1>4. \A i \in 1 .. Flight' : PrintedOf(i)' = 0 /\ PrintedOf(i + N) = 0
  BY <1>1, <1>2, <1>3 DEF PrintedOf
<1>5. \A i \in 1 .. Flight : i <= N \/ (i - N \in 1 .. Flight' /\ (i - N) + N = i)
  BY <1>2, <1>3
<1>6. ASSUME NEW i \in 1 .. Flight, i <= N
      PROVE  \A x \in 1 .. Len(Entry(i).v) : ~(x > PrintedOf(i))
  <2>1. i \in 1 .. N /\ Entry(i) = results[i] /\ PrintedOf(i) = index[i]
    BY <1>1, <1>2, <1>3, <1>6 DEF Entry, PrintedOf
  <2>2. index[i] \in Nat
    <3>1. index \in Seq(Nat) /\ Len(index) = N
      BY <1>1 DEF MInv, IInv, TypeOK, BatchInv
    <3> QED  BY <2>1, <3>1, ElementOfSeq
  <2>3. Len(Entry(i).v) \in Nat
    BY EntryTypes DEF MInv
  <2> QED  BY <1>1, <2>1, <2>2, <2>3 DEF HasHead
<1>7. ASSUME NEW f PROVE InFlight(f)' <=> InFlight(f)
  <2>1. ASSUME InFlight(f)' PROVE InFlight(f)
    <3>1. PICK i \in 1 .. Flight' : \E x \in 1 .. Len(Entry(i)'.v) :
             x > PrintedOf(i)' /\ f = Entry(i)'.v[x]
      BY <2>1 DEF InFlight
    <3>2. /\ i + N \in 1 .. Flight /\ Entry(i)' = Entry(i + N)
          /\ PrintedOf(i)' = PrintedOf(i + N)
      BY <1>2, <1>4
    <3> QED  BY <3>1, <3>2 DEF InFlight
  <2>2. ASSUME InFlight(f) PROVE InFlight(f)'
    <3>1. PICK i \in 1 .. Flight : \E x \in 1 .. Len(Entry(i).v) :
             x > PrintedOf(i) /\ f = Entry(i).v[x]
      BY <2>2 DEF InFlight
    <3>2. i - N \in 1 .. Flight' /\ (i - N) + N = i
      BY <1>5, <1>6, <3>1
    <3>3. PICK j \in 1 .. Flight' : j + N = i
      BY <3>2
    <3>4. Entry(j)' = Entry(i) /\ PrintedOf(j)' = PrintedOf(i)
      BY <1>2, <1>4, <3>3
    <3> QED  BY <3>1, <3>4 DEF InFlight
  <2> QED  BY <2>1, <2>2
<1>8. ASSUME NEW f PROVE InSending(f)' <=> InSending(f)
  BY <1>1 DEF InSending
<1>9. Pending' = Pending
  BY <1>7, <1>8 DEF Pending
<1> QED  BY <1>1, <1>9, PrintFrame

\* The merger prints what is pending and loses nothing of it, or it has failed.
LEMMA MergerKeepsPrint ==
  ASSUME MInv, PrintInv, OutputSorted, Merger
  PROVE  PrintInv' /\ OutputSorted'
<1>1. UNCHANGED <<job, fc, consumed, found>>
  BY MergerLeavesTheRest
<1>2. CASE OutputFails
  BY <1>2, OutputFrame DEF OutputFails, PrintInv, Alive
<1>3. Alive' => Alive /\ FlightOK /\ PrintOK
  BY AliveIsNotRegained DEF MInv, FlightInv, PrintInv, Next
<1>4. ASSUME ~OutputFails, CreateOutput \/ RecvFails \/ FinishOutput
      PROVE  PrintInv' /\ OutputSorted'
  <2>1. UNCHANGED <<chan, output>> /\ merger_pc # "merge" /\ merger_pc' # "merge"
    BY <1>4 DEF CreateOutput, RecvFails, FinishOutput
  <2> SUFFICES ASSUME Alive' PROVE PrintOK'
    BY <2>1, OutputFrame DEF PrintInv
  <2>2. UNCHANGED results
    <3>1. CASE RecvFails
      <4>1. merger_pc = "collect" /\ chan = <<>> /\ results' = <<>> /\ ~InScope
        BY <1>1, <3>1 DEF RecvFails, Alive, InScope
      <4>2. IInv /\ FlightOK /\ Len(results) < NMissions
        BY <1>3, <4>1 DEF MInv, FlightOK, CollectInv
      <4> QED  BY <4>1, <4>2, NothingIsDropped
    <3>2. CASE CreateOutput \/ FinishOutput
      BY <1>4, <3>2 DEF CreateOutput, FinishOutput
    <3> QED  BY <1>4, <3>1, <3>2
  <2>3. Flight' = Flight /\ \A i : Entry(i)' = Entry(i) /\ PrintedOf(i)' = PrintedOf(i)
    BY <2>1, <2>2 DEF Flight, Entry, PrintedOf
  <2>4. Pending' = Pending
    BY <1>1, <2>3, PendingFrame
  <2> QED  BY <1>1, <1>3, <2>1, <2>4, PrintFrame
<1>5. CASE Recv
  BY <1>3, <1>5, RecvKeepsPrint, OutputFrame DEF Recv, PrintInv
<1>6. CASE BatchPrinted
  BY <1>3, <1>6, BatchPrintedKeepsPrint, OutputFrame DEF BatchPrinted, PrintInv
<1>7. ASSUME ~OutputFails, PrintNext
      PROVE  PrintInv' /\ OutputSorted'
  <2>1. PICK i \in 1 .. NMissions : Prints(i)
    BY <1>1, <1>7 DEF PrintNext, Prints
  <2>2. Alive
    BY <2>1 DEF Prints, Alive
  <2> QED  BY <2>1, <2>2, PrintKeepsOrder DEF PrintInv
<1> QED  BY <1>2, <1>4, <1>5, <1>6, <1>7 DEF Merger

LEMMA ScanKeepsPrint ==
  ASSUME MInv, PrintOK, NEW m \in Missions, Scan(m)
  PROVE  PrintOK'
<1>1. /\ job[m] = "scan"
      /\ job' = [job EXCEPT ![m] = "send"]
      /\ consumed' = [consumed EXCEPT ![m] = @ + item.len]
      /\ UNCHANGED <<results, chan, merger_pc, index, output>>
  BY DEF Scan, merger_vars
<1>2. PICK v \in Collections(m, consumed[m], item.len) :
        /\ fc' = [fc EXCEPT ![m] = FindingCollection(m, consumed[m], v)]
        /\ found' = found \cup FindingsOf(v)
  BY DEF Scan
<1>3. JobsOK /\ IInv
  BY TypeOKByThreads DEF MInv, IInv
<1>4. PICK c : c = FindingCollection(m, consumed[m], v)
  OBVIOUS
<1>5. /\ c.first_byte_position = SliceStart /\ c.v = v /\ WellFormed(c)
      /\ v \in Seq(R!Finding)
      /\ FindingsOf(v) = {v[x] : x \in 1 .. Len(v)}
  BY <1>1, <1>3, <1>4, ScanMakes
<1>6. \A k \in Missions : /\ job'[k] = IF k = m THEN "send" ELSE job[k]
                          /\ fc'[k] = IF k = m THEN c ELSE fc[k]
                          /\ k # m => consumed'[k] = consumed[k]
                          /\ consumed[k] \in Nat
  BY <1>1, <1>2, <1>3, <1>4 DEF JobsOK
<1>7. /\ consumed'[m] = consumed[m] + item.len /\ item.len \in Nat
      /\ consumed[m] = SliceStart
  <2>1. InScope /\ ~HasRead(m)
    BY <1>1 DEF InScope, HasRead
  <2> QED  BY <1>1, <1>3, <2>1, SliceStartInScope, ConsumedIs DEF JobsOK
<1>8. ASSUME NEW f PROVE InFlight(f)' <=> InFlight(f)
  <2>1. Flight' = Flight /\ \A i : Entry(i)' = Entry(i) /\ PrintedOf(i)' = PrintedOf(i)
    BY <1>1 DEF Flight, Entry, PrintedOf
  <2> QED  BY <2>1 DEF InFlight
<1>9. ASSUME NEW f PROVE InSending(f)' <=> InSending(f) \/ f \in FindingsOf(v)
  <2>1. ASSUME InSending(f)' PROVE InSending(f) \/ f \in FindingsOf(v)
    <3>1. PICK k \in Missions : job'[k] = "send" /\ \E x \in 1 .. Len(fc'[k].v) : f = fc'[k].v[x]
      BY <2>1 DEF InSending
    <3>2. CASE k = m
      BY <1>5, <1>6, <3>1, <3>2
    <3>3. CASE k # m
      BY <1>6, <3>1, <3>3 DEF InSending
    <3> QED  BY <3>2, <3>3
  <2>2. ASSUME f \in FindingsOf(v) PROVE InSending(f)'
    BY <1>5, <1>6, <2>2 DEF InSending
  <2>3. ASSUME InSending(f) PROVE InSending(f)'
    <3>1. PICK k \in Missions : job[k] = "send" /\ \E x \in 1 .. Len(fc[k].v) : f = fc[k].v[x]
      BY <2>3 DEF InSending
    <3>2. k # m
      BY <1>1, <3>1
    <3> QED  BY <1>6, <3>1, <3>2 DEF InSending
  <2> QED  BY <2>1, <2>2, <2>3
<1>10. \A f \in FindingsOf(v) : f \in R!Finding /\ f.position >= SliceStart
  <2> SUFFICES ASSUME NEW x \in 1 .. Len(v)
               PROVE  v[x] \in R!Finding /\ v[x].position >= SliceStart
    BY <1>5
  <2> QED  BY <1>5, ElementOfSeq DEF WellFormed
<1>11. Pending' = Pending \cup FindingsOf(v)
  BY <1>8, <1>9, <1>10 DEF Pending
<1>12. \A p \in 1 .. Len(output) : output[p] \in R!Finding /\ output[p].position \in Nat
  <2>1. output \in Seq(R!Finding)
    BY <1>3, FlightTypes
  <2>2. \A p \in 1 .. Len(output) : output[p] \in R!Finding
    BY <2>1, ElementOfSeq
  <2> QED  BY <2>2 DEF R!Finding
<1>13. ASSUME NEW p \in 1 .. Len(output), NEW g \in FindingsOf(v)
       PROVE  R!Precedes(output[p], g)
  <2>1. output[p].position < SliceStart
    BY <1>7 DEF PrintOK
  <2>2. g.position \in Nat /\ g.position >= SliceStart /\ SliceStart \in Nat
    BY <1>3, <1>10, SliceStartIsNat DEF R!Finding
  <2>3. output[p].position < g.position
    BY <1>12, <2>1, <2>2
  <2> QED  BY <2>3, PrecedesByPosition
<1>14. ASSUME NEW p \in 1 .. Len(output), NEW k \in Missions
       PROVE  output[p].position < consumed'[k]
  <2>1. output[p].position < consumed[k]
    BY DEF PrintOK
  <2>2. CASE k = m
    BY <1>6, <1>7, <1>12, <2>1, <2>2
  <2>3. CASE k # m
    BY <1>6, <2>1, <2>3
  <2> QED  BY <2>2, <2>3
<1>15. R!Printed' = R!Printed
  BY <1>1 DEF R!Printed
<1>16. found' = R!Printed' \cup Pending'
  BY <1>2, <1>11, <1>15 DEF PrintOK
<1>17. \A p \in 1 .. Len(output') : \A g \in Pending' : R!Precedes(output'[p], g)
  BY <1>1, <1>11, <1>13 DEF PrintOK
<1> QED  BY <1>1, <1>14, <1>16, <1>17 DEF PrintOK, R!Precedes

\* What is sent is in flight.
LEMMA SendKeepsPrint ==
  ASSUME MInv, PrintOK, NEW m \in Missions, Send(m)
  PROVE  PrintOK'
<1> DEFINE last == Flight + 1
<1>1. /\ job[m] = "send"
      /\ job' = [job EXCEPT ![m] = "done"]
      /\ UNCHANGED <<fc, consumed, found, results, merger_pc, index, output>>
  BY DEF Send, merger_vars
<1>2. JobsOK /\ IInv
  BY TypeOKByThreads DEF MInv, IInv
<1>3. \A k \in Missions : job'[k] = IF k = m THEN "done" ELSE job[k]
  BY <1>1, <1>2 DEF JobsOK
<1>4. /\ Flight' = last /\ Flight \in Nat
      /\ \A i \in 1 .. Flight : Entry(i)' = Entry(i)
      /\ \A i : i = last => Entry(i)' = fc[m]
  BY <1>2, SendAddsAnEntry, FlightTypes
<1>5. \A i : PrintedOf(i)' = PrintedOf(i)
  BY <1>1 DEF PrintedOf
<1>6. PrintedOf(last) = 0
  BY <1>2, FlightTypes DEF PrintedOf, Flight
<1>7. Len(fc[m].v) \in Nat
  BY <1>2, LenProperties DEF JobsOK, Collection
<1>8. \A i \in 1 .. Flight' : i \in 1 .. Flight \/ i = last
  BY <1>4
<1>9. PICK new : new = last
  OBVIOUS
<1>10. /\ new \in 1 .. Flight' /\ Entry(new)' = fc[m]
       /\ \A x \in 1 .. Len(fc[m].v) : x > PrintedOf(new)'
  BY <1>4, <1>5, <1>6, <1>7, <1>9
<1>11. ASSUME NEW f PROVE InFlight(f)' \/ InSending(f)' <=> InFlight(f) \/ InSending(f)
  <2>1. ASSUME InFlight(f)' PROVE InFlight(f) \/ InSending(f)
    <3>1. PICK i \in 1 .. Flight' : \E x \in 1 .. Len(Entry(i)'.v) :
             x > PrintedOf(i)' /\ f = Entry(i)'.v[x]
      BY <2>1 DEF InFlight
    <3>2. CASE i \in 1 .. Flight
      BY <1>4, <1>5, <3>1, <3>2 DEF InFlight
    <3>3. CASE i = last
      BY <1>1, <1>4, <3>1, <3>3 DEF InSending
    <3> QED  BY <1>8, <3>2, <3>3
  <2>2. ASSUME InSending(f)' PROVE InSending(f)
    <3>1. PICK k \in Missions : job'[k] = "send" /\ \E x \in 1 .. Len(fc[k].v) : f = fc[k].v[x]
      BY <1>1, <2>2 DEF InSending
    <3>2. job[k] = "send"
      BY <1>3, <3>1
    <3> QED  BY <3>1, <3>2 DEF InSending
  <2>3. ASSUME InFlight(f) PROVE InFlight(f)'
    <3>1. PICK i \in 1 .. Flight : \E x \in 1 .. Len(Entry(i).v) :
             x > PrintedOf(i) /\ f = Entry(i).v[x]
      BY <2>3 DEF InFlight
    <3>2. i \in 1 .. Flight' /\ Entry(i)' = Entry(i) /\ PrintedOf(i)' = PrintedOf(i)
      BY <1>4, <1>5
    <3> QED  BY <3>1, <3>2 DEF InFlight
  <2>4. ASSUME InSending(f) PROVE InFlight(f)' \/ InSending(f)'
    <3>1. PICK k \in Missions : job[k] = "send" /\ \E x \in 1 .. Len(fc[k].v) : f = fc[k].v[x]
      BY <2>4 DEF InSending
    <3>2. CASE k = m
      BY <1>10, <3>1, <3>2 DEF InFlight
    <3>3. CASE k # m
      BY <1>1, <1>3, <3>1, <3>3 DEF InSending
    <3> QED  BY <3>2, <3>3
  <2> QED  BY <2>1, <2>2, <2>3, <2>4
<1>12. Pending' = Pending
  BY <1>11 DEF Pending
<1> QED  BY <1>1, <1>12, PrintFrame

\* A job that panics while it scans has found nothing that anybody knows of.
LEMMA PanicKeepsPrint ==
  ASSUME MInv, PrintOK, NEW m \in Missions, ScanPanics(m)
  PROVE  PrintOK'
<1>1. /\ job[m] = "scan"
      /\ job' = [job EXCEPT ![m] = "scan_panicked"]
      /\ UNCHANGED <<fc, consumed, found, chan, merger_pc, results, index, output>>
  BY DEF ScanPanics, merger_vars
<1>2. Flight' = Flight /\ \A i : Entry(i)' = Entry(i) /\ PrintedOf(i)' = PrintedOf(i)
  BY <1>1 DEF Flight, Entry, PrintedOf
<1>3. \A k \in Missions : job'[k] = "send" <=> job[k] = "send"
  <2>1. JobsOK
    BY TypeOKByThreads DEF MInv, IInv
  <2> QED  BY <1>1, <2>1 DEF JobsOK
<1>4. Pending' = Pending
  BY <1>1, <1>2, <1>3, PendingFrame
<1> QED  BY <1>1, <1>4, PrintFrame

LEMMA JobKeepsPrint ==
  ASSUME MInv, PrintInv, OutputSorted, NEW m \in Missions, Job(m)
  PROVE  PrintInv' /\ OutputSorted'
<1>1. UNCHANGED output
  BY DEF Job, Scan, ScanPanics, Send, SendFails, merger_vars
<1>2. OutputSorted'
  BY <1>1, OutputFrame
<1>3. Alive' => Alive /\ PrintOK
  BY AliveIsNotRegained DEF MInv, PrintInv, Next
<1>4. CASE SendFails(m)
  BY <1>2, <1>3, <1>4 DEF SendFails, ReceiverDropped, PrintInv, Alive
<1>5. CASE Scan(m) \/ Send(m) \/ ScanPanics(m)
  BY <1>2, <1>3, <1>5, ScanKeepsPrint, SendKeepsPrint, PanicKeepsPrint DEF PrintInv
<1> QED  BY <1>4, <1>5 DEF Job

\* A scope begins and ends with nobody about to send.
LEMMA MainKeepsPrint ==
  ASSUME MInv, PrintInv, OutputSorted, Main
  PROVE  PrintInv' /\ OutputSorted'
<1>1. UNCHANGED <<fc, consumed, found, chan, merger_pc, results, index, output>>
  BY ScopeEnds DEF Main, NextSlice, InputEnds, InputFails, JoinMerger, Die,
                   merger_vars, job_vars
<1>2. OutputSorted'
  BY <1>1, OutputFrame
<1>3. Flight' = Flight /\ \A i : Entry(i)' = Entry(i) /\ PrintedOf(i)' = PrintedOf(i)
  BY <1>1 DEF Flight, Entry, PrintedOf
<1>4. \A m \in Missions : job'[m] = "send" <=> job[m] = "send"
  <2>1. CASE NextSlice
    <3>1. \A m \in Missions : job[m] = "idle" /\ job'[m] = "scan"
      BY <2>1 DEF NextSlice, MInv, IInv, ScopeInv
    <3> QED  BY <3>1
  <2>2. CASE EndScope
    BY <2>2, ScopeEnds
  <2>3. CASE InputEnds \/ InputFails \/ JoinMerger \/ Die
    BY <2>3 DEF InputEnds, InputFails, JoinMerger, Die, job_vars
  <2> QED  BY <2>1, <2>2, <2>3 DEF Main
<1>5. Pending' = Pending
  BY <1>1, <1>3, <1>4, PendingFrame
<1>6. Alive' => PrintOK
  BY AliveIsNotRegained DEF MInv, PrintInv, Next
<1> QED  BY <1>1, <1>2, <1>5, <1>6, PrintFrame DEF PrintInv

-----------------------------------------------------------------------------
(* The inductive invariant.                                                *)

LEMMA InitPrint == Init => PrintInv /\ OutputSorted /\ ExitInv
<1> SUFFICES ASSUME Init PROVE PrintOK /\ OutputSorted /\ ExitInv
  BY DEF PrintInv
<1>1. /\ results = <<>> /\ chan = <<>> /\ output = <<>> /\ found = {}
      /\ job = [m \in Missions |-> "idle"]
      /\ main_pc = "next" /\ exit_code = "none" /\ item = S!NotCalled
  BY DEF Init, S!Init
<1>2. Flight = 0 /\ Len(output) = 0
  BY <1>1 DEF Flight
<1>3. Pending = {}
  BY <1>1, <1>2 DEF Pending, InFlight, InSending
<1>4. PrintOK
  BY <1>1, <1>2, <1>3 DEF PrintOK, R!Printed
<1>5. OutputSorted
  BY <1>2 DEF OutputSorted
<1>6. ExitInv
  BY <1>1 DEF ExitInv, Running, S!NotCalled, S!Panic
<1> QED  BY <1>4, <1>5, <1>6

LEMMA NextKeepsExit ==
  ASSUME IInv, ExitInv, [Next]_vars
  PROVE  ExitInv'
<1>1. CASE NextSlice
  BY <1>1 DEF NextSlice, ExitInv, Running
<1>2. CASE InputEnds
  BY <1>2 DEF InputEnds, S!EndInput, ExitInv, Running
<1>3. CASE InputFails
  BY <1>3 DEF InputFails, ExitInv, Running
<1>4. CASE EndScope
  <2>1. InScope
    <3>1. 0 \in Missions
      BY NMissionsIsPositive DEF Missions, R!Missions
    <3> QED  BY <1>4, <3>1 DEF EndScope, IInv, ScopeInv, InScope
  <2>2. item # S!Panic /\ item' = item
    BY <1>4, <2>1 DEF EndScope, IInv, ScopeInv, S!Panic, slicer_vars
  <2> QED  BY <1>4, <2>2, ScopeEnds DEF EndScope, ExitInv, Running
<1>5. CASE JoinMerger
  <2>1. UNCHANGED <<item, merger_pc>> /\ ~InScope'
    BY <1>5 DEF JoinMerger, slicer_vars, merger_vars, job_vars, IInv, ScopeInv, InScope
  <2> QED  BY <1>5, <2>1 DEF JoinMerger, ExitInv, Running
<1>6. CASE Die
  BY <1>6 DEF Die, ExitInv, Running
<1>7. ASSUME NEW m \in Missions, Job(m)
      PROVE  ExitInv'
  <2>1. Running /\ UNCHANGED <<item, main_pc, exit_code>>
    BY <1>7 DEF Job, Scan, ScanPanics, Send, SendFails, slicer_vars
  <2> QED  BY <2>1 DEF ExitInv, Running
<1>8. CASE Merger
  <2>1. Running /\ UNCHANGED <<item, main_pc, exit_code>>
    BY <1>8 DEF Merger, CreateOutput, Recv, RecvFails, PrintNext, BatchPrinted,
                FinishOutput, slicer_vars
  <2> QED  BY <2>1 DEF ExitInv, Running
<1>9. CASE UNCHANGED vars
  BY <1>9 DEF vars, slicer_vars, job_vars, merger_vars, ExitInv, Running, InScope
<1> QED  BY <1>1, <1>2, <1>3, <1>4, <1>5, <1>6, <1>7, <1>8, <1>9
         DEF Next, Main, Terminated

LEMMA NextKeepsPrint ==
  ASSUME MInv, PrintInv, OutputSorted, [Next]_vars
  PROVE  PrintInv' /\ OutputSorted'
<1>1. CASE UNCHANGED vars
  <2>1. UNCHANGED <<fc, job, consumed, found, chan, merger_pc, results, index, output>>
    BY <1>1 DEF vars, job_vars, merger_vars
  <2>2. Flight' = Flight /\ \A i : Entry(i)' = Entry(i) /\ PrintedOf(i)' = PrintedOf(i)
    BY <2>1 DEF Flight, Entry, PrintedOf
  <2>3. Pending' = Pending
    BY <2>1, <2>2, PendingFrame
  <2> QED  BY <2>1, <2>3, PrintFrame, OutputFrame DEF PrintInv, Alive, InScope
<1> QED  BY <1>1, MainKeepsPrint, JobKeepsPrint, MergerKeepsPrint DEF Next, Terminated

LEMMA OutputInvariant == Spec => []OInv
<1>1. Init => OInv
  BY InitIInv, InitFlight, InitPrint DEF OInv, MInv
<1>2. OInv /\ [Next]_vars => OInv'
  BY NextKeepsIInv, NextKeepsFlight, NextKeepsPrint, NextKeepsExit DEF OInv, MInv
<1> QED  BY <1>1, <1>2, PTL DEF Spec

\* Whatever the order in which the jobs of a scope end and send, and however far
\* the merger lags behind, findings are printed in the one order of Precedes.
\* (The merger in main::run and Finding::partial_cmp.)
THEOREM OutputIsSorted == Spec => []OutputSorted
<1>1. OInv => OutputSorted
  BY DEF OInv
<1> QED  BY <1>1, OutputInvariant, PTL

-----------------------------------------------------------------------------
(* Success.                                                                *)

\* The theorems about the Slicer, which the main thread drives.
X == INSTANCE SlicerProofs

LEMMA MainDrivesTheSlicer == Spec => X!Spec
<1>1. Init => X!Init
  BY DEF Init, S!Init, X!Init, S!FirstIdx, X!FirstIdx, S!IsLastInput, X!IsLastInput,
         S!OpenReader, X!OpenReader, S!NoByte, X!NoByte, S!NotCalled, X!NotCalled
<1>2. OInv /\ [Next]_vars => [X!Next]_(X!slicer_vars)
  <2> SUFFICES ASSUME OInv, [Next]_vars PROVE [X!Next]_(X!slicer_vars)
    OBVIOUS
  <2>1. ASSUME UNCHANGED slicer_vars PROVE UNCHANGED X!slicer_vars
    BY <2>1 DEF slicer_vars, X!slicer_vars
  <2>2. ASSUME main_pc = "next", S!ReadSome \/ S!SwitchInput \/ S!EndInput \/ S!ReadError
        PROVE  X!Next
    <3>1. item # X!Panic
      BY <2>2 DEF OInv, ExitInv, S!Panic, X!Panic
    <3>2. S!ReadSome => X!ReadSome
      BY DEF S!ReadSome, X!ReadSome, S!ByteAt, X!ByteAt, S!Some, X!Some, S!FileId, X!FileId
    <3>3. S!SwitchInput => X!SwitchInput
      BY DEF S!SwitchInput, X!SwitchInput, S!IsLastInput, X!IsLastInput, S!Some, X!Some,
             S!OpenReader, X!OpenReader, S!FileId, X!FileId
    <3>4. S!EndInput => X!EndInput
      BY DEF S!EndInput, X!EndInput, S!None, X!None
    <3>5. S!ReadError => X!ReadError
      BY DEF S!ReadError, X!ReadError, S!Panic, X!Panic
    <3> QED  BY <2>2, <3>1, <3>2, <3>3, <3>4, <3>5 DEF X!Next, X!NextItem
  <2>3. CASE Main
    BY <2>1, <2>2, <2>3, ScopeEnds DEF Main, NextSlice, InputEnds, InputFails, JoinMerger, Die
  <2>4. ASSUME NEW m \in Missions, Job(m) PROVE UNCHANGED slicer_vars
    BY <2>4 DEF Job, Scan, ScanPanics, Send, SendFails
  <2>5. CASE Merger
    BY <2>1, <2>5, MergerLeavesTheRest
  <2>6. CASE UNCHANGED vars
    BY <2>1, <2>6 DEF vars
  <2> QED  BY <2>1, <2>3, <2>4, <2>5, <2>6 DEF Next, Terminated
<1> QED  BY <1>1, <1>2, OutputInvariant, PTL DEF Spec, X!Spec

\* When the merger has returned Ok with no job left behind, nothing is left that
\* was found.
LEMMA NothingPending ==
  ASSUME OInv, merger_pc = "ok", ~InScope
  PROVE  /\ R!Unprinted = {}
         /\ \A m \in Missions : HasRead(m)
<1>1. FlightOK /\ PrintOK
  BY DEF OInv, MInv, FlightInv, PrintInv, Alive
<1>2. results = <<>> /\ chan = <<>>
  BY <1>1 DEF FlightOK, CollectInv
<1>3. \A m \in Missions : job[m] = "idle" /\ HasRead(m)
  BY DEF InScope, HasRead
<1>4. Flight = 0
  BY <1>2 DEF Flight
<1>5. Pending = {}
  BY <1>3, <1>4 DEF Pending, InFlight, InSending
<1> QED  BY <1>1, <1>3, <1>5 DEF PrintOK, R!Unprinted

\* Exit code 0 means that every scanner has read every byte of every input that
\* could be opened, and that all findings were printed.  (main::run passes on the
\* result of the merger.)
THEOREM SuccessMeansComplete == Spec => []SuccessIsComplete
<1>1. OInv /\ X!CompleteAtEnd => SuccessIsComplete
  <2> SUFFICES ASSUME OInv, X!CompleteAtEnd, exit_code = "0",
                      NEW m \in Missions, NEW i \in Openable, NEW k \in 1 .. Size[i]
               PROVE  /\ R!Unprinted = {}
                      /\ \E p \in 1 .. Len(scanned[m]) : scanned[m][p] = <<i, k>>
    <3>1. ASSUME OInv, exit_code = "0" PROVE R!Unprinted = {}
      BY <3>1, NothingPending DEF OInv, ExitInv
    <3> QED  BY <3>1 DEF SuccessIsComplete
  <2>1. merger_pc = "ok" /\ item = X!None /\ ~InScope
    BY DEF OInv, ExitInv, S!None, X!None
  <2>2. R!Unprinted = {} /\ HasRead(m)
    BY <2>1, NothingPending
  <2>3. PICK p \in 1 .. Len(delivered) : delivered[p] = <<i, k>>
    BY <2>1 DEF X!CompleteAtEnd
  <2>4. /\ Len(scanned[m]) = Len(delivered)
        /\ \A q \in 1 .. Len(scanned[m]) : scanned[m][q] = delivered[q]
    BY <2>2, FlightTypes DEF OInv, MInv, IInv, ReadInv, Unread
  <2> QED  BY <2>2, <2>3, <2>4
<1>2. X!InputsOK
  BY PipelineAssumption DEF S!InputsOK, X!InputsOK, S!Sources, X!Sources
<1> QED  BY <1>1, <1>2, OutputInvariant, MainDrivesTheSlicer, X!DeliveryIsComplete, PTL

-----------------------------------------------------------------------------
(* The report that the user is promised, step by step.                     *)

\* What is unprinted is pending.
LEMMA UnprintedIsPending ==
  ASSUME OInv, Alive
  PROVE  R!Unprinted = Pending
<1>1. PrintOK
  BY DEF OInv, PrintInv
<1>2. ASSUME NEW f \in Pending, f \in R!Printed PROVE FALSE
  <2>1. PICK p \in 1 .. Len(output) : f = output[p]
    BY <1>2 DEF R!Printed
  <2>2. R!Precedes(f, f) /\ f \in R!Finding
    BY <1>1, <2>1 DEF PrintOK, Pending
  <2> QED  BY <2>2, PrecedesIsIrreflexive
<1> QED  BY <1>1, <1>2 DEF PrintOK, R!Unprinted

LEMMA ScanFinds ==
  ASSUME OInv, NEW m \in Missions, Scan(m)
  PROVE  R!Find(m, found' \ found, consumed'[m])
<1>1. /\ exit_code = "none" /\ exit_code' = exit_code
      /\ job[m] = "scan"
      /\ consumed' = [consumed EXCEPT ![m] = @ + item.len]
      /\ output' = output
  BY DEF Scan, Running, merger_vars
<1>2. PICK v \in Collections(m, consumed[m], item.len) :
        found' = found \cup FindingsOf(v)
  BY DEF Scan
<1>3. IInv /\ JobsOK
  BY TypeOKByThreads DEF OInv, MInv, IInv
<1>4. item.len \in Nat /\ consumed[m] \in Nat
  BY <1>1, <1>3, SliceToScan, FlightTypes DEF HasRead
<1>5. /\ consumed'[m] = consumed[m] + item.len
      /\ consumed' = [consumed EXCEPT ![m] = consumed'[m]]
  BY <1>1, <1>3 DEF JobsOK
<1>6. \A f \in FindingsOf(v) : /\ f.mission = m
                               /\ consumed[m] <= f.position
                               /\ f.position < consumed[m] + item.len
  <2>1. PICK k \in 0 .. MaxFindings :
          v \in [1 .. k -> [position : consumed[m] .. consumed[m] + item.len - 1,
                            mission : {m}, nr : 1 .. k]]
    BY DEF Collections
  <2>2. ASSUME NEW i \in DOMAIN v
        PROVE  /\ v[i].mission = m
               /\ consumed[m] <= v[i].position
               /\ v[i].position < consumed[m] + item.len
    <3>1. v[i] \in [position : consumed[m] .. consumed[m] + item.len - 1,
                    mission : {m}, nr : 1 .. k]
      BY <2>1
    <3>2. v[i].mission = m /\ v[i].position \in consumed[m] .. consumed[m] + item.len - 1
      BY <3>1
    <3> QED  BY <1>4, <3>2
  <2> QED  BY <2>2 DEF FindingsOf
<1>7. found' = found \cup (found' \ found) /\ found' \ found \subseteq FindingsOf(v)
  BY <1>2
<1>8. consumed'[m] >= consumed[m]
  BY <1>4, <1>5
<1> QED  BY <1>1, <1>5, <1>6, <1>7, <1>8 DEF R!Find

LEMMA PrintPrintsNext ==
  ASSUME OInv, PrintNext, ~OutputFails
  PROVE  \E f \in R!Unprinted : R!PrintNext(f)
<1>1. UNCHANGED <<job, fc, consumed, found, exit_code>> /\ exit_code = "none"
  BY DEF PrintNext, job_vars, Running
<1>2. PICK i \in 1 .. NMissions : Prints(i)
  BY <1>1 DEF PrintNext, Prints
<1>3. merger_pc = "merge" /\ HasHead(i) /\ output' = Append(output, HeadOf(i))
  BY <1>2 DEF Prints
<1>4. R!Unprinted = Pending
  BY <1>3, UnprintedIsPending DEF Alive
<1>5. HeadOf(i) \in Pending
  BY <1>3, HeadIsPending DEF OInv
<1>6. \A g \in Pending \ {HeadOf(i)} : R!Precedes(HeadOf(i), g)
  <2>1. /\ Pending' = Pending \ {HeadOf(i)}
        /\ \A g \in Pending' : R!Precedes(HeadOf(i), g)
    BY <1>2, PendingAfterPrint DEF OInv
  <2> QED  BY <2>1
<1>7. \A m \in Missions : HeadOf(i).position < consumed[m]
  BY <1>3, HeadIsPassed DEF OInv
<1>8. R!PrintNext(HeadOf(i))
  BY <1>1, <1>3, <1>4, <1>5, <1>6, <1>7 DEF R!PrintNext, Missions
<1> QED  BY <1>4, <1>5, <1>8

LEMMA JoinSucceeds ==
  ASSUME OInv, JoinMerger
  PROVE  R!Succeed \/ R!Fail
<1>1. /\ UNCHANGED <<consumed, found, output>>
      /\ exit_code = "none"
      /\ \/ merger_pc = "ok" /\ exit_code' = "0"
         \/ merger_pc = "err" /\ exit_code' = "1"
  BY DEF JoinMerger, job_vars, merger_vars, Running
<1>2. CASE merger_pc = "ok" /\ exit_code' = "0"
  <2>0. ~InScope
    BY DEF JoinMerger, OInv, MInv, IInv, ScopeInv, InScope
  <2>1. R!Unprinted = {} /\ \A m \in Missions : HasRead(m)
    BY <1>2, <2>0, NothingPending
  <2>2. \A m \in Missions : consumed[m] = SliceEnd
    BY <2>1, ConsumedIs DEF OInv, MInv
  <2>3. R!Succeed
    BY <1>1, <1>2, <2>1, <2>2 DEF R!Succeed, Missions
  <2> QED  BY <2>3
<1>3. CASE merger_pc = "err" /\ exit_code' = "1"
  BY <1>1, <1>3 DEF R!Fail
<1> QED  BY <1>1, <1>2, <1>3

\* run() implements the report: each of its steps is a scanner's finding, the
\* printing of the first finding that is not printed, the end, or nothing that the
\* user sees.
THEOREM RunImplementsReport == Spec => ImplementsReport
<1>1. Init => R!Init
  BY DEF Init, R!Init, Missions
<1>2. OInv /\ [Next]_vars => [R!Next]_(R!report_vars)
  <2> SUFFICES ASSUME OInv, [Next]_vars PROVE [R!Next]_(R!report_vars)
    OBVIOUS
  <2>1. ASSUME UNCHANGED <<consumed, found, output, exit_code>>
        PROVE  UNCHANGED R!report_vars
    BY <2>1 DEF R!report_vars
  <2>2. CASE NextSlice \/ InputEnds \/ InputFails \/ EndScope
    <3>1. UNCHANGED <<consumed, found, output, exit_code>>
      BY <2>2, ScopeEnds DEF NextSlice, InputEnds, InputFails, job_vars, merger_vars
    <3> QED  BY <2>1, <3>1
  <2>3. CASE JoinMerger
    BY <2>3, JoinSucceeds DEF R!Next
  <2>4. CASE Die
    <3>1. R!Fail
      BY <2>4 DEF Die, R!Fail, Running, job_vars, merger_vars
    <3> QED  BY <3>1 DEF R!Next
  <2>5. ASSUME NEW m \in Missions, Job(m)
        PROVE  [R!Next]_(R!report_vars)
    <3>1. CASE Scan(m)
      BY <3>1, ScanFinds DEF R!Next, Missions
    <3>2. CASE ScanPanics(m) \/ Send(m) \/ SendFails(m)
      <4>1. UNCHANGED <<consumed, found, output, exit_code>>
        BY <3>2 DEF ScanPanics, Send, SendFails, merger_vars
      <4> QED  BY <2>1, <4>1
    <3> QED  BY <2>5, <3>1, <3>2 DEF Job
  <2>6. CASE Merger
    <3>1. CASE PrintNext /\ ~OutputFails
      BY <3>1, PrintPrintsNext DEF R!Next
    <3>2. CASE OutputFails
      <4>1. UNCHANGED <<consumed, found, output, exit_code>>
        BY <2>6, <3>2, MergerLeavesTheRest DEF OutputFails
      <4> QED  BY <2>1, <4>1
    <3>3. CASE ~PrintNext /\ ~OutputFails
      <4>1. UNCHANGED <<consumed, found, output, exit_code>>
        BY <2>6, <3>3, MergerLeavesTheRest
           DEF Merger, CreateOutput, Recv, RecvFails, BatchPrinted, FinishOutput
      <4> QED  BY <2>1, <4>1
    <3> QED  BY <3>1, <3>2, <3>3
  <2>7. CASE UNCHANGED vars
    <3>1. UNCHANGED <<consumed, found, output, exit_code>>
      BY <2>7 DEF vars, job_vars, merger_vars
    <3> QED  BY <2>1, <3>1
  <2> QED  BY <2>2, <2>3, <2>4, <2>5, <2>6, <2>7 DEF Next, Main, Terminated
<1> QED  BY <1>1, <1>2, OutputInvariant, PTL DEF Spec, ImplementsReport, R!Spec

=============================================================================
