------------------------------ MODULE Pipeline ------------------------------
(***************************************************************************)
(* main::run of src/main.rs: the main thread takes slice after slice from  *)
(* the Slicer and has each of them scanned by one job per mission, in a    *)
(* scope of a thread pool that ends when all jobs have ended.  A job sends *)
(* the findings it made through a bounded channel to the merger thread,    *)
(* which takes one collection per mission, merges them and prints.         *)
(*                                                                         *)
(* What a job finds (FindingCollection::from) is abstracted to a bounded   *)
(* choice of findings inside the slice, sorted by position -- or a panic   *)
(* (an output buffer that is too short for the leftover, or that got full: *)
(* see BufferNeverOverflows in Scanner).                                   *)
(*                                                                         *)
(* External code, modelled from its use: the scope of scoped_threadpool    *)
(* waits for all its jobs and panics in the main thread if one panicked;   *)
(* mpsc::sync_channel(n) is a FIFO of n places whose send() fails once the *)
(* receiver is dropped and whose recv() fails once it is empty and all its *)
(* senders are dropped; itertools::kmerge takes the smallest of the heads. *)
(***************************************************************************)
EXTENDS Naturals, Sequences

CONSTANTS
    NInputs, Size, Openable, Faulty, BufLen,   \* as in Slicer
    NMissions,     \* MISSIONS.len(), the number of scanners, jobs and workers
    CounterOffset, \* ARGS.counter_offset
    MaxFindings,   \* bound: findings of one scanner in one slice
    OutputMayFail  \* whether creating or writing the output may fail

VARIABLES
    \* The Slicer.
    current_input_idx, current_input_is_last, reader, input_buffer, item,
    delivered,
    \* The main thread and the jobs it hands to the pool.
    main_pc,      \* what the main thread does next
    job,          \* job[m]: the progress of mission m's job in this scope
    fc,           \* fc[m]: the collection that job m has made and will send
    consumed,     \* consumed[m]: ss.consumed_bytes of mission m's scanner
    \* The channel and the merger thread.
    chan,
    merger_pc,
    results,      \* the collections received for the current batch
    index,        \* index[i]: how many findings of results[i] are printed
    output,       \* the findings printed
    exit_code,    \* "none" while the process runs
    \* History.
    scanned,      \* scanned[m]: the bytes mission m's scanner has read
    found         \* all findings that jobs have made

S == INSTANCE Slicer

R == INSTANCE Report WITH
        watermark <- consumed,
        found     <- found,
        printed   <- output,
        status    <- CASE exit_code = "none" -> "running"
                       [] exit_code = "0"    -> "ok"
                       [] OTHER              -> "failed"

slicer_vars == <<current_input_idx, current_input_is_last, reader,
                 input_buffer, item, delivered>>
job_vars    == <<job, fc, consumed, scanned, found>>
merger_vars == <<merger_pc, results, index, output>>

vars == <<slicer_vars, main_pc, job_vars, chan, merger_vars, exit_code>>

Missions == R!Missions

ASSUME PipelineAssumption ==
    /\ S!InputsOK
    /\ NMissions \in Nat \ {0}
    /\ CounterOffset \in Nat
    /\ MaxFindings \in Nat
    /\ OutputMayFail \in BOOLEAN

-----------------------------------------------------------------------------

\* The collections that a scanner may make of n bytes at position start: the
\* position of a finding is that of the window it was decoded from, so it lies
\* in the slice, and windows are scanned from left to right.
Collections(m, start, n) ==
    { v \in UNION {[1 .. k -> [position : start .. start + n - 1,
                               mission  : {m},
                               nr       : 1 .. k]] : k \in 0 .. MaxFindings} :
        /\ \A i \in DOMAIN v : v[i].nr = i
        /\ \A i, j \in DOMAIN v : i < j => v[i].position <= v[j].position }

FindingCollection(m, start, v) == [mission |-> m, first_byte_position |-> start, v |-> v]

FindingsOf(v) == {v[i] : i \in DOMAIN v}

Running == exit_code = "none"

\* tx and all its clones are dropped: the main thread has left the block.
SendersDropped == main_pc \in {"joining", "unwinding"}

\* The merger's closure has returned an error, dropping rx.
ReceiverDropped == merger_pc = "err"

\* A panic in from(), or in the send behind it.
JobPanicked(m) == job[m] \in {"scan_panicked", "panicked"}

JobEnded(m) == job[m] = "done" \/ JobPanicked(m)

Init ==
    /\ S!Init
    /\ main_pc = "next"
    /\ job = [m \in Missions |-> "idle"]
    /\ fc = [m \in Missions |-> FindingCollection(m, CounterOffset, <<>>)]
    /\ consumed = [m \in Missions |-> CounterOffset]
    /\ scanned = [m \in Missions |-> <<>>]
    /\ found = {}
    /\ chan = <<>>
    /\ merger_pc = "create"
    /\ results = <<>>
    /\ index = <<>>
    /\ output = <<>>
    /\ exit_code = "none"

-----------------------------------------------------------------------------
\* The main thread.

\* The for loop gets a slice and opens a scope with a job for every mission.
NextSlice ==
    /\ Running
    /\ main_pc = "next"
    /\ S!ReadSome \/ S!SwitchInput
    /\ main_pc' = "scoped"
    /\ job' = [m \in Missions |-> "scan"]
    /\ UNCHANGED <<fc, consumed, scanned, found, chan, merger_vars, exit_code>>

\* The for loop ends, and with it the block that holds tx.
InputEnds ==
    /\ Running
    /\ main_pc = "next"
    /\ S!EndInput
    /\ main_pc' = "joining"
    /\ UNCHANGED <<job_vars, chan, merger_vars, exit_code>>

\* Slicer::next() panics.
InputFails ==
    /\ Running
    /\ main_pc = "next"
    /\ S!ReadError
    /\ main_pc' = "unwinding"
    /\ UNCHANGED <<job_vars, chan, merger_vars, exit_code>>

\* Mutant: the scope is left when the first job has ended.
EndScope_after_first_job ==
    /\ Running
    /\ main_pc = "scoped"
    /\ \E m \in Missions : JobEnded(m)
    /\ IF \E m \in Missions : JobPanicked(m)
       THEN main_pc' = "unwinding" /\ UNCHANGED job
       ELSE main_pc' = "next" /\ job' = [m \in Missions |-> "idle"]
    /\ UNCHANGED <<slicer_vars, fc, consumed, scanned, found, chan,
                   merger_vars, exit_code>>

\* The scope ends once all its jobs have ended, and panics if one of them did.
EndScope ==
    /\ Running
    /\ main_pc = "scoped"
    /\ \A m \in Missions : JobEnded(m)
    /\ IF \E m \in Missions : JobPanicked(m)
       THEN main_pc' = "unwinding" /\ UNCHANGED job
       ELSE main_pc' = "next" /\ job' = [m \in Missions |-> "idle"]
    /\ UNCHANGED <<slicer_vars, fc, consumed, scanned, found, chan,
                   merger_vars, exit_code>>

\* Mutant: the merger is joined, its result is ignored.
JoinMerger_ignores_error ==
    /\ Running
    /\ main_pc = "joining"
    /\ merger_pc \in {"ok", "err"}
    /\ exit_code' = "0"
    /\ main_pc' = "exited"
    /\ UNCHANGED <<slicer_vars, job_vars, chan, merger_vars>>

\* merger.join().unwrap(): the result of the merger is the result of run().
JoinMerger ==
    /\ Running
    /\ main_pc = "joining"
    /\ \/ merger_pc = "ok" /\ exit_code' = "0"
       \/ merger_pc = "err" /\ exit_code' = "1"
    /\ main_pc' = "exited"
    /\ UNCHANGED <<slicer_vars, job_vars, chan, merger_vars>>

\* A panic has unwound the main thread: the process ends, with all its threads.
Die ==
    /\ Running
    /\ main_pc = "unwinding"
    /\ exit_code' = "101"
    /\ main_pc' = "exited"
    /\ UNCHANGED <<slicer_vars, job_vars, chan, merger_vars>>

Main == NextSlice \/ InputEnds \/ InputFails \/ EndScope \/ JoinMerger \/ Die

-----------------------------------------------------------------------------
\* The job of mission m, in a worker of the pool.

\* Mutant: consumed_bytes is advanced by the length of the buffer.
Scan_counts_whole_buffer(m) ==
    /\ Running
    /\ job[m] = "scan"
    /\ \E v \in Collections(m, consumed[m], item.len) :
         /\ fc' = [fc EXCEPT ![m] = FindingCollection(m, consumed[m], v)]
         /\ found' = found \cup FindingsOf(v)
    /\ consumed' = [consumed EXCEPT ![m] = @ + BufLen]
    /\ scanned' = [scanned EXCEPT ![m] = @ \o SubSeq(input_buffer, 1, item.len)]
    /\ job' = [job EXCEPT ![m] = "send"]
    /\ UNCHANGED <<slicer_vars, main_pc, chan, merger_vars, exit_code>>

\* FindingCollection::from reads the slice, which is the front of input_buffer
\* at the time of reading, and advances ss.consumed_bytes by its length.
Scan(m) ==
    /\ Running
    /\ job[m] = "scan"
    /\ \E v \in Collections(m, consumed[m], item.len) :
         /\ fc' = [fc EXCEPT ![m] = FindingCollection(m, consumed[m], v)]
         /\ found' = found \cup FindingsOf(v)
    /\ consumed' = [consumed EXCEPT ![m] = @ + item.len]
    /\ scanned' = [scanned EXCEPT ![m] = @ \o SubSeq(input_buffer, 1, item.len)]
    /\ job' = [job EXCEPT ![m] = "send"]
    /\ UNCHANGED <<slicer_vars, main_pc, chan, merger_vars, exit_code>>

\* FindingCollection::from panics, and with it the job: of this slice the scanner
\* sends nothing, while the jobs beside it may have sent or still send theirs.
ScanPanics(m) ==
    /\ Running
    /\ job[m] = "scan"
    /\ job' = [job EXCEPT ![m] = "scan_panicked"]
    /\ UNCHANGED <<slicer_vars, main_pc, fc, consumed, scanned, found, chan,
                   merger_vars, exit_code>>

\* Mutant: a channel without a bound.
Send_unbounded(m) ==
    /\ Running
    /\ job[m] = "send"
    /\ ~ReceiverDropped
    /\ chan' = Append(chan, fc[m])
    /\ job' = [job EXCEPT ![m] = "done"]
    /\ UNCHANGED <<slicer_vars, main_pc, fc, consumed, scanned, found,
                   merger_vars, exit_code>>

\* tx.send(fc) blocks while the channel is full.
Send(m) ==
    /\ Running
    /\ job[m] = "send"
    /\ ~ReceiverDropped
    /\ Len(chan) < NMissions
    /\ chan' = Append(chan, fc[m])
    /\ job' = [job EXCEPT ![m] = "done"]
    /\ UNCHANGED <<slicer_vars, main_pc, fc, consumed, scanned, found,
                   merger_vars, exit_code>>

\* Mutant: a job that cannot send tries again.
SendFails_retries(m) ==
    /\ Running
    /\ job[m] = "send"
    /\ ReceiverDropped
    /\ UNCHANGED vars

\* tx.send(fc) returns an error, and expect() panics in the worker.
SendFails(m) ==
    /\ Running
    /\ job[m] = "send"
    /\ ReceiverDropped
    /\ job' = [job EXCEPT ![m] = "panicked"]
    /\ UNCHANGED <<slicer_vars, main_pc, fc, consumed, scanned, found, chan,
                   merger_vars, exit_code>>

Job(m) == Scan(m) \/ ScanPanics(m) \/ Send(m) \/ SendFails(m)

-----------------------------------------------------------------------------
\* The merger thread.

\* A fallible operation on the output returns its error with `?': rx and all
\* that is left in the channel are dropped.
OutputFails ==
    /\ OutputMayFail
    /\ merger_pc' = "err"
    /\ chan' = <<>>
    /\ UNCHANGED <<results, index, output>>

\* File::create() and the byte order mark.
CreateOutput ==
    /\ Running
    /\ merger_pc = "create"
    /\ \/ merger_pc' = "collect" /\ UNCHANGED <<chan, results, index, output>>
       \/ OutputFails
    /\ UNCHANGED <<slicer_vars, main_pc, job_vars, exit_code>>

\* Mutant: the merger merges one collection too early.
Recv_one_short ==
    /\ Running
    /\ merger_pc = "collect"
    /\ chan # <<>>
    /\ results' = Append(results, Head(chan))
    /\ chan' = Tail(chan)
    /\ merger_pc' = IF Len(results') >= NMissions - 1 THEN "merge" ELSE "collect"
    /\ index' = [i \in 1 .. NMissions |-> 0]
    /\ UNCHANGED <<slicer_vars, main_pc, job_vars, output, exit_code>>

\* rx.recv() for the next of n_threads collections; the last one completes the
\* batch.
Recv ==
    /\ Running
    /\ merger_pc = "collect"
    /\ chan # <<>>
    /\ results' = Append(results, Head(chan))
    /\ chan' = Tail(chan)
    /\ merger_pc' = IF Len(results') = NMissions THEN "merge" ELSE "collect"
    /\ index' = [i \in 1 .. NMissions |-> 0]
    /\ UNCHANGED <<slicer_vars, main_pc, job_vars, output, exit_code>>

\* Mutant: the merger stops when the senders are gone, with messages left.
RecvFails_early ==
    /\ Running
    /\ merger_pc = "collect"
    /\ SendersDropped
    /\ merger_pc' = "finish"
    /\ results' = <<>>
    /\ UNCHANGED <<slicer_vars, main_pc, job_vars, chan, index, output, exit_code>>

\* rx.recv() returns an error: break 'batch_receiver drops an incomplete batch.
RecvFails ==
    /\ Running
    /\ merger_pc = "collect"
    /\ chan = <<>>
    /\ SendersDropped
    /\ merger_pc' = "finish"
    /\ results' = <<>>
    /\ UNCHANGED <<slicer_vars, main_pc, job_vars, chan, index, output, exit_code>>

\* The next finding of the i-th collection, if it has one.
HasHead(i)  == index[i] < Len(results[i].v)
HeadOf(i)   == results[i].v[index[i] + 1]

\* Mutant: findings are compared by mission first.
Less_mission_first(f, g) ==
    \/ f.mission < g.mission
    \/ f.mission = g.mission /\ f.position < g.position

\* Finding::partial_cmp.  (Mission ids are distinct, so the fields behind it in
\* the code's comparison never decide.)
Less(f, g) ==
    \/ f.position < g.position
    \/ f.position = g.position /\ f.mission < g.mission

\* kmerge yields a head that no other head is less than, and print() writes it.
PrintNext ==
    /\ Running
    /\ merger_pc = "merge"
    /\ \E i \in 1 .. NMissions :
         /\ HasHead(i)
         /\ \A j \in 1 .. NMissions : HasHead(j) => ~Less(HeadOf(j), HeadOf(i))
         /\ \/ /\ output' = Append(output, HeadOf(i))
               /\ index' = [index EXCEPT ![i] = @ + 1]
               /\ UNCHANGED <<merger_pc, chan, results>>
            \/ OutputFails
    /\ UNCHANGED <<slicer_vars, main_pc, job_vars, exit_code>>

\* kmerge is exhausted; the loop collects the next batch.
BatchPrinted ==
    /\ Running
    /\ merger_pc = "merge"
    /\ \A i \in 1 .. NMissions : ~HasHead(i)
    /\ merger_pc' = "collect"
    /\ results' = <<>>
    /\ UNCHANGED <<slicer_vars, main_pc, job_vars, chan, index, output, exit_code>>

\* The last newline and flush().
FinishOutput ==
    /\ Running
    /\ merger_pc = "finish"
    /\ \/ merger_pc' = "ok" /\ UNCHANGED <<chan, results, index, output>>
       \/ OutputFails
    /\ UNCHANGED <<slicer_vars, main_pc, job_vars, exit_code>>

Merger == CreateOutput \/ Recv \/ RecvFails \/ PrintNext \/ BatchPrinted
            \/ FinishOutput

-----------------------------------------------------------------------------

\* The process has ended.
Terminated == ~Running /\ UNCHANGED vars

Next == \/ Main
        \/ \E m \in Missions : Job(m)
        \/ Merger
        \/ Terminated

Spec == Init /\ [][Next]_vars

\* The operating system runs every thread that can run.
FairSpec ==
    /\ Spec
    /\ WF_vars(Main)
    /\ \A m \in Missions : WF_vars(Job(m))
    /\ WF_vars(Merger)

-----------------------------------------------------------------------------

Collection == [mission : Missions, first_byte_position : Nat, v : Seq(R!Finding)]

\* Type invariant.
TypeOK ==
    /\ S!TypeOK
    /\ main_pc \in {"next", "scoped", "joining", "unwinding", "exited"}
    /\ job \in [Missions -> {"idle", "scan", "send", "done",
                             "scan_panicked", "panicked"}]
    /\ fc \in [Missions -> Collection]
    /\ consumed \in [Missions -> Nat]
    /\ scanned \in [Missions -> Seq(S!Byte)]
    /\ found \in SUBSET R!Finding
    /\ chan \in Seq(Collection)
    /\ Len(chan) <= NMissions
    /\ merger_pc \in {"create", "collect", "merge", "finish", "ok", "err"}
    /\ results \in Seq(Collection)
    /\ index \in Seq(Nat)
    /\ output \in Seq(R!Finding)
    /\ exit_code \in {"none", "0", "1", "101"}

\* The scanner of mission m is through with all that was delivered.
HasRead(m) == job[m] \notin {"scan", "scan_panicked"}

SameBytes(b, c) == Len(b) = Len(c) /\ \A i \in 1 .. Len(b) : b[i] = c[i]

\* Every scanner reads the input stream gaplessly and exactly once, although
\* all it is given are aliases of one buffer that the Slicer overwrites behind
\* the borrow checker's back: what a scanner has read is what the Slicer has
\* delivered, except for the slice of the current scope while its job has not
\* run, or if it panicked.  (The scope in main::run and as_mut_slice_no_borrow_check! in input.rs.)
ScannersReadTheStream ==
    \A m \in Missions :
        SameBytes(scanned[m],
                  IF HasRead(m) THEN delivered
                  ELSE SubSeq(delivered, 1, Len(delivered) - item.len))

\* All scanners count the same byte positions: outside a scope each of them is
\* as far behind the counter offset as bytes were delivered.  (Positions of
\* different scanners are compared by the merger.)
PositionsInStep ==
    \A m \in Missions :
        HasRead(m) => consumed[m] = CounterOffset + Len(delivered)

\* A batch to be merged holds exactly one collection of every mission, and all
\* of them are of the same slice: the merger counts to n_threads and never looks
\* at what it has got.  (The collecting loop in main::run.)
BatchIsOneSlice ==
    merger_pc = "merge" =>
        /\ {results[i].mission : i \in 1 .. Len(results)} = Missions
        /\ \A i, j \in 1 .. Len(results) :
              results[i].first_byte_position = results[j].first_byte_position

\* Whatever the order in which jobs finish and send, the output is in the one
\* total order of findings ("After merging and sorting the order is
\* deterministic", says the test in main.rs).
OutputSorted ==
    \A p \in 1 .. Len(output) - 1 : R!Precedes(output[p], output[p + 1])

\* If the process reports success, then every scanner has read every byte of
\* every input that could be opened, and all findings were printed.  (run()
\* passes on the merger's result; a batch that was cut short, by the end of the
\* input or by a job that panicked beside others that had sent, is dropped.)
SuccessIsComplete ==
    exit_code = "0" =>
        /\ R!Unprinted = {}
        /\ \A m \in Missions : \A i \in Openable : \A k \in 1 .. Size[i] :
              \E p \in 1 .. Len(scanned[m]) : scanned[m][p] = <<i, k>>

\* run() implements the report its user is promised.
ImplementsReport == R!Spec

\* Full channel, dead merger, panicking job or not: the process comes to an end.
Termination == <>(exit_code # "none")

\* An error while the output is written always ends in a failure the caller of
\* the program sees.  (`?' in the merger, expect() in the jobs, join() in run.)
OutputErrorIsReported ==
    merger_pc = "err" ~> exit_code \in {"1", "101"}

=============================================================================
