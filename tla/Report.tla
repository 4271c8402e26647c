------------------------------- MODULE Report -------------------------------
(***************************************************************************)
(* What stringsext promises its user, with no batch, thread or channel in  *)
(* it: the findings of all scanners, in one stream sorted by position.     *)
(*                                                                         *)
(* Every scanner reports findings and advances a watermark: it will never  *)
(* report a finding that lies before it.  A finding may be printed when it *)
(* is the first of those not printed yet and all watermarks have passed it *)
(* -- nothing that belongs before it can still turn up.  A successful end  *)
(* leaves nothing unprinted.                                               *)
(*                                                                         *)
(* Sources: the order of findings is src/finding.rs, PartialOrd; the rest  *)
(* is what main::run in src/main.rs sets out to do.                        *)
(***************************************************************************)
EXTENDS Naturals, Sequences

CONSTANTS
    NMissions,    \* the number of scanners
    CounterOffset \* the position of the first input byte (--counter-offset)

\* Scanners are numbered by their `mission_id'.
Missions == 0 .. NMissions - 1

VARIABLES watermark, found, printed, status

report_vars == <<watermark, found, printed, status>>

\* A finding: where it is said to be, who found it, and its place among the
\* findings that the same scanner made in the same run.
Finding == [position : Nat, mission : Missions, nr : Nat \ {0}]

\* The order in which findings are printed.  The first two disjuncts are
\* Finding::partial_cmp; findings it holds to be equal come from one collection,
\* which kmerge reads from its first to its last.
Precedes(f, g) ==
    \/ f.position < g.position
    \/ f.position = g.position /\ f.mission < g.mission
    \/ f.position = g.position /\ f.mission = g.mission /\ f.nr < g.nr

Printed == {printed[i] : i \in 1 .. Len(printed)}

Unprinted == found \ Printed

Init ==
    /\ watermark = [m \in Missions |-> CounterOffset]
    /\ found = {}
    /\ printed = <<>>
    /\ status = "running"

\* Scanner m reports the findings F and advances to w.
Find(m, F, w) ==
    /\ status = "running"
    /\ w >= watermark[m]
    /\ \A f \in F : /\ f.mission = m
                    /\ watermark[m] <= f.position
                    /\ f.position < w
    /\ watermark' = [watermark EXCEPT ![m] = w]
    /\ found' = found \cup F
    /\ UNCHANGED <<printed, status>>

PrintNext(f) ==
    /\ status = "running"
    /\ f \in Unprinted
    /\ \A g \in Unprinted \ {f} : Precedes(f, g)
    /\ \A m \in Missions : f.position < watermark[m]
    /\ printed' = Append(printed, f)
    /\ UNCHANGED <<watermark, found, status>>

\* The end of a successful run: all scanners got equally far and everything
\* they found is printed.
Succeed ==
    /\ status = "running"
    /\ Unprinted = {}
    /\ \A m, k \in Missions : watermark[m] = watermark[k]
    /\ status' = "ok"
    /\ UNCHANGED <<watermark, found, printed>>

Fail ==
    /\ status = "running"
    /\ status' = "failed"
    /\ UNCHANGED <<watermark, found, printed>>

\* found' \ found is the set of findings reported: no set of all findings need
\* be enumerated to follow a step of the program.
Next ==
    \/ \E m \in Missions : Find(m, found' \ found, watermark'[m])
    \/ \E f \in Unprinted : PrintNext(f)
    \/ Succeed
    \/ Fail

Spec == Init /\ [][Next]_report_vars

=============================================================================
