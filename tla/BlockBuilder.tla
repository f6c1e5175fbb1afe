---------------------------- MODULE BlockBuilder ----------------------------
(***************************************************************************)
(* How the driver notices that the chain was reorganised                   *)
(* (driver/controller/block_builder.go: Start, Next, checkReorg), together *)
(* with what it relies on: a node whose view of the chain changes, blocks  *)
(* that were fetched ahead of their turn, and the rollback of checkpoints  *)
(* that a reported reorganisation leads to.                                *)
(*                                                                         *)
(* A view is a chain: the tag of every block.  The hash of block n is the  *)
(* tags up to n, so two blocks have the same hash exactly when they have   *)
(* the same history.                                                       *)
(***************************************************************************)
EXTENDS Integers, Sequences, Sparsify

CONSTANTS
    MaxBlock,       \* last block of the full block range
    WithData,       \* the blocks that have data for the processor
    Views,          \* the chains the node may report
    WatchFrom,      \* the first block of the watching range
    MaxAhead,       \* blocks the fetcher keeps ready
    MaxSwitch,      \* bound: reorganisations
    MaxFail         \* bound: runs that fail

Block == 0 .. MaxBlock
None == -1

VARIABLES
    view, switches,     \* what the node reports
    checkpoints,        \* headers of the checkpoints
    base,               \* checkpoints when the run started
    phase,              \* "down", "next", "scan", "done"
    currentBlockNumber,
    headerList,
    ahead,              \* headers of the blocks that are ready, from the current one on
    scan, reorg,        \* checkReorg: the index that is read next, the result so far
    failures

vars == <<view, switches, checkpoints, base, phase, currentBlockNumber, headerList, ahead,
          scan, reorg, failures>>

Prefix(v, n) == SubSeq(v, 1, n + 1)
Header(v, n) == [num |-> n, hash |-> Prefix(v, n), parent |-> Prefix(v, n - 1)]

Init ==
    /\ view \in Views /\ switches = 0
    /\ checkpoints = <<>> /\ base = 0 /\ phase = "down"
    /\ currentBlockNumber = 0 /\ headerList = <<>> /\ ahead = <<>>
    /\ scan = 0 /\ reorg = None /\ failures = 0

\* The node follows another chain.
Switch ==
    /\ switches < MaxSwitch /\ switches' = switches + 1
    /\ view' \in Views \ {view}
    /\ UNCHANGED <<checkpoints, base, phase, currentBlockNumber, headerList, ahead, scan,
                   reorg, failures>>

Start ==
    /\ phase = "down"
    /\ LET n == Len(checkpoints) IN
       /\ currentBlockNumber' = IF n = 0 THEN 0 ELSE checkpoints[n].num + 1
       /\ headerList' = IF n = 0 THEN <<>> ELSE <<checkpoints[n]>>
    /\ ahead' = <<>> /\ base' = Len(checkpoints)
    /\ phase' = "next"
    /\ UNCHANGED <<view, switches, checkpoints, scan, reorg, failures>>

\* KeepFetch: the data of the next block is as the node reports it now.
FetchAhead ==
    /\ phase \in {"next", "scan"} /\ Len(ahead) < MaxAhead
    /\ currentBlockNumber + Len(ahead) \in Block
    /\ ahead' = Append(ahead, Header(view, currentBlockNumber + Len(ahead)))
    /\ UNCHANGED <<view, switches, checkpoints, base, phase, currentBlockNumber, headerList,
                   scan, reorg, failures>>

-----------------------------------------------------------------------------
(* Next, with checkLink.                                                   *)

cur == Head(ahead)
pre == headerList[Len(headerList)]
Adjacent == pre.num + 1 = cur.num
inWatching == currentBlockNumber >= WatchFrom

\* Mutant: only in the watching range anything is compared.
MustScanWatching ==
    /\ headerList # <<>>
    /\ inWatching /\ (Adjacent => cur.parent # pre.hash)

\* checkReorg has to read recorded headers again.
MustScan ==
    /\ headerList # <<>>
    /\ IF Adjacent THEN cur.parent # pre.hash ELSE inWatching

Accepts ==
    /\ LET more == Append(headerList, cur)
       IN  headerList' = Thinned(more, [i \in DOMAIN more |-> more[i].num])
    /\ checkpoints' = Append(checkpoints, cur)
    /\ currentBlockNumber' = currentBlockNumber + 1
    /\ ahead' = Tail(ahead)
    /\ phase' = "next" /\ scan' = 0 /\ reorg' = None
    /\ UNCHANGED <<view, switches, base, failures>>

NextWithout ==
    /\ phase = "next" /\ ahead # <<>> /\ currentBlockNumber \notin WithData
    /\ currentBlockNumber' = currentBlockNumber + 1
    /\ ahead' = Tail(ahead)
    /\ UNCHANGED <<view, switches, checkpoints, base, phase, headerList, scan, reorg, failures>>

NextLinked ==
    /\ phase = "next" /\ ahead # <<>> /\ currentBlockNumber \in WithData
    /\ ~MustScan
    /\ Accepts

NextScans ==
    /\ phase = "next" /\ ahead # <<>> /\ currentBlockNumber \in WithData
    /\ MustScan
    /\ phase' = "scan" /\ scan' = Len(headerList) /\ reorg' = None
    /\ UNCHANGED <<view, switches, checkpoints, base, currentBlockNumber, headerList, ahead,
                   failures>>

Unchanged(h) == Prefix(view, h.num) = h.hash

\* Mutant: the changed block itself is taken to be valid.
ChangedAfter(i) == headerList[i].num + 1

ChangedFrom(i) == headerList[i].num

\* GetHeaderIgnoreCache returns another hash: the header before it is next.
ScanChanged ==
    /\ phase = "scan" /\ scan > 0 /\ ~Unchanged(headerList[scan])
    /\ reorg' = ChangedFrom(scan)
    /\ scan' = scan - 1
    /\ UNCHANGED <<view, switches, checkpoints, base, phase, currentBlockNumber, headerList,
                   ahead, failures>>

\* Nothing has changed: the block is taken.
ScanClean ==
    /\ phase = "scan" /\ scan = Len(headerList) /\ Unchanged(headerList[scan])
    /\ Accepts

\* Mutant: the header that changed is the first one that is dropped.
FirstInvalidNext(i) == headerList[i + 1].num

\* What changed may be any block after the header that did not.
FirstInvalid(i) == headerList[i].num + 1

\* CleanCheckpoint.
Remain(ge) == SelectSeq(checkpoints, LAMBDA c : c.num < ge)

\* The reorganisation is reported, the checkpoints are cleaned, the run ends.
\* Blocks whose checkpoint was not made yet are gone with it.
Reports(ge) ==
    /\ \E k \in base .. Len(checkpoints) :
          checkpoints' = SubSeq(Remain(ge), 1, Min({k, Len(Remain(ge))}))
    /\ phase' = "down" /\ scan' = 0 /\ reorg' = None
    /\ headerList' = <<>> /\ ahead' = <<>>
    /\ UNCHANGED <<view, switches, base, currentBlockNumber, failures>>

ScanFound ==
    /\ phase = "scan" /\ scan \in 1 .. (Len(headerList) - 1) /\ Unchanged(headerList[scan])
    /\ Reports(FirstInvalid(scan))

ScanExhausted ==
    /\ phase = "scan" /\ scan = 0
    /\ Reports(reorg)

\* The run fails: in the re-scan, or anywhere else.
RunFails ==
    /\ phase \in {"next", "scan"} /\ failures < MaxFail /\ failures' = failures + 1
    /\ \E k \in base .. Len(checkpoints) : checkpoints' = SubSeq(checkpoints, 1, k)
    /\ phase' = "down" /\ scan' = 0 /\ reorg' = None
    /\ headerList' = <<>> /\ ahead' = <<>>
    /\ UNCHANGED <<view, switches, base, currentBlockNumber>>

OutOfRange ==
    /\ phase = "next" /\ currentBlockNumber \notin Block
    /\ phase' = "done"
    /\ UNCHANGED <<view, switches, checkpoints, base, currentBlockNumber, headerList, ahead,
                   scan, reorg, failures>>

Steps ==
    \/ Start \/ FetchAhead \/ NextWithout \/ NextLinked \/ NextScans \/ ScanChanged
    \/ ScanClean \/ ScanFound \/ ScanExhausted \/ OutOfRange

Next == Switch \/ RunFails \/ Steps

\* The driver always goes on; the node need not switch and runs need not fail.
Spec == Init /\ [][Next]_vars /\ WF_vars(Steps)

-----------------------------------------------------------------------------
Linked(c, d) == c.hash = SubSeq(d.hash, 1, c.num + 1)

\* Every accepted block descends from the accepted blocks before it: no data of
\* an orphaned block stays below data of the chain that replaced it.  (The
\* comment of checkReorg: it "verifies that cur still extends the chain recorded
\* in headerList".)
AcceptedExtends ==
    \A i, j \in DOMAIN checkpoints : i < j => Linked(checkpoints[i], checkpoints[j])

\* A reorganisation that is reported leaves no recorded block that is not on the
\* chain, unless even the block the run started from has changed.
RollbackIsEnough ==
    [][ScanFound => \A i \in DOMAIN checkpoints' : Linked(checkpoints'[i], Header(view, MaxBlock))]_vars

\* Every reorganisation is survived: the driver always gets to the last block.
GetsToTheEnd == <>(phase = "done")
=============================================================================
