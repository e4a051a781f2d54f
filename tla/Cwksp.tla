------------------------------- MODULE Cwksp -------------------------------
(***************************************************************************)
(* The workspace of the embedded zstd: one allocation from which a context *)
(* takes everything it needs.                                              *)
(*                                                                         *)
(*  [objects][tables ->]   free   [<- buffers][<- aligned][<- init once]   *)
(*                                                                         *)
(* A workspace is the record of the code.  Its operations are operators    *)
(* from record to record; an operation that returns memory returns         *)
(* [ws, ptr], with NULL for failure.  Addresses and sizes are counted in   *)
(* units of a pointer, so that objects need no rounding.                   *)
(***************************************************************************)
EXTENDS ZstdCommon, FiniteSets

CONSTANTS
    Alignment,       \* ZSTD_CWKSP_ALIGNMENT_BYTES
    TooLargeFactor,  \* ZSTD_WORKSPACETOOLARGE_FACTOR
    MaxDuration      \* ZSTD_WORKSPACETOOLARGE_MAXDURATION

ASSUME AlignmentAssumption == Alignment \in Nat \ {0}
ASSUME TooLargeAssumption  == TooLargeFactor \in Nat \ {0} /\ MaxDuration \in Nat

\* ZSTD_cwksp_alloc_phase_e
Objects  == 0
InitOnce == 1
Aligned  == 2
Buffers  == 3
Phases   == Objects .. Buffers

NULL == 0

Workspace ==
    [workspace : Nat, workspaceEnd : Nat, objectEnd : Nat, tableEnd : Nat,
     tableValidEnd : Nat, allocStart : Nat, initOnceStart : Nat,
     allocFailed : BOOLEAN, oversizedDuration : Nat, phase : Phases]

AlignUp(a)   == a + ((-a) % Alignment)
AlignDown(a) == a - (a % Alignment)

InitialAllocStart(w) == AlignDown(w.workspaceEnd)
SizeOf(w)            == w.workspaceEnd - w.workspace
Used(w)              == (w.tableEnd - w.workspace) + (w.workspaceEnd - w.allocStart)
AvailableSpace(w)    == w.allocStart - w.tableEnd

SlackSpaceRequired    == 2 * Alignment
AlignedAllocSize(size) == AlignUp(size)
EstimateWithinBounds(w, estimate) ==
    estimate - SlackSpaceRequired <= Used(w) /\ Used(w) <= estimate

CheckAvailable(w, size) == AvailableSpace(w) >= size
CheckTooLarge(w, size)  == CheckAvailable(w, size * TooLargeFactor)
CheckWasteful(w, size)  == CheckTooLarge(w, size) /\ w.oversizedDuration > MaxDuration

(***************************************************************************)
(* Operations.                                                             *)
(***************************************************************************)
Clear(w) == [w EXCEPT !.tableEnd    = w.objectEnd,
                      !.allocStart  = InitialAllocStart(w),
                      !.allocFailed = FALSE,
                      !.phase       = MIN(w.phase, InitOnce)]

InitWorkspace(start, size) ==
    Clear([workspace |-> start, workspaceEnd |-> start + size,
           objectEnd |-> start, tableEnd |-> start, tableValidEnd |-> start,
           allocStart |-> start, initOnceStart |-> AlignDown(start + size),
           allocFailed |-> FALSE, oversizedDuration |-> 0, phase |-> Objects])

\* What ZSTD_cwksp_free leaves: a record of zeros.
NoWorkspace ==
    [workspace |-> NULL, workspaceEnd |-> NULL, objectEnd |-> NULL,
     tableEnd |-> NULL, tableValidEnd |-> NULL, allocStart |-> NULL,
     initOnceStart |-> NULL, allocFailed |-> FALSE, oversizedDuration |-> 0,
     phase |-> Objects]

\* From the phase of objects on, the tables start aligned.  When there is no
\* room for that the phase does not change, but two fields have.
CanAdvance(w, phase) ==
    \/ w.phase >= InitOnce
    \/ phase < InitOnce
    \/ AlignUp(w.objectEnd) <= w.workspaceEnd

AdvancePhase(w, phase) ==
    LET left   == w.phase < InitOnce /\ phase >= InitOnce
        begun  == [w EXCEPT !.tableValidEnd = w.objectEnd,
                            !.initOnceStart = InitialAllocStart(w)]
        start  == AlignUp(w.objectEnd)
    IN  IF phase <= w.phase THEN w
        ELSE IF ~left THEN [w EXCEPT !.phase = phase]
        ELSE IF ~CanAdvance(w, phase) THEN begun
        ELSE [begun EXCEPT !.objectEnd = start, !.tableEnd = start,
                           !.tableValidEnd = start, !.phase = phase]

\* A reservation from the end of the workspace.  Where it reaches into what is
\* left of earlier tables, nothing is known of the values there any more.
ReserveFromEnd(w, bytes) ==
    LET alloc == w.allocStart - bytes IN
    IF alloc < w.tableEnd
    THEN [ws |-> [w EXCEPT !.allocFailed = TRUE], ptr |-> NULL]
    ELSE [ws |-> [w EXCEPT !.allocStart = alloc,
                           !.tableValidEnd = MIN(w.tableValidEnd, alloc)],
          ptr |-> alloc]

ReserveInternal(w, bytes, phase) ==
    LET next == AdvancePhase(w, phase) IN
    IF ~CanAdvance(w, phase) \/ bytes = 0
    THEN [ws |-> next, ptr |-> NULL]
    ELSE ReserveFromEnd(next, bytes)

ReserveBuffer(w, bytes)    == ReserveInternal(w, bytes, Buffers)
ReserveAligned64(w, bytes) == ReserveInternal(w, AlignUp(bytes), Aligned)

\* Broken on purpose: the size that is set to zero is not rounded up.
ZeroedEndShort(w, bytes, ptr) == MIN(w.initOnceStart, ptr + bytes)

\* The part of an init-once reservation at ptr that is set to zero is
\* ptr .. ZeroedEnd - 1.
ZeroedEnd(w, bytes, ptr) == MIN(w.initOnceStart, ptr + AlignUp(bytes))

ReserveAlignedInitOnce(w, bytes) ==
    LET got == ReserveInternal(w, AlignUp(bytes), InitOnce) IN
    IF got.ptr # NULL /\ got.ptr < got.ws.initOnceStart
    THEN [got EXCEPT !.ws.initOnceStart = got.ptr]
    ELSE got

\* Broken on purpose: the end of the workspace is taken for the limit.
ReserveTablePastBuffers(w, bytes) ==
    LET next == AdvancePhase(w, InitOnce)
        end  == next.tableEnd + bytes
    IN  IF ~CanAdvance(w, InitOnce) THEN [ws |-> next, ptr |-> NULL]
        ELSE IF end > next.workspaceEnd
        THEN [ws |-> [next EXCEPT !.allocFailed = TRUE], ptr |-> NULL]
        ELSE [ws |-> [next EXCEPT !.tableEnd = end], ptr |-> next.tableEnd]

ReserveTable(w, bytes) ==
    LET next == AdvancePhase(w, InitOnce)
        end  == next.tableEnd + bytes
    IN  IF ~CanAdvance(w, InitOnce) THEN [ws |-> next, ptr |-> NULL]
        ELSE IF end > next.allocStart
        THEN [ws |-> [next EXCEPT !.allocFailed = TRUE], ptr |-> NULL]
        ELSE [ws |-> [next EXCEPT !.tableEnd = end], ptr |-> next.tableEnd]

ReserveObject(w, bytes) ==
    LET end == w.objectEnd + bytes IN
    IF w.phase # Objects \/ end > w.workspaceEnd
    THEN [ws |-> [w EXCEPT !.allocFailed = TRUE], ptr |-> NULL]
    ELSE [ws |-> [w EXCEPT !.objectEnd = end, !.tableEnd = end, !.tableValidEnd = end],
          ptr |-> w.objectEnd]

MarkTablesDirty(w) == [w EXCEPT !.tableValidEnd = w.objectEnd]
MarkTablesClean(w) == [w EXCEPT !.tableValidEnd = MAX(w.tableValidEnd, w.tableEnd)]
\* The cells that ZSTD_cwksp_clean_tables zeroes before it marks.
ToClean(w)         == w.tableValidEnd .. w.tableEnd - 1
CleanTables(w)     == MarkTablesClean(w)
ClearTables(w)     == [w EXCEPT !.tableEnd = w.objectEnd]

\* The counter is capped: above MaxDuration nothing depends on it any more.
BumpOversizedDuration(w, size) ==
    [w EXCEPT !.oversizedDuration = IF CheckTooLarge(w, size) THEN MIN(@ + 1, MaxDuration + 1) ELSE 0]

Cells(lo, hi) == lo .. hi - 1
=============================================================================
