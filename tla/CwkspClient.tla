----------------------------- MODULE CwkspClient -----------------------------
(***************************************************************************)
(* A client that calls the operations of the workspace in any order their  *)
(* asserts allow.  The asserts are compiled out of the module; those on    *)
(* the caller's side (phases in order, tables in multiples of the          *)
(* alignment) are the guards of the actions.  Ghost variables follow the   *)
(* memory that is lent out and what is known about its contents.           *)
(***************************************************************************)
EXTENDS Cwksp

CONSTANTS
    Base,            \* the address of the workspace
    Capacity,        \* the sizes a workspace may have
    Sizes            \* the sizes a client may ask for

ASSUME BaseAssumption      == Base \in Nat \ {0}
ASSUME CapacityAssumption  == Capacity \subseteq Nat
ASSUME SizesAssumption     == Sizes \subseteq Nat \ {0}

VARIABLES
    ws,         \* the workspace
    live,       \* ghost: the memory that is lent out, [kind, lo, hi) with lo < hi
    known,      \* ghost: the addresses whose value is below the starting index
    touched     \* ghost: the addresses that have been written at least once

cwkspVars == <<ws, live, known, touched>>

CwkspInit ==
    /\ ws = NoWorkspace
    /\ live = {}
    /\ known = {}
    /\ touched = {}

\* ZSTD_cwksp_create with a successful allocation of uninitialised memory.
Create(size) ==
    /\ ws = NoWorkspace
    /\ ws' = InitWorkspace(Base, size)
    /\ UNCHANGED <<live, known, touched>>

\* ZSTD_cwksp_free; the client holds nothing afterwards.
Free ==
    /\ ws # NoWorkspace
    /\ ws' = NoWorkspace
    /\ live' = {}
    /\ known' = {}
    /\ touched' = {}

\* Whoever gets memory that is not a table writes anything into it.
Lend(got, kind, bytes) ==
    /\ ws' = got.ws
    /\ IF got.ptr = NULL
       THEN UNCHANGED <<live, known, touched>>
       ELSE LET mine == Cells(got.ptr, got.ptr + bytes) IN
            /\ live' = live \cup {[kind |-> kind, lo |-> got.ptr, hi |-> got.ptr + bytes]}
            /\ known' = known \ mine
            /\ touched' = touched \cup mine

TakeObject(bytes) ==
    /\ ws # NoWorkspace
    /\ ws.phase = Objects
    /\ Lend(ReserveObject(ws, bytes), "object", bytes)

TakeBuffer(bytes) ==
    /\ ws # NoWorkspace
    /\ Lend(ReserveBuffer(ws, bytes), "buffer", bytes)

TakeAligned(bytes) ==
    /\ ws # NoWorkspace
    /\ ws.phase <= Aligned
    /\ Lend(ReserveAligned64(ws, bytes), "aligned", AlignUp(bytes))

\* An init-once area may be read before it is written.
TakeInitOnce(bytes) ==
    /\ ws # NoWorkspace
    /\ ws.phase <= InitOnce
    /\ LET got    == ReserveAlignedInitOnce(ws, bytes)
           before == AdvancePhase(ws, InitOnce)
           zeroed == IF got.ptr # NULL /\ got.ptr < before.initOnceStart
                     THEN Cells(got.ptr, ZeroedEnd(before, bytes, got.ptr)) ELSE {}
       IN  /\ ws' = got.ws
           /\ IF got.ptr = NULL
              THEN UNCHANGED <<live, known, touched>>
              ELSE /\ live' = live \cup {[kind |-> "initonce", lo |-> got.ptr,
                                          hi |-> got.ptr + AlignUp(bytes)]}
                   /\ known' = known \ Cells(got.ptr, got.ptr + AlignUp(bytes))
                   /\ touched' = touched \cup zeroed

TakeTable(bytes) ==
    /\ ws # NoWorkspace
    /\ bytes % Alignment = 0
    /\ LET got == ReserveTable(ws, bytes) IN
       /\ ws' = got.ws
       /\ IF got.ptr = NULL THEN UNCHANGED live
          ELSE live' = live \cup {[kind |-> "table", lo |-> got.ptr, hi |-> got.ptr + bytes]}
    /\ UNCHANGED <<known, touched>>

Tables == {r \in live : r.kind = "table"}

\* ZSTD_cwksp_clean_tables.
Clean ==
    /\ ws.phase >= InitOnce
    /\ ws' = CleanTables(ws)
    /\ known' = known \cup ToClean(ws)
    /\ touched' = touched \cup ToClean(ws)
    /\ UNCHANGED live

\* The tables are overwritten with those of a dictionary.
CopyTables ==
    /\ ws.phase >= InitOnce
    /\ LET all == Cells(ws.objectEnd, ws.tableEnd) IN
       /\ known' = known \cup all
       /\ touched' = touched \cup all
    /\ ws' = MarkTablesClean(MarkTablesDirty(ws))
    /\ UNCHANGED live

\* The indices start again from zero: no value is known to be below them.
ResetIndices ==
    /\ ws.phase >= InitOnce
    /\ ws' = MarkTablesDirty(ws)
    /\ known' = {}
    /\ UNCHANGED <<live, touched>>

\* ZSTD_overflowCorrectIfNeeded shifts the values of all tables, which have been
\* made clean before.  What is left of larger tables above them is not shifted.
ReduceTables ==
    /\ ws.phase >= InitOnce
    /\ Cells(ws.objectEnd, ws.tableEnd) \subseteq known
    /\ ws' = MarkTablesClean(MarkTablesDirty(ws))
    /\ known' = known \cap Cells(ws.objectEnd, ws.tableEnd)
    /\ UNCHANGED <<live, touched>>

\* ZSTD_cwksp_clear_tables.
DropTables ==
    /\ ws.phase >= InitOnce
    /\ ws' = ClearTables(ws)
    /\ live' = live \ Tables
    /\ UNCHANGED <<known, touched>>

\* ZSTD_cwksp_clear: only the objects stay.
Restart ==
    /\ ws # NoWorkspace
    /\ ws' = Clear(ws)
    /\ live' = {r \in live : r.kind = "object"}
    /\ UNCHANGED <<known, touched>>

CwkspNext ==
    \/ \E size \in Capacity : Create(size)
    \/ \E bytes \in Sizes :
          \/ TakeObject(bytes)  \/ TakeBuffer(bytes) \/ TakeAligned(bytes)
          \/ TakeInitOnce(bytes) \/ TakeTable(bytes)
    \/ Clean \/ CopyTables \/ ReduceTables \/ ResetIndices \/ DropTables \/ Restart \/ Free

CwkspSpec == CwkspInit /\ [][CwkspNext]_cwkspVars

(***************************************************************************)
(* Properties.                                                             *)
(***************************************************************************)
\* No two areas that are lent out overlap, and all of them lie within the
\* workspace, whatever sizes are asked for in whatever legal order.
Disjoint ==
    /\ \A r \in live : ws.workspace <= r.lo /\ r.lo < r.hi /\ r.hi <= ws.workspaceEnd
    /\ \A r, s \in live : r # s => r.hi <= s.lo \/ s.hi <= r.lo

\* What the workspace says of its contents is true: every cell below tableValidEnd
\* holds a value below the starting index, although buffers, tables of other sizes
\* and other contexts' tables have lain there; and all memory that was lent out as
\* "init once" has been written before.
ContentsKnown ==
    /\ Cells(ws.objectEnd, ws.tableValidEnd) \subseteq known
    /\ \A r \in live : r.kind = "initonce" => Cells(r.lo, r.hi) \subseteq touched
=============================================================================
