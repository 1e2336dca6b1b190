------------------------------ MODULE Monitor -------------------------------
(***************************************************************************)
(* The monitor's event collection: monitor/index.js, one pass started by   *)
(* cron, against an RPC that keeps a window of ledgers.  A pass is broken  *)
(* into the steps between which its process can be killed, a ledger can    *)
(* close or the window can move; what survives is the log, the state file  *)
(* and the snapshot file.                                                  *)
(*                                                                         *)
(* Events are numbered in the order in which the chain has them, so an     *)
(* event's number stands for its id; chain[e] is the ledger it is in.  The *)
(* pages the RPC serves are modelled from the comments and the code that   *)
(* reads them: a scan of a bounded window, cut off at a number of events,  *)
(* with a cursor in either case.                                           *)
(***************************************************************************)
EXTENDS Integers, SequencesExt

CONSTANTS
    EXIT_START_LEDGER,      \* 0: not set
    maxPagesPerPass, pageLimit,
    ScanWindow,             \* how many ledgers the RPC scans for one page
    EventsPerLedger,        \* bound on the events in one ledger
    MaxLedger,              \* bound on the chain
    MaxResets,              \* bound on the runs with --reset
    MaxTears,               \* bound on the appends that are cut short
    CursorHiccups,          \* can the RPC refuse a cursor that is in its window?
    NoState, NoCursor, NoSnapshot

ASSUME MonitorAssumption ==
    /\ EXIT_START_LEDGER \in Nat /\ maxPagesPerPass \in Nat \ {0} /\ pageLimit \in Nat \ {0}
    /\ ScanWindow \in Nat \ {0, 1}
    /\ EventsPerLedger \in Nat /\ MaxLedger \in Nat
    /\ MaxResets \in Nat /\ MaxTears \in Nat /\ CursorHiccups \in BOOLEAN
    /\ NoCursor \notin [ledger : Nat, after : Nat]

VARIABLES
    chain, tip, floor,              \* the RPC: events, latest and oldest ledger
    log, tailOpen,                  \* events.jsonl: its lines; is the last one unterminated?
    stateFile, snapFile,            \* state.json, snapshot.json
    pc, st, oldest, seen, pages,    \* a pass in progress
    batch, atTip,                   \* the page it is working on
    resets, tears           \* how often each has happened

rpcVars == <<chain, tip, floor>>
logVars == <<log, tailOpen>>
counters == <<resets, tears>>
passVars == <<pc, st, oldest, seen, pages, batch, atTip>>
monitorVars == <<rpcVars, logVars, stateFile, snapFile, passVars, counters>>

Unreadable == 0
Events == DOMAIN chain
Later(a, b) == IF a > b THEN a ELSE b

\* readLog: lines that do not parse are skipped.
readLog == Range(log) \ {Unreadable}

-----------------------------------------------------------------------------
(* The RPC.                                                                *)

Accepts(request) ==
    IF request.cursor # NoCursor THEN request.cursor.ledger >= floor
    ELSE request.startLedger \in floor .. tip

\* The events a request is about, as far as one page scans.
ScanEnd(request) ==
    LET from == IF request.cursor # NoCursor THEN request.cursor.ledger ELSE request.startLedger
    IN  IF from + ScanWindow - 1 < tip THEN from + ScanWindow - 1 ELSE tip

Matches(request) ==
    {e \in Events : /\ chain[e] <= ScanEnd(request)
                    /\ IF request.cursor # NoCursor THEN e > request.cursor.after
                       ELSE chain[e] >= request.startLedger}

\* The first pageLimit of the events found.
FirstPage(found) == {e \in found : Cardinality({f \in found : f <= e}) <= pageLimit}

getEvents(request) ==
    LET found == Matches(request)
        events == FirstPage(found)
    IN  [events |-> events,
         cursor |-> IF Cardinality(found) >= pageLimit
                    THEN [ledger |-> chain[Max(events)], after |-> Max(events)]
                    ELSE [ledger |-> ScanEnd(request),
                          after |-> Cardinality({e \in Events : chain[e] <= ScanEnd(request)})]]

\* The listing of a set of events in the order of the chain, in which pages come.
InOrder(S) ==
    {q \in [1 .. Cardinality(S) -> S] :
        Range(q) = S /\ \A i, j \in DOMAIN q : i < j => q[i] < q[j]}

-----------------------------------------------------------------------------
(* A pass.                                                                 *)

Idle == /\ pc' = "idle" /\ st' = NoState /\ oldest' = 0 /\ seen' = {} /\ pages' = 0
        /\ batch' = <<>> /\ atTip' = FALSE

ColdStart ==
    LET from == IF EXIT_START_LEDGER = 0 THEN floor ELSE EXIT_START_LEDGER
    IN  [oldestRetainedAtStart |-> floor, complete |-> from <= floor,
         cursor |-> NoCursor, lastLedger |-> from - 1]

\* Mutant: a gap at the start of a pass is not owned up to.
ResumeQuietly(s) ==
    IF s = NoState THEN ColdStart
    ELSE IF s.cursor = NoCursor /\ s.lastLedger < floor
         THEN [s EXCEPT !.lastLedger = floor - 1]
         ELSE s

Resume(s) ==
    IF s = NoState THEN ColdStart
    ELSE IF s.cursor = NoCursor /\ s.lastLedger < floor
         THEN [s EXCEPT !.complete = FALSE, !.lastLedger = floor - 1]
         ELSE s

BeginPass ==
    /\ pc = "idle"
    /\ pc' = "loop"
    /\ oldest' = floor
    /\ st' = Resume(stateFile)
    /\ seen' = readLog
    /\ UNCHANGED <<rpcVars, logVars, stateFile, snapFile, pages, batch, atTip, counters>>

Request == [cursor |-> st.cursor, startLedger |-> Later(st.lastLedger + 1, oldest)]

\* Mutant: pages are appended as they come.
AllOf(events) == events

Unseen(events) == events \ seen

FetchPage ==
    /\ pc = "loop" /\ pages < maxPagesPerPass
    /\ Accepts(Request)
    /\ LET res == getEvents(Request)
           new == Unseen(res.events)
       IN  /\ batch' \in InOrder(new)
           /\ seen' = seen \cup new
           /\ st' = [st EXCEPT
                !.lastLedger = IF new = {} THEN @ ELSE Later(@, chain[Max(new)]),
                !.cursor = res.cursor]
           /\ atTip' = (res.cursor.ledger >= tip - 1)
           /\ pc' = IF new = {} THEN "save" ELSE "append"
    /\ pages' = pages + 1
    /\ UNCHANGED <<rpcVars, logVars, stateFile, snapFile, oldest, counters>>

\* Mutant: a cursor that is dropped never costs anything.
ForgetCursor(s) ==
    IF s.lastLedger < oldest - 1
    THEN [s EXCEPT !.cursor = NoCursor, !.lastLedger = oldest - 1]
    ELSE [s EXCEPT !.cursor = NoCursor]

DropCursor(s) ==
    IF s.lastLedger < oldest - 1
    THEN [s EXCEPT !.cursor = NoCursor, !.complete = FALSE, !.lastLedger = oldest - 1]
    ELSE [s EXCEPT !.cursor = NoCursor]

\* A request outside the window is refused, and so may be any cursor.
RefusedPage ==
    /\ pc = "loop" /\ pages < maxPagesPerPass
    /\ ~Accepts(Request) \/ (CursorHiccups /\ st.cursor # NoCursor)
    /\ st' = DropCursor(st)
    /\ stateFile' = st'
    /\ pages' = pages + 1
    /\ UNCHANGED <<rpcVars, logVars, snapFile, pc, oldest, seen, batch, atTip, counters>>

\* Text is appended to whatever the file ends with: an unterminated last line and the
\* first new one become a single line, which no longer parses.
Appended(lines) ==
    IF tailOpen /\ lines # <<>> THEN Front(log) \o <<Unreadable>> \o Tail(lines)
    ELSE log \o lines

AppendBatch ==
    /\ pc = "append"
    /\ log' = Appended(batch)
    /\ tailOpen' = FALSE
    /\ pc' = "save"
    /\ UNCHANGED <<rpcVars, stateFile, snapFile, st, oldest, seen, pages, batch, atTip, counters>>

\* The process is killed, or the disk is full, in the middle of the append: some lines
\* are whole, the next one is cut short somewhere, if only before its newline.
TearBatch ==
    /\ pc = "append" /\ tears < MaxTears
    /\ tears' = tears + 1
    /\ \E whole \in 0 .. (Len(batch) - 1) :
         \E cut \in {Unreadable, batch[whole + 1]} :
            log' = Appended(SubSeq(batch, 1, whole) \o <<cut>>)
    /\ tailOpen' = TRUE
    /\ Idle
    /\ UNCHANGED <<rpcVars, stateFile, snapFile, resets>>

\* Mutant: the state is saved once, when the pass is over.
SaveAtTheEnd == UNCHANGED stateFile

saveState == stateFile' = st

\* Mutant: within a ledger of the tip counts as at the tip.
ScannedAll(s) == tip

scanned(s) == s.cursor.ledger

\* The state is saved per page; the loop ends within a ledger of the tip.
SavePage ==
    /\ pc = "save"
    /\ saveState
    /\ pc' = IF atTip THEN "end" ELSE "loop"
    /\ st' = IF atTip THEN [st EXCEPT !.lastLedger = Later(@, scanned(st))] ELSE st
    /\ batch' = <<>>
    /\ UNCHANGED <<rpcVars, logVars, snapFile, oldest, seen, pages, atTip, counters>>

EndPass ==
    /\ pc = "end" \/ (pc = "loop" /\ pages = maxPagesPerPass)
    /\ stateFile' = st
    /\ pc' = "snapshot"
    /\ UNCHANGED <<rpcVars, logVars, snapFile, st, oldest, seen, pages, batch, atTip, counters>>

WriteSnapshot ==
    /\ pc = "snapshot"
    /\ snapFile' = [events |-> readLog, from |-> st.oldestRetainedAtStart,
                    lastLedger |-> st.lastLedger, complete |-> st.complete]
    /\ Idle
    /\ UNCHANGED <<rpcVars, logVars, stateFile, counters>>

\* The next cron tick kills the pass, the RPC does not answer, or the process dies.
Die ==
    /\ pc # "idle"
    /\ Idle
    /\ UNCHANGED <<rpcVars, logVars, stateFile, snapFile, counters>>

\* node index.js --reset, up to the pass it then starts.
Reset ==
    /\ pc = "idle" /\ resets < MaxResets
    /\ resets' = resets + 1
    /\ stateFile' = NoState /\ snapFile' = NoSnapshot
    /\ UNCHANGED <<rpcVars, logVars, passVars, tears>>

-----------------------------------------------------------------------------
(* The chain.                                                              *)

CloseLedger ==
    /\ tip < MaxLedger
    /\ tip' = tip + 1
    /\ \E k \in 0 .. EventsPerLedger : chain' = chain \o [i \in 1 .. k |-> tip + 1]
    /\ UNCHANGED <<floor, logVars, stateFile, snapFile, passVars, counters>>

\* The window moves: the oldest ledger is no longer served.
ForgetLedger ==
    /\ floor < tip
    /\ floor' = floor + 1
    /\ UNCHANGED <<chain, tip, logVars, stateFile, snapFile, passVars, counters>>

MonitorInit ==
    /\ chain = <<>> /\ tip = 1 /\ floor = 1
    /\ log = <<>> /\ tailOpen = FALSE
    /\ stateFile = NoState /\ snapFile = NoSnapshot
    /\ pc = "idle" /\ st = NoState /\ oldest = 0 /\ seen = {} /\ pages = 0
    /\ batch = <<>> /\ atTip = FALSE
    /\ resets = 0 /\ tears = 0

PassStep ==
    \/ BeginPass \/ FetchPage \/ RefusedPage \/ AppendBatch \/ SavePage
    \/ EndPass \/ WriteSnapshot

MonitorNext ==
    \/ PassStep \/ TearBatch \/ Die \/ Reset
    \/ CloseLedger \/ ForgetLedger

MonitorSpec == MonitorInit /\ [][MonitorNext]_monitorVars

\* Cron starts passes, and a pass now and then lives long enough for one page.  It need
\* not live to its end: every pass may be killed.
FairMonitorSpec ==
    /\ MonitorSpec
    /\ WF_monitorVars(PassStep)
    /\ SF_monitorVars(FetchPage \/ RefusedPage)
    /\ SF_monitorVars(FetchPage)
    /\ SF_monitorVars(AppendBatch)
    /\ SF_monitorVars(SavePage)

-----------------------------------------------------------------------------
(* Properties.                                                             *)

\* Has the position in the state file still to come past the event?
Ahead(s, e) ==
    IF s.cursor = NoCursor THEN chain[e] > s.lastLedger ELSE e > s.cursor.after

\* Coverage is declared, not assumed: as long as the state file says complete, every
\* event since the ledger the monitor started from can be read in the log or is still
\* ahead, through kills between any two steps, cursors that expire and a window that
\* moves under a pass.  An append that is cut short costs two events at most, the one
\* it tore and the one that the next append puts on the same line.
NothingSkipped ==
    (stateFile # NoState /\ stateFile.complete) =>
        Cardinality({e \in Events : /\ chain[e] >= stateFile.oldestRetainedAtStart
                                    /\ e \notin readLog /\ ~Ahead(stateFile, e)}) <= 2 * tears

\* No event is in the log twice, although pages are read again after a kill, after a
\* lost cursor and after --reset, and unless an append was torn the log is in the order
\* of the chain.
LogInOrder ==
    \A i, j \in DOMAIN log :
        i < j => \/ log[i] # log[j] /\ tears > 0
                 \/ log[i] = Unreadable
                 \/ log[i] < log[j]

\* A snapshot that says complete is a census up to its last ledger, unless an append
\* was torn.
SnapshotIsCensus ==
    (snapFile # NoSnapshot /\ snapFile.complete /\ tears = 0) =>
        \A e \in Events : (snapFile.from <= chain[e] /\ chain[e] <= snapFile.lastLedger)
                             => e \in snapFile.events

\* The RPC refuses a cursor that is in its window.
Hiccup == RefusedPage /\ Accepts(Request)

\* No treadmill: if cursors are not refused for ever, the log catches up with every
\* event that is still in the window, unless an append was torn, even if no pass ever
\* reaches its end, because the cursor is saved page by page.
EverythingLogged ==
    <>[][~Hiccup]_monitorVars =>
        []<>(tears > 0 \/ \A e \in Events : chain[e] >= floor => e \in readLog)

\* monitor/index.js:105, of a cursor that is refused: "Only a re-entry that has to skip
\* forward loses history.  Re-entering at a ledger we had already reached costs nothing".
\* What was still ahead of the cursor is ahead of the ledger the pass re-enters at,
\* unless the pass declares the gap.
ReentryCostsNothing ==
    [][(RefusedPage /\ oldest = floor /\ st'.complete) =>
          \A e \in Events : Ahead(st, e) => Ahead(st', e)]_monitorVars
=============================================================================
