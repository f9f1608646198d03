----------------------------- MODULE LogBuffer -----------------------------
(***************************************************************************)
(* The log of the system: the ring of src/src/common/log/logbuffer.c, the  *)
(* two ways into it of log.c, and the display that prints its last lines   *)
(* (src/src/app/display_log.c).  log_printf has a mutex, log_put has not,  *)
(* and the semaphore of the ring is awaited for 0 ticks with the result    *)
(* ignored: it excludes nobody.  A message is its number; its text and its *)
(* priority and tick are written one after the other.                      *)
(***************************************************************************)
EXTENDS Naturals, Sequences

CONSTANTS
    Printers,     \* the tasks in log_printf
    Putters,      \* the tasks and interrupts in log_put
    LogSize,      \* LOG_BUF_SIZE
    LogLines,     \* the lines that the display has for the log
    MaxPuts       \* bound: the messages put, none after two writers have overlapped

LogWriters == Printers \cup Putters
Slots == 0..LogSize - 1

ASSUME LogAssumption ==
    /\ Printers \cap Putters = {}
    /\ LogSize \in Nat /\ LogLines \in Nat \ {0} /\ MaxPuts \in Nat
    /\ LogLines + 1 < LogSize     \* the log is longer than a screen

VARIABLES
    bufSem,       \* buf_sem
    logWptr, logCount,
    logBuf,       \* logbuf: text and meta (priority, tick) of each entry
    writer,       \* by writer: what it does next, its message, the value it has loaded
    display,      \* what the display does next, the count and the entries it prints
    oldWptr,      \* old_log_wptr
    shown,        \* the log as the screen has it
    puts,         \* history: the messages put
    overlap,      \* history: two writers were in log_put_long at once
    missed        \* history: the display misread the ring: a full turn for none, or a
                  \* count and a pointer with messages put in between

logVars == <<bufSem, logWptr, logCount, logBuf, writer, display, oldWptr, shown, puts,
             overlap, missed>>
displayVars == <<display, oldWptr, shown, missed>>

-----------------------------------------------------------------------------
(* log_put_long; every load and store of the shared state is a step.       *)

Resting == [at |-> "idle", msg |-> 0, loaded |-> 0]
Idle(w) == writer[w].at = "idle"
MoveTo(w, from, to) == writer[w].at = from /\ writer' = [writer EXCEPT ![w].at = to]

\* Up to the osSemaphoreWait, which takes what there is and goes on without.
Put(w) ==
    /\ Idle(w) /\ puts < MaxPuts /\ ~overlap
    /\ w \in Printers => \A v \in Printers : Idle(v)
    /\ bufSem' = 0
    /\ puts' = puts + 1
    /\ writer' = [writer EXCEPT ![w].at = "text", ![w].msg = puts + 1]
    /\ overlap' = (overlap \/ \E v \in LogWriters : ~Idle(v))
    /\ UNCHANGED <<logWptr, logCount, logBuf, displayVars>>

WriteText(w) ==
    /\ MoveTo(w, "text", "meta")
    /\ logBuf' = [logBuf EXCEPT ![logWptr].text = writer[w].msg]
    /\ UNCHANGED <<bufSem, logWptr, logCount, puts, overlap, displayVars>>

\* Mutant: as if the pointer had been advanced before.
WriteMetaAtNext(w) ==
    /\ MoveTo(w, "meta", "load")
    /\ logBuf' = [logBuf EXCEPT ![(logWptr + 1) % LogSize].meta = writer[w].msg]
    /\ UNCHANGED <<bufSem, logWptr, logCount, puts, overlap, displayVars>>

WriteMeta(w) ==
    /\ MoveTo(w, "meta", "load")
    /\ logBuf' = [logBuf EXCEPT ![logWptr].meta = writer[w].msg]
    /\ UNCHANGED <<bufSem, logWptr, logCount, puts, overlap, displayVars>>

LoadWptr(w) ==
    /\ writer[w].at = "load"
    /\ writer' = [writer EXCEPT ![w] = [at |-> "store", msg |-> 0, loaded |-> logWptr]]
    /\ UNCHANGED <<bufSem, logWptr, logCount, logBuf, puts, overlap, displayVars>>

StoreWptr(w) ==
    /\ writer[w].at = "store"
    /\ writer' = [writer EXCEPT ![w] = [Resting EXCEPT !.at = "release"]]
    /\ logWptr' = (writer[w].loaded + 1) % LogSize
    /\ UNCHANGED <<bufSem, logCount, logBuf, puts, overlap, displayVars>>

Release(w) ==
    /\ MoveTo(w, "release", "loadCount")
    /\ bufSem' = 1
    /\ UNCHANGED <<logWptr, logCount, logBuf, puts, overlap, displayVars>>

\* log_count++ comes after the unlock
LoadCount(w) ==
    /\ writer[w].at = "loadCount"
    /\ writer' = [writer EXCEPT ![w].at = "storeCount", ![w].loaded = logCount]
    /\ UNCHANGED <<bufSem, logWptr, logCount, logBuf, puts, overlap, displayVars>>

StoreCount(w) ==
    /\ writer[w].at = "storeCount"
    /\ writer' = [writer EXCEPT ![w] = Resting]
    /\ logCount' = writer[w].loaded + 1
    /\ UNCHANGED <<bufSem, logWptr, logBuf, puts, overlap, displayVars>>

Write(w) == \/ WriteText(w) \/ WriteMeta(w) \/ LoadWptr(w) \/ StoreWptr(w) \/ Release(w)
            \/ LoadCount(w) \/ StoreCount(w)

-----------------------------------------------------------------------------
(* print_log_lines                                                         *)

Smaller(a, b) == IF a < b THEN a ELSE b
Span(from, to) == [i \in 1..(to + 1 - from) |-> from + i - 1]      \* from..to in order

\* The entries it prints, with the count and the pointer as it has read them.
Entries(count, wptr) ==
    LET lines == Smaller(LogLines, count)
        start == IF count > lines THEN (wptr + LogSize - lines) % LogSize ELSE 0
        upTo(i) == IF i = 0 THEN <<>> ELSE Span(0, i - 1)
    IN IF start <= wptr /\ lines # LogSize
       THEN IF start = wptr THEN <<>> ELSE Span(start, wptr - 1)
       ELSE Span(start, LogSize - 1) \o upTo(wptr)

ReadCount ==
    /\ display.at = "idle"
    /\ display' = [display EXCEPT !.at = "wptr", !.count = logCount]
    /\ UNCHANGED <<bufSem, logWptr, logCount, logBuf, writer, puts, overlap, oldWptr, shown,
                   missed>>

\* The messages that the pointer has passed.
Passed == puts - (IF \E w \in LogWriters : writer[w].at \in {"text", "meta", "load", "store"}
                  THEN 1 ELSE 0)

ReadWptr(repaint) ==
    /\ display.at = "wptr"
    /\ IF repaint \/ oldWptr # logWptr
       THEN /\ display' = [at |-> "print", count |-> 0, lines |-> <<>>,
                           todo |-> Entries(display.count, logWptr), seen |-> Passed]
            /\ oldWptr' = logWptr
            /\ missed' = (display.count + 1 < Passed)
       ELSE /\ display' = [display EXCEPT !.at = "idle", !.count = 0]
            /\ missed' = (missed \/ Passed # display.seen)
            /\ UNCHANGED oldWptr
    /\ UNCHANGED <<bufSem, logWptr, logCount, logBuf, writer, puts, overlap, shown>>

\* log_get: priority and tick first, then the text, under the same semaphore
GetMeta ==
    /\ display.at = "print" /\ display.todo # <<>>
    /\ bufSem' = 0
    /\ display' = [display EXCEPT !.at = "text",
                       !.lines = Append(@, [text |-> 0, meta |-> logBuf[Head(display.todo)].meta])]
    /\ UNCHANGED <<logWptr, logCount, logBuf, writer, puts, overlap, oldWptr, shown, missed>>

GetText ==
    /\ display.at = "text"
    /\ bufSem' = 1
    /\ display' = [display EXCEPT !.at = "print", !.todo = Tail(@),
                       !.lines[Len(display.lines)].text = logBuf[Head(display.todo)].text]
    /\ UNCHANGED <<logWptr, logCount, logBuf, writer, puts, overlap, oldWptr, shown, missed>>

Printed ==
    /\ display.at = "print" /\ display.todo = <<>>
    /\ display' = [display EXCEPT !.at = "idle", !.count = 0, !.lines = <<>>]
    /\ shown' = display.lines
    /\ UNCHANGED <<bufSem, logWptr, logCount, logBuf, writer, puts, overlap, oldWptr, missed>>

Display == \/ ReadCount \/ (\E repaint \in BOOLEAN : ReadWptr(repaint))
           \/ GetMeta \/ GetText \/ Printed

-----------------------------------------------------------------------------

LogInit ==
    /\ bufSem = 1
    /\ logWptr = 0 /\ logCount = 0
    /\ logBuf = [i \in Slots |-> [text |-> 0, meta |-> 0]]
    /\ writer = [w \in LogWriters |-> Resting]
    /\ display = [at |-> "idle", count |-> 0, lines |-> <<>>, todo |-> <<>>, seen |-> 0]
    /\ oldWptr = 0
    /\ shown = <<>>
    /\ puts = 0
    /\ overlap = FALSE /\ missed = FALSE

LogNext == (\E w \in LogWriters : Put(w) \/ Write(w)) \/ Display

LogSpec == LogInit /\ [][LogNext]_logVars

\* The display task refreshes its screen in a loop, a writer is not suspended for ever.
LogFairSpec ==
    LogSpec /\ WF_logVars(Display) /\ \A w \in LogWriters : WF_logVars(Write(w))

-----------------------------------------------------------------------------
(* Properties                                                              *)

Message == 0..MaxPuts
Entry == [text : Message, meta : Message]

\* Every variable stays in its type; the pointer stays in the ring.
LogTypeOK ==
    /\ bufSem \in {0, 1}
    /\ logWptr \in Slots /\ logCount \in Message
    /\ logBuf \in [Slots -> Entry]
    /\ writer \in [LogWriters ->
           [at : {"idle", "text", "meta", "load", "store", "release", "loadCount", "storeCount"},
            msg : Message, loaded : Nat]]
    /\ display.at \in {"idle", "wptr", "print", "text"}
    /\ display.count \in Message /\ display.seen \in Message
    /\ display.lines \in Seq(Entry) /\ display.todo \in Seq(Slots)
    /\ oldWptr \in Slots
    /\ shown \in Seq(Entry)
    /\ puts \in Message
    /\ overlap \in BOOLEAN /\ missed \in BOOLEAN

\* The ring holds the last messages, whole and in their order, and counts them all.
HoldsLatest ==
    /\ logCount = puts /\ logWptr = puts % LogSize
    /\ \A n \in 1..puts : n + LogSize > puts
           => logBuf[(n - 1) % LogSize] = [text |-> n, meta |-> n]

\* Between the calls the ring holds the last messages, as long as no two writers
\* were in log_put_long at once.
LogHoldsLatest == ~overlap /\ (\A w \in LogWriters : Idle(w)) => HoldsLatest

\* The semaphore is meant as a lock ("lock", "unlock" in log_put_long): between the
\* calls no entry of the ring is a mixture of two messages.
NoTornEntry ==
    (\A w \in LogWriters : Idle(w)) => \A i \in Slots : logBuf[i].text = logBuf[i].meta

\* The lines that a refresh prints: more than the screen has, when it has read the count
\* of a short log, and the pointer only after messages have come.
Printing == Len(display.lines) + Len(display.todo)

\* A line that is printed is one message, as long as the writers do not come round
\* the ring to the first of the lines while the display prints.
LinesWhole ==
    ~overlap /\ puts + Printing <= display.seen + LogSize
        => \A i \in DOMAIN display.lines :
              (display.at = "text" => i < Len(display.lines))
                  => display.lines[i].text = display.lines[i].meta

\* In the end the screen shows the last messages in their order, unless its last
\* refresh has missed some: exactly a turn of the ring looks like no message, and
\* the count is read before the pointer.
Latest == LET n == Smaller(LogLines, puts)
          IN [i \in 1..n |-> [text |-> puts - n + i, meta |-> puts - n + i]]
EndsWith(s, t) == Len(t) <= Len(s) /\ SubSeq(s, Len(s) + 1 - Len(t), Len(s)) = t
ShowsLatest == <>[](overlap \/ missed \/ EndsWith(shown, Latest))
=============================================================================
