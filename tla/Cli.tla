-------------------------------- MODULE Cli --------------------------------
(***************************************************************************)
(* The keys of the serial console: the receive interrupt of                *)
(* drivers/common/os_serial_tty.c with its queue of one character, and     *)
(* cliTask (src/src/app/cli.c), which follows escape sequences.  On the    *)
(* same line the terminal reports its size when the display asks for it.   *)
(* What the command line does to the display is an action of Screen; the   *)
(* display itself is reduced to what it reads and asks.                    *)
(***************************************************************************)
EXTENDS Screen, Naturals, Sequences

CONSTANTS
    NextPage,            \* next_display_mode, for each page
    Sizes, FirstSize,    \* the sizes of a terminal; the one before any is known
    Garbled,             \* a size of which digits were lost
    NoSize,              \* new_screen_width before the first report
    EscLimit,            \* sizeof escbuf - 1
    MaxStrokes,          \* bound: the keys that are pressed
    MaxLost              \* bound: the characters that are lost

Reported == Sizes \cup {Garbled}
Letters == {"esc", "[", "O", "P", "p", "C", " ", "R"}

ASSUME CliAssumption ==
    /\ NextPage \in [Pages -> Pages]
    /\ FirstSize \in Sizes /\ Garbled \notin Sizes /\ NoSize \notin Reported
    /\ Reported \cap Letters = {}          \* a size stands for its digits
    /\ EscLimit \in Nat /\ EscLimit > 3     \* longer than every sequence
    /\ MaxStrokes \in Nat /\ MaxLost \in Nat

VARIABLES
    line,        \* environment: what is left of the sequence on the line
    asked,       \* environment: the reports that the terminal owes
    termSize,    \* environment: the size of the terminal
    lost,        \* environment: the characters that were dropped or garbled
    strokes,     \* environment: the keys pressed
    ttyrx,       \* message_q_ttyrx
    esc, escbuf, \* in an escape sequence; its characters after ESC (escbuf, escpos)
    powerKey,    \* enable_power
    newSize,     \* new_screen_width and new_screen_height
    screenSize,  \* screen_width and screen_height
    sizeSet,     \* screen_size_set
    wanted       \* history: the page and the power as the keys have it, unknown after a
                 \* character was lost, or ESC pressed alone

lineVars == <<line, asked, termSize, lost, strokes, wanted>>
sizeVars == <<newSize, screenSize, sizeSet>>
drawVars == <<drawer, oldMode, screen>>
cliVars == <<lineVars, ttyrx, esc, escbuf, powerKey, sizeVars, displayMode, flags>>

-----------------------------------------------------------------------------
(* The terminal and the line                                               *)

Sent == [p |-> <<"p">>, F1 |-> <<"esc", "O", "P">>, right |-> <<"esc", "[", "C">>,
         ESC |-> <<"esc">>, space |-> <<" ">>]
Keys == DOMAIN Sent
Unknown == [mode |-> FirstPage]

Press(key) ==
    /\ line = <<>> /\ strokes < MaxStrokes
    /\ strokes' = strokes + 1
    /\ line' = Sent[key]
    /\ wanted' = IF key = "ESC" \/ wanted = Unknown THEN Unknown
                 ELSE CASE key = "right" -> [wanted EXCEPT !.mode = NextPage[@]]
                        [] key = "p"     -> [wanted EXCEPT !.power = ~@]
                        [] OTHER         -> wanted
    /\ UNCHANGED <<asked, termSize, lost, ttyrx, esc, escbuf, powerKey, sizeVars, screenVars>>

\* The answer to CSI 6n, some digits of which may be lost
Report ==
    /\ line = <<>> /\ asked > 0
    /\ asked' = asked - 1
    /\ \/ line' = <<"esc", "[", termSize, "R">> /\ UNCHANGED lost
       \/ line' = <<"esc", "[", Garbled, "R">> /\ lost < MaxLost /\ lost' = lost + 1
    /\ UNCHANGED <<termSize, strokes, wanted, ttyrx, esc, escbuf, powerKey, sizeVars, screenVars>>

\* USART_RXNE_Callback_FromISR: the queue has room for one character, and the next is
\* dropped, unless the command line is fast enough.
ReceiveChar ==
    /\ line # <<>>
    /\ line' = Tail(line)
    /\ IF ttyrx = <<>> THEN ttyrx' = <<Head(line)>> /\ UNCHANGED <<lost, wanted>>
       ELSE lost < MaxLost /\ lost' = lost + 1 /\ wanted' = Unknown /\ UNCHANGED ttyrx
    /\ UNCHANGED <<asked, termSize, strokes, esc, escbuf, powerKey, sizeVars, screenVars>>

\* The display reads the flags, and asks for the size twice (print_get_screen_size) when
\* it repaints or does not know it; what it has asked for before has come, or is as good.
DisplayAsks ==
    /\ flags' = {}
    /\ asked' = (IF flags \cap {"reset", "repaint"} # {} \/ ~sizeSet THEN 2 ELSE asked)
    /\ UNCHANGED <<line, termSize, lost, strokes, wanted, ttyrx, esc, escbuf, powerKey,
                   sizeVars, displayMode, drawVars>>

\* Its timers
DisplayTimer ==
    /\ ScheduleDisplay("repaint")
    /\ UNCHANGED <<lineVars, ttyrx, esc, escbuf, powerKey, sizeVars>>

-----------------------------------------------------------------------------
(* cliTask                                                                 *)

Escape(on, buf) == esc' = on /\ escbuf' = buf

\* Mutant: each report is compared with the first one.
TakeFirstSize(size) ==
    /\ newSize' = (IF newSize = NoSize THEN size ELSE newSize)
    /\ IF size = newSize /\ size # screenSize
       THEN screenSize' = size /\ sizeSet' = TRUE /\ ScheduleDisplay("repaint")
       ELSE UNCHANGED <<screenSize, sizeSet, screenVars>>

\* handle_escape_screen_pos: a size counts when it comes twice in a row.
TakeSize(size) ==
    /\ newSize' = size
    /\ IF size = newSize /\ size # screenSize
       THEN screenSize' = size /\ sizeSet' = TRUE /\ ScheduleDisplay("repaint")
       ELSE UNCHANGED <<screenSize, sizeSet, screenVars>>

IsReport(seq) == Len(seq) = 3 /\ seq[1] = "[" /\ seq[2] \in Reported /\ seq[3] = "R"

\* handle_escape_seq and app_handle_escape_seq; other sequences have no effect.
HandleEscapeSeq(seq) ==
    /\ UNCHANGED powerKey
    /\ CASE IsReport(seq)      -> TakeSize(seq[2])
         [] seq = <<"[", "C">> -> ChoosePage(NextPage[displayMode]) /\ UNCHANGED sizeVars
         [] OTHER              -> UNCHANGED <<sizeVars, screenVars>>

\* Mutant: an 'O' completes a sequence.
OCompletes(seq) == seq[Len(seq)] \in Reported \cup {"["}

\* What does not complete a sequence: digits, ';', '[', and an 'O' at its begin.
Continues(seq) ==
    LET ch == seq[Len(seq)] IN ch \in Reported \cup {"["} \/ (ch = "O" /\ Len(seq) = 1)

HandleEscapeChar(ch) ==
    LET seq == Append(escbuf, ch)
    IN  IF Len(escbuf) >= EscLimit                            \* too long
          THEN Escape(FALSE, escbuf) /\ UNCHANGED <<powerKey, sizeVars, screenVars>>
        ELSE IF Continues(seq)
          THEN Escape(TRUE, seq) /\ UNCHANGED <<powerKey, sizeVars, screenVars>>
        ELSE Escape(FALSE, <<>>) /\ HandleEscapeSeq(seq)

\* A key outside an escape sequence: the last of F1 is a 'P', too.
HandleKey(ch) ==
    /\ UNCHANGED <<esc, escbuf, sizeVars>>
    /\ CASE ch \in {"p", "P"} -> powerKey' = ~powerKey /\ ScheduleDisplay("refresh")
         [] ch = " "          -> ScheduleDisplay("reset") /\ UNCHANGED powerKey
         [] OTHER             -> UNCHANGED <<powerKey, screenVars>>

\* One turn of the loop.  The tick that the timeout of an escape sequence is counted
\* with is read once before the loop, so that no time ever elapses.
CliTask ==
    /\ ttyrx # <<>>
    /\ ttyrx' = <<>>
    /\ LET ch == Head(ttyrx)
       IN  IF ch = "esc" THEN Escape(TRUE, <<>>) /\ UNCHANGED <<powerKey, sizeVars, screenVars>>
           ELSE IF esc THEN HandleEscapeChar(ch)
           ELSE HandleKey(ch)
    /\ UNCHANGED lineVars

-----------------------------------------------------------------------------

CliInit ==
    /\ ScreenInit
    /\ line = <<>> /\ asked = 0 /\ strokes = 0
    /\ termSize \in Sizes /\ lost = 0
    /\ ttyrx = <<>>
    /\ esc = FALSE /\ escbuf = <<>>
    /\ powerKey = TRUE
    /\ newSize = NoSize /\ screenSize = FirstSize /\ sizeSet = FALSE
    /\ wanted = [mode |-> FirstPage, power |-> TRUE]

Terminal == Report \/ ReceiveChar

CliNext ==
    \/ \E key \in Keys : Press(key)
    \/ Terminal
    \/ CliTask
    \/ DisplayAsks \/ DisplayTimer

CliSpec == CliInit /\ [][CliNext]_<<cliVars, drawVars>>

\* The tasks run, the terminal answers, and the timers of the display come round.
CliFairSpec ==
    /\ CliSpec
    /\ WF_cliVars(Terminal) /\ WF_cliVars(CliTask)
    /\ WF_cliVars(DisplayAsks) /\ WF_cliVars(DisplayTimer)

-----------------------------------------------------------------------------
(* Properties                                                              *)

Chars == Reported \cup Letters

\* Every variable stays in its type.
CliTypeOK ==
    /\ line \in Seq(Chars) /\ Len(ttyrx) <= 1 /\ ttyrx \in Seq(Chars)
    /\ asked \in 0..2 /\ termSize \in Sizes /\ lost \in 0..MaxLost
    /\ strokes \in 0..MaxStrokes
    /\ esc \in BOOLEAN /\ escbuf \in Seq(Chars) /\ Len(escbuf) <= EscLimit
    /\ powerKey \in BOOLEAN
    /\ newSize \in Reported \cup {NoSize} /\ screenSize \in Reported /\ sizeSet \in BOOLEAN
    /\ wanted \in [mode : Pages, power : BOOLEAN] \cup {Unknown}

\* Each key has its effect once, and the answers of the terminal between them have none on
\* the page or the power, unless a character is dropped or ESC is pressed alone: it
\* then waits for ever for what completes its sequence.
KeysHonoured ==
    line = <<>> /\ ttyrx = <<>> /\ wanted # Unknown
        => displayMode = wanted.mode /\ powerKey = wanted.power

\* The display learns the size of the terminal, whatever got lost of its answers before.
SizeLearnt == <>[](screenSize = termSize)
=============================================================================
