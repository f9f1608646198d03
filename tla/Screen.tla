------------------------------- MODULE Screen -------------------------------
(***************************************************************************)
(* The screen of the serial console: the display task                      *)
(* (src/src/tasks/base/app_task_display_impl.c) draws the page that is     *)
(* chosen when one of the flags of app_shared_data.c is set, by its own    *)
(* timers or by other tasks.  The command line (module Cli) may choose     *)
(* another page between any two of its steps, the display never preempts   *)
(* the command line.                                                       *)
(***************************************************************************)

CONSTANTS
    Pages, FirstPage    \* the values of display_mode, DISPLAY_SUMMARY

ASSUME ScreenAssumption == FirstPage \in Pages

Kinds == {"reset", "repaint", "refresh"}

VARIABLES
    displayMode,  \* display_mode
    flags,        \* display_reset_flag and the like: the kinds that are set
    drawer,       \* the display task: its step, the kind of flag, what it has read
    oldMode,      \* old_mode
    screen        \* the page on the screen, the one in its footer, and if pages are mixed

screenVars == <<displayMode, flags, drawer, oldMode, screen>>

-----------------------------------------------------------------------------
(* The other tasks                                                         *)

\* A key of the command line: the page is chosen before its flag is set.
ChoosePage(page) ==
    /\ displayMode' = page
    /\ flags' = (IF page # displayMode THEN flags \cup {"repaint"} ELSE flags)
    /\ UNCHANGED <<drawer, oldMode, screen>>

\* schedule_display_reset and the like
ScheduleDisplay(kind) ==
    /\ flags' = flags \cup {kind}
    /\ UNCHANGED <<displayMode, drawer, oldMode, screen>>

-----------------------------------------------------------------------------
(* display_task_run                                                        *)

DrawerRests == [at |-> "idle", kind |-> "reset", hit |-> FALSE]
KindAfter == [reset |-> "repaint", repaint |-> "refresh"]
DrawerMoves(from, to) == drawer.at = from /\ drawer' = to

\* The timers, which schedule what has not come for long
DisplayRuns(due) ==
    /\ DrawerMoves("idle", [DrawerRests EXCEPT !.at = "load"])
    /\ flags' = flags \cup due
    /\ UNCHANGED <<displayMode, oldMode, screen>>

\* read_display_reset, read_display_repaint, read_display_refresh: the flag is read
\* ("FIXME: make atomic") ...
LoadFlag ==
    /\ DrawerMoves("load", [drawer EXCEPT !.at = "clear", !.hit = drawer.kind \in flags])
    /\ UNCHANGED <<displayMode, flags, oldMode, screen>>

\* ... and cleared.  A flag that is set leaves those after it unread; with none the
\* task prints the clock, if the second has changed, and rests.
ClearFlag ==
    /\ DrawerMoves("clear", IF drawer.hit THEN [drawer EXCEPT !.at = "footer"]
                      ELSE IF drawer.kind # "refresh"
                        THEN [drawer EXCEPT !.at = "load", !.kind = KindAfter[@]]
                      ELSE DrawerRests)
    /\ flags' = flags \ {drawer.kind}
    /\ UNCHANGED <<displayMode, oldMode, screen>>

\* print_footer highlights the page, but for a mere refresh.  The ten keys of the footer
\* compare the page one after the other; a highlight torn between two pages stands only
\* until the repaint that the change of the page has scheduled.
Footer ==
    /\ DrawerMoves("footer", [drawer EXCEPT !.at = "page"])
    /\ screen' = (IF drawer.kind = "refresh" THEN screen
                  ELSE [screen EXCEPT !.footer = displayMode])
    /\ UNCHANGED <<displayMode, flags, oldMode>>

\* Mutant: the screen is cleared for a new page only.
PageWithoutRepaint ==
    /\ DrawerMoves("page", [drawer EXCEPT !.at = "draw", !.hit = oldMode # displayMode])
    /\ oldMode' = displayMode
    /\ UNCHANGED <<displayMode, flags, screen>>

\* display_page_contents reads the page to see if it must clear the screen ...
Page ==
    /\ DrawerMoves("page", [drawer EXCEPT !.at = "draw",
                         !.hit = drawer.kind # "refresh" \/ oldMode # displayMode])
    /\ oldMode' = displayMode
    /\ UNCHANGED <<displayMode, flags, screen>>

\* ... and reads it again to draw it.
Draw ==
    /\ DrawerMoves("draw", DrawerRests)
    /\ screen' = [screen EXCEPT !.page = displayMode,
                     !.mixed = ~drawer.hit /\ (@ \/ screen.page # displayMode)]
    /\ UNCHANGED <<displayMode, flags, oldMode>>

DisplayTask == LoadFlag \/ ClearFlag \/ Footer \/ Page \/ Draw

-----------------------------------------------------------------------------

ScreenInit ==
    /\ displayMode = FirstPage
    /\ flags = Kinds
    /\ drawer = DrawerRests
    /\ oldMode = FirstPage
    /\ screen = [page |-> FirstPage, footer |-> FirstPage, mixed |-> FALSE]

ScreenNext ==
    \/ \E page \in Pages : ChoosePage(page)
    \/ \E kind \in Kinds : ScheduleDisplay(kind)
    \/ \E due \in SUBSET Kinds : DisplayRuns(due)
    \/ DisplayTask

ScreenSpec == ScreenInit /\ [][ScreenNext]_screenVars

\* The display task is not suspended for ever, and the timer of its repaints comes round.
ScreenFairSpec ==
    /\ ScreenSpec
    /\ WF_screenVars(DisplayTask)
    /\ SF_screenVars(\E due \in SUBSET Kinds : "repaint" \in due /\ DisplayRuns(due))

-----------------------------------------------------------------------------
(* Properties                                                              *)

\* Every variable stays in its type.
ScreenTypeOK ==
    /\ displayMode \in Pages
    /\ flags \subseteq Kinds
    /\ drawer \in [at : {"idle", "load", "clear", "footer", "page", "draw"}, kind : Kinds,
                   hit : BOOLEAN]
    /\ oldMode \in Pages
    /\ screen \in [page : Pages, footer : Pages, mixed : BOOLEAN]

\* Whenever the display rests and the screen is not what it should be, the display will
\* find out by itself: a flag is set that makes it clear the screen, or the page that it
\* remembers is not the one that is chosen.  No race over a flag or the page hides that.
WrongIsKnown ==
    drawer.at = "idle" /\ (screen.mixed \/ screen.page # displayMode)
        => flags \cap {"reset", "repaint"} # {} \/ oldMode # displayMode

\* Whatever flag is lost, and whenever the page changes while one is drawn, the screen
\* shows the chosen page alone in the end, and its footer says so.
ScreenFollows ==
    \A page \in Pages :
        <>[](displayMode = page) => <>[](screen = [page |-> page, footer |-> page, mixed |-> FALSE])
=============================================================================
