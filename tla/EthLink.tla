------------------------------- MODULE EthLink -------------------------------
(***************************************************************************)
(* The Ethernet link of the board: the thread that polls the PHY           *)
(* (ethernetif_set_link, src/src/eth/ethernetif.c), the callback that it   *)
(* runs when the link changes, and the LLDP announcements that this starts *)
(* (src/src/tasks/tcpip), which are repeated by a timeout of lwIP in the   *)
(* TCP/IP thread.  All timeouts of lwIP come from one pool.                *)
(***************************************************************************)
EXTENDS Naturals

CONSTANTS
    TimeoutPool,   \* MEMP_NUM_SYS_TIMEOUT
    OwnTimeouts,   \* the timeouts that lwIP itself always has running
    MaxFlaps       \* bound: how often the cable is plugged in or out

ASSUME EthLinkAssumption ==
    /\ {TimeoutPool, OwnTimeouts, MaxFlaps} \subseteq Nat
    /\ OwnTimeouts + 2 <= TimeoutPool   \* there is room for one more, and for LLDP

VARIABLES
    cable,       \* environment: what the PHY says
    flaps,       \* environment: how often it has changed
    pbufsLast,   \* environment: pbuf_alloc does not fail from now on
    linkUp,      \* netif_is_link_up
    netifUp,     \* netif_is_up
    macRuns,     \* the last of HAL_ETH_Start and HAL_ETH_Stop
    linkShown,   \* eth_link_up
    phyAt,       \* where the PHY thread is in the link callback
    tcpipAt,     \* where the TCP/IP thread is in lldp_send_callback
    chains,      \* the timeouts that wait to call lldp_send_callback
    others,      \* the timeouts of lwIP beyond its own, of TCP
    refused,     \* history: sys_timeout has found its pool empty
    rang         \* history: the last step was an announcement

linkVars == <<linkUp, netifUp, macRuns, linkShown>>
timeouts == <<chains, others, refused>>
threads == <<phyAt, tcpipAt>>
cableVars == <<cable, flaps, pbufsLast>>
ethVars == <<cableVars, linkVars, threads, timeouts, rang>>

-----------------------------------------------------------------------------
(* lwIP's timeouts.  sys_timeout is one step here.  In lwIP it links the   *)
(* timeout into a sorted list without a lock, for the TCP/IP thread alone; *)
(* the PHY thread calls it too (lldp_send.c:77), and what becomes of the   *)
(* list when it does so in the middle of a change is not represented.      *)

Armed == OwnTimeouts + chains + others

\* sys_timeout for lldp_send_callback; an empty pool fails an assertion.
Rearm ==
    IF Armed < TimeoutPool THEN chains' = chains + 1 /\ UNCHANGED refused
    ELSE refused' = TRUE /\ UNCHANGED chains

\* Mutant: an announcement is repeated twice.
LldpSendTwice ==
    \/ ~pbufsLast /\ rang' = FALSE /\ UNCHANGED <<chains, refused>>
    \/ rang' = TRUE /\ chains' = chains + 2 /\ UNCHANGED refused

\* lldp_send_callback: without a buffer it returns before it arms its timeout.
LldpSend ==
    \/ ~pbufsLast /\ rang' = FALSE /\ UNCHANGED <<chains, refused>>
    \/ rang' = TRUE /\ Rearm

-----------------------------------------------------------------------------
(* The PHY thread.                                                         *)

PollPhy ==
    /\ phyAt = "poll"
    /\ linkUp' = cable
    /\ phyAt' = IF linkUp # cable THEN "config" ELSE "poll"
    /\ rang' = FALSE
    /\ UNCHANGED <<cableVars, netifUp, macRuns, linkShown, tcpipAt, timeouts>>

\* Mutant: the MAC is started only when the negotiation succeeds.
UpdateConfigNegotiated ==
    /\ phyAt = "config"
    /\ \E negotiated \in BOOLEAN : macRuns' = (linkUp /\ negotiated)
    /\ phyAt' = "notify"
    /\ rang' = FALSE
    /\ UNCHANGED <<cableVars, linkUp, netifUp, linkShown, tcpipAt, timeouts>>

\* ethernetif_update_config: the negotiation may time out, the MAC starts all the same.
UpdateConfig ==
    /\ phyAt = "config"
    /\ macRuns' = linkUp
    /\ phyAt' = "notify"
    /\ rang' = FALSE
    /\ UNCHANGED <<cableVars, linkUp, netifUp, linkShown, tcpipAt, timeouts>>

\* ethernetif_notify_conn_changed, and lldp_send in it
NotifyConn ==
    /\ phyAt = "notify"
    /\ linkShown' = linkUp
    /\ phyAt' = IF linkUp THEN "lldp" ELSE "poll"
    /\ rang' = FALSE
    /\ UNCHANGED <<cableVars, linkUp, netifUp, macRuns, tcpipAt, timeouts>>

AnnounceLink ==
    /\ phyAt = "lldp"
    /\ LldpSend
    /\ phyAt' = "poll"
    /\ UNCHANGED <<cableVars, linkVars, tcpipAt, others>>

PhyThread == PollPhy \/ UpdateConfig \/ NotifyConn \/ AnnounceLink

-----------------------------------------------------------------------------
(* The TCP/IP thread, which the PHY thread preempts.                       *)

\* A timeout is back in the pool before its handler runs.
FireLldp ==
    /\ tcpipAt = "idle" /\ chains > 0
    /\ chains' = chains - 1
    /\ tcpipAt' = "lldp"
    /\ rang' = FALSE
    /\ UNCHANGED <<cableVars, linkVars, phyAt, others, refused>>

RepeatLldp ==
    /\ tcpipAt = "lldp"
    /\ LldpSend
    /\ tcpipAt' = "idle"
    /\ UNCHANGED <<cableVars, linkVars, phyAt, others>>

\* TCP runs its timer as long as there are connections.
TcpTimer ==
    /\ tcpipAt = "idle"
    /\ \/ others > 0 /\ others' = 0 /\ UNCHANGED refused
       \/ others = 0 /\ Armed < TimeoutPool /\ others' = 1 /\ UNCHANGED refused
       \/ others = 0 /\ Armed = TimeoutPool /\ refused' = TRUE /\ UNCHANGED others
    /\ rang' = FALSE
    /\ UNCHANGED <<cableVars, linkVars, threads, chains>>

TcpipThread == FireLldp \/ RepeatLldp

-----------------------------------------------------------------------------

CableChanges ==
    /\ flaps < MaxFlaps
    /\ cable' = ~cable
    /\ flaps' = flaps + 1
    /\ rang' = FALSE
    /\ UNCHANGED <<pbufsLast, linkVars, threads, timeouts>>

PbufsSuffice ==
    /\ ~pbufsLast
    /\ pbufsLast' = TRUE
    /\ rang' = FALSE
    /\ UNCHANGED <<cable, flaps, linkVars, threads, timeouts>>

\* Netif_Config: the interface is up if the link was when the MAC was initialised, which
\* may fail with a cable too; the first notification sends an announcement.
EthInit ==
    /\ cable \in BOOLEAN /\ linkUp \in {cable, FALSE} /\ netifUp = linkUp /\ linkShown = linkUp
    /\ macRuns = TRUE
    /\ flaps = 0 /\ pbufsLast \in BOOLEAN
    /\ phyAt = "poll" /\ tcpipAt = "idle"
    /\ chains \in IF ~linkUp THEN {0} ELSE IF pbufsLast THEN {1} ELSE {0, 1}
    /\ others = 0
    /\ refused = FALSE
    /\ rang = (chains = 1)

EthNext == PhyThread \/ TcpipThread \/ TcpTimer \/ CableChanges \/ PbufsSuffice

EthSpec == EthInit /\ [][EthNext]_ethVars

\* The PHY thread polls every 200 ms, with negotiations of at most a second; the
\* TCP/IP thread serves the timeouts.
EthFairSpec ==
    EthSpec /\ WF_ethVars(PhyThread) /\ WF_ethVars(TcpipThread)

-----------------------------------------------------------------------------
(* Properties                                                              *)

\* Every variable stays in its type.
EthTypeOK ==
    /\ {cable, pbufsLast, linkUp, netifUp, macRuns, linkShown, refused, rang} \subseteq BOOLEAN
    /\ flaps \in 0..MaxFlaps
    /\ phyAt \in {"poll", "config", "notify", "lldp"}
    /\ tcpipAt \in {"idle", "lldp"}
    /\ chains \in 0..TimeoutPool - OwnTimeouts
    /\ others \in 0..1

\* The announcements multiply, one more series for each time that the link came up,
\* and no faster: no step of the two threads that meet in lldp_send makes two of one.
ChainsBounded ==
    2 * (chains + (IF tcpipAt = "lldp" THEN 1 ELSE 0) + (IF phyAt = "lldp" THEN 1 ELSE 0)) <= flaps + 2

\* A link that is up in the end is shown, and the MAC runs; and one that is down is not.
LinkFollowsCable ==
    /\ <>[]cable => <>[](linkUp /\ macRuns /\ linkShown)
    /\ <>[](~cable) => <>[](~linkUp /\ ~linkShown)

\* The series of announcements: those waiting, and the one being sent.
Series == chains + (IF tcpipAt = "lldp" THEN 1 ELSE 0)

\* Between two polls the display agrees with the interface on the link, and a link that
\* is up has a MAC that runs, whether or not the negotiation succeeded.
LinkIsShown == phyAt = "poll" => linkShown = linkUp /\ (linkUp => macRuns)

\* As long as buffers can be had and no timeout is refused, no series of announcements
\* ends: neither the PHY thread nor a link that goes down takes one away.  (That none is
\* lost in lwIP's list of timeouts is assumed.)
NoSeriesEnds == [][pbufsLast /\ ~refused' => Series' >= Series]_ethVars

\* One that has started goes on for ever, with a link or without.
Announces == <>[](pbufsLast /\ ~refused /\ Series > 0) => []<>rang

\* The link follows the cable in the end, and is announced to the neighbour for as long
\* as it can be.
LinkServes == LinkFollowsCable /\ Announces

\* "the number of simulateously active timeouts" (lwipopts.h:86): the pool is as
\* large as it takes.  Each time the link comes up one more timeout is taken for good.
TimeoutsSuffice == ~refused

\* "When the netif is fully configured this function must be called"
\* (app_task_tcpip_impl.c:67): an interface with a link is set up in the end.  When
\* the link comes up after the start no one does.
InterfaceComesUp == <>[]cable => <>netifUp
=============================================================================
