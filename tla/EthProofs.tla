------------------------------ MODULE EthProofs ------------------------------
(***************************************************************************)
(* What holds of the Ethernet interface: of its link, its reception and    *)
(* its transmission, for all sizes of their pools and rings.               *)
(***************************************************************************)
EXTENDS EthLink, EthRx, EthTx, TLAPS

-----------------------------------------------------------------------------
(* The link.                                                               *)

\* A timeout of LLDP keeps the types, and adds one series at most.
LEMMA LldpSendTypes ==
    ASSUME EthTypeOK, LldpSend
    PROVE  /\ chains' \in 0..(TimeoutPool - OwnTimeouts)
           /\ chains' \in {chains, chains + 1}
           /\ refused' \in BOOLEAN /\ rang' \in BOOLEAN
<1>1. /\ chains' \in 0..(TimeoutPool - OwnTimeouts)
      /\ chains' \in {chains, chains + 1}
  BY EthLinkAssumption DEF EthTypeOK, LldpSend, Rearm, Armed
<1>2. refused' \in {refused, TRUE} /\ rang' \in {FALSE, TRUE}
  BY DEF LldpSend, Rearm
<1> QED BY <1>1, <1>2 DEF EthTypeOK

\* Every variable of the link stays in its type, and the timeouts fit their pool.
THEOREM LinkTypeCorrect == EthSpec => []EthTypeOK
<1> USE EthLinkAssumption
<1>1. ASSUME EthInit PROVE EthTypeOK
  <2>1. chains \in 0..(TimeoutPool - OwnTimeouts)
    BY <1>1 DEF EthInit
  <2>2. rang \in BOOLEAN
    BY <1>1, Zenon DEF EthInit
  <2>3. {cable, pbufsLast, linkUp, netifUp, macRuns, linkShown, refused, rang} \subseteq BOOLEAN
    BY <1>1, <2>2, Zenon DEF EthInit
  <2> QED BY <1>1, <2>1, <2>3 DEF EthInit, EthTypeOK
<1>2. ASSUME EthTypeOK, [EthNext]_ethVars PROVE EthTypeOK'
  <2> USE DEF EthTypeOK, cableVars, linkVars, threads, timeouts
  <2>1. CASE PollPhy
    BY <1>2, <2>1 DEF PollPhy
  <2>2. CASE UpdateConfig
    BY <1>2, <2>2 DEF UpdateConfig
  <2>3. CASE NotifyConn
    BY <1>2, <2>3 DEF NotifyConn
  <2>4. CASE AnnounceLink
    BY <1>2, <2>4, LldpSendTypes DEF AnnounceLink
  <2>5. CASE FireLldp
    <3>1. chains' \in 0..(TimeoutPool - OwnTimeouts)
      BY <1>2, <2>5 DEF FireLldp
    <3> QED BY <1>2, <2>5, <3>1 DEF FireLldp
  <2>6. CASE RepeatLldp
    BY <1>2, <2>6, LldpSendTypes DEF RepeatLldp
  <2>7. CASE TcpTimer
    <3>1. others' \in 0..1
      BY <1>2, <2>7 DEF TcpTimer
    <3>2. refused' \in BOOLEAN /\ rang' \in BOOLEAN
      BY <1>2, <2>7, Zenon DEF TcpTimer
    <3> QED BY <1>2, <2>7, <3>1, <3>2 DEF TcpTimer
  <2>8. CASE CableChanges
    <3>1. flaps' \in 0..MaxFlaps
      BY <1>2, <2>8 DEF CableChanges
    <3>2. cable' \in BOOLEAN
      BY <2>8, Zenon DEF CableChanges
    <3> QED BY <1>2, <2>8, <3>1, <3>2 DEF CableChanges
  <2>9. CASE PbufsSuffice
    BY <1>2, <2>9 DEF PbufsSuffice
  <2>10. CASE UNCHANGED ethVars
    BY <1>2, <2>10 DEF ethVars
  <2> QED BY <1>2, <2>1, <2>2, <2>3, <2>4, <2>5, <2>6, <2>7, <2>8, <2>9, <2>10
       DEF EthNext, PhyThread, TcpipThread
<1> QED BY <1>1, <1>2, PTL DEF EthSpec

\* The series of announcements, with the one that the PHY thread is about to start.
Starting == IF phyAt = "lldp" \/ (phyAt \in {"config", "notify"} /\ linkUp) THEN 1 ELSE 0
AllSeries == Series + Starting

\* The link comes up once for every two changes of the cable: what the changes allow
\* beyond their number depends on where cable and link are.
Slack == IF linkUp THEN (IF cable THEN 2 ELSE 1) ELSE (IF cable THEN 0 ELSE 1)
SeriesInv == 2 * AllSeries <= flaps + Slack

\* Every step keeps the bound on the series.
LEMMA SeriesKept ==
    ASSUME EthTypeOK, SeriesInv, [EthNext]_ethVars
    PROVE  SeriesInv'
<1> USE DEF EthTypeOK, SeriesInv, AllSeries, Series, Starting, Slack,
            cableVars, linkVars, threads, timeouts
<1>1. CASE PollPhy
  BY <1>1, EthLinkAssumption DEF PollPhy
<1>2. CASE UpdateConfig \/ NotifyConn
  BY <1>2, EthLinkAssumption DEF UpdateConfig, NotifyConn
<1>3. CASE AnnounceLink \/ RepeatLldp
  BY <1>3, EthLinkAssumption, LldpSendTypes DEF AnnounceLink, RepeatLldp
<1>4. CASE FireLldp
  BY <1>4, EthLinkAssumption DEF FireLldp
<1>5. CASE CableChanges
  BY <1>5, EthLinkAssumption DEF CableChanges
<1>6. CASE TcpTimer \/ PbufsSuffice \/ UNCHANGED ethVars
  BY <1>6, EthLinkAssumption DEF TcpTimer, PbufsSuffice, ethVars
<1> QED BY <1>1, <1>2, <1>3, <1>4, <1>5, <1>6 DEF EthNext, PhyThread, TcpipThread

\* The announcements multiply by one series each time that the link comes up, and no
\* faster, for any pool of timeouts and any number of changes of the cable.
THEOREM AnnouncementsBounded == EthSpec => []ChainsBounded
<1>1. ASSUME EthInit PROVE SeriesInv
  <2>1. flaps = 0 /\ Starting = 0 /\ Series = chains
    BY <1>1 DEF EthInit, Starting, Series
  <2>2. CASE linkUp
    <3>1. chains \in {0, 1} /\ Slack = 2
      BY <1>1, <2>2 DEF EthInit, Slack
    <3> QED BY <2>1, <3>1 DEF SeriesInv, AllSeries
  <2>3. CASE ~linkUp
    <3>1. chains = 0 /\ Slack \in {0, 1}
      BY <1>1, <2>3 DEF EthInit, Slack
    <3> QED BY <2>1, <3>1 DEF SeriesInv, AllSeries
  <2> QED BY <2>2, <2>3
<1>2. EthTypeOK /\ SeriesInv => ChainsBounded
  BY EthLinkAssumption
     DEF EthTypeOK, SeriesInv, AllSeries, Series, Starting, Slack, ChainsBounded
<1> QED BY <1>1, <1>2, LinkTypeCorrect, SeriesKept, PTL DEF EthSpec

\* The MAC is started before the link is shown, and both before the next poll.
LinkInv ==
    /\ phyAt \in {"poll", "lldp"} => linkShown = linkUp
    /\ phyAt \in {"poll", "notify", "lldp"} => (linkUp => macRuns)

\* Whatever the cable does while the callback runs, the display agrees with the interface
\* at the next poll, and a link that is up has a MAC that runs.
THEOREM LinkAgrees == EthSpec => []LinkIsShown
<1> USE DEF LinkInv, cableVars, linkVars, threads, timeouts
<1>1. EthInit => LinkInv
  BY DEF EthInit
<1>2. ASSUME EthTypeOK, LinkInv, [EthNext]_ethVars PROVE LinkInv'
  <2>1. CASE PollPhy
    <3>1. /\ phyAt = "poll" /\ linkUp' = cable /\ UNCHANGED <<macRuns, linkShown>>
          /\ phyAt' = IF linkUp # cable THEN "config" ELSE "poll"
      BY <2>1 DEF PollPhy
    <3>2. CASE linkUp # cable
      BY <3>1, <3>2
    <3>3. CASE linkUp = cable
      <4>1. linkUp' = linkUp /\ linkShown = linkUp /\ (linkUp => macRuns)
        BY <1>2, <3>1, <3>3
      <4>2. macRuns' = macRuns /\ linkShown' = linkShown
        BY <3>1
      <4>3. linkShown' = linkUp' /\ (linkUp' => macRuns')
        BY <4>1, <4>2, Zenon
      <4> QED BY <4>3, Zenon
    <3> QED BY <3>2, <3>3
  <2>2. CASE UpdateConfig
    <3>1. phyAt' = "notify" /\ macRuns' = linkUp /\ linkUp' = linkUp
      BY <2>2 DEF UpdateConfig
    <3>2. linkUp' => macRuns'
      BY <3>1, Zenon
    <3> QED BY <3>1, <3>2
  <2>3. CASE NotifyConn
    <3>1. /\ phyAt = "notify" /\ linkShown' = linkUp /\ linkUp' = linkUp /\ macRuns' = macRuns
          /\ phyAt' \in {"poll", "lldp"}
      BY <2>3 DEF NotifyConn
    <3>2. linkShown' = linkUp' /\ (linkUp' => macRuns')
      BY <1>2, <3>1, Zenon
    <3> QED BY <3>2, Zenon
  <2>4. CASE AnnounceLink
    <3>1. phyAt = "lldp" /\ phyAt' = "poll" /\ UNCHANGED <<linkUp, macRuns, linkShown>>
      BY <2>4 DEF AnnounceLink
    <3>2. linkShown = linkUp /\ (linkUp => macRuns)
      BY <1>2, <3>1
    <3> QED BY <3>1, <3>2, Zenon
  <2>5. CASE TcpipThread \/ TcpTimer \/ CableChanges \/ PbufsSuffice \/ UNCHANGED ethVars
    <3>1. UNCHANGED <<phyAt, linkUp, macRuns, linkShown>>
      BY <2>5 DEF TcpipThread, FireLldp, RepeatLldp, TcpTimer, CableChanges, PbufsSuffice, ethVars
    <3> QED BY <1>2, <3>1, Zenon
  <2> QED BY <1>2, <2>1, <2>2, <2>3, <2>4, <2>5 DEF EthNext, PhyThread
<1>3. LinkInv => LinkIsShown
  BY DEF LinkIsShown
<1> QED BY <1>1, <1>2, <1>3, LinkTypeCorrect, PTL DEF EthSpec

\* With buffers to be had and room in the pool no step ends a series of announcements:
\* neither thread takes one from the other, nor does a link that goes down, for any pool.
THEOREM SeriesGoOn == EthSpec => NoSeriesEnds
<1>1. ASSUME EthTypeOK, [EthNext]_ethVars, pbufsLast, ~refused' PROVE Series' >= Series
  <2> USE EthLinkAssumption DEF EthTypeOK, cableVars, linkVars, threads, timeouts
  <2>1. CASE AnnounceLink \/ RepeatLldp
    <3>1. chains' = chains + 1
      BY <1>1, <2>1 DEF AnnounceLink, RepeatLldp, LldpSend, Rearm
    <3> QED BY <1>1, <2>1, <3>1 DEF AnnounceLink, RepeatLldp, Series
  <2>2. CASE FireLldp
    BY <1>1, <2>2 DEF FireLldp, Series
  <2>3. CASE \/ PollPhy \/ UpdateConfig \/ NotifyConn
            \/ TcpTimer \/ CableChanges \/ PbufsSuffice \/ UNCHANGED ethVars
    <3>1. UNCHANGED <<chains, tcpipAt>>
      BY <2>3 DEF PollPhy, UpdateConfig, NotifyConn, TcpTimer, CableChanges, PbufsSuffice, ethVars
    <3>2. Series' = Series /\ Series >= Series
      BY <1>1, <3>1 DEF Series
    <3> QED BY <3>2
  <2> QED BY <1>1, <2>1, <2>2, <2>3 DEF EthNext, PhyThread, TcpipThread
<1>2. EthTypeOK /\ [EthNext]_ethVars => [pbufsLast /\ ~refused' => Series' >= Series]_ethVars
  BY <1>1
<1> QED BY <1>2, LinkTypeCorrect, PTL DEF EthSpec, NoSeriesEnds

-----------------------------------------------------------------------------
(* The reception.                                                          *)

\* Every variable of the reception stays in its type, and the buffers fit the pool.
THEOREM RxTypeCorrect == RxSpec => []RxTypeOK
<1> USE EthRxAssumption DEF RxTypeOK, Allocated
<1>1. ASSUME RxInit PROVE RxTypeOK
  <2>1. {suspended, signal, starved} \subseteq BOOLEAN
    BY <1>1, Zenon DEF RxInit
  <2> QED BY <1>1, <2>1 DEF RxInit
<1>2. ASSUME RxTypeOK, [RxNext]_rxVars PROVE RxTypeOK'
  <2>1. CASE FrameArrives
    <3>1. received' \in 0..RxBufs
      BY <1>2, <2>1 DEF FrameArrives
    <3>2. /\ suspended' \in {suspended, TRUE} /\ signal' \in {signal, TRUE}
          /\ starved' \in {starved, FALSE}
      BY <2>1 DEF FrameArrives
    <3> QED BY <1>2, <2>1, <3>1, <3>2 DEF FrameArrives
  <2>2. CASE WaitFrame
    BY <1>2, <2>2 DEF WaitFrame
  <2>3. CASE ReadFrame
    <3>1. received' \in 0..RxBufs /\ Allocated' <= PbufPool
      BY <1>2, <2>3 DEF ReadFrame, BufferFree
    <3>2. /\ suspended' \in {suspended, FALSE} /\ starved' \in {starved, TRUE}
          /\ recvAt' \in {"wait", "input"}
      BY <2>3 DEF ReadFrame
    <3> QED BY <1>2, <2>3, <3>1, <3>2 DEF ReadFrame
  <2>4. CASE Input
    BY <1>2, <2>4 DEF Input
  <2>5. CASE TcpipInput
    BY <1>2, <2>5 DEF TcpipInput
  <2>6. CASE PbufFree
    BY <1>2, <2>6 DEF PbufFree
  <2>7. CASE UNCHANGED rxVars
    BY <1>2, <2>7 DEF rxVars
  <2> QED BY <1>2, <2>1, <2>2, <2>3, <2>4, <2>5, <2>6, <2>7 DEF RxNext, EthRecv
<1> QED BY <1>1, <1>2, PTL DEF RxSpec

\* A ring that is full has been filled by a frame that interrupted.
RxInv == FramesReceived /\ (starved => received < RxBufs)

\* No frame that has reached the ring is waited for in vain, but for an empty pool, and
\* a DMA that has suspended is always resumed, for all sizes of the ring and the pools.
THEOREM FramesAreReceived == RxSpec => []FramesReceived
<1> USE EthRxAssumption DEF RxInv, FramesReceived, FramesAwaited, SuspensionEnds
<1>1. RxInit => RxInv
  BY DEF RxInit
<1>2. ASSUME RxTypeOK, RxInv, [RxNext]_rxVars PROVE RxInv'
  <2> USE DEF RxTypeOK
  <2>1. CASE FrameArrives
    BY <1>2, <2>1 DEF FrameArrives
  <2>2. CASE WaitFrame
    BY <1>2, <2>2 DEF WaitFrame
  <2>3. CASE ReadFrame
    BY <1>2, <2>3 DEF ReadFrame
  <2>4. CASE Input
    BY <1>2, <2>4 DEF Input
  <2>5. CASE TcpipInput \/ PbufFree \/ UNCHANGED rxVars
    BY <1>2, <2>5 DEF TcpipInput, PbufFree, rxVars
  <2> QED BY <1>2, <2>1, <2>2, <2>3, <2>4, <2>5 DEF RxNext, EthRecv
<1> QED BY <1>1, <1>2, RxTypeCorrect, PTL DEF RxSpec

-----------------------------------------------------------------------------
(* The transmission.                                                       *)

\* The descriptor after another, round the ring.
LEMMA NextDescriptor ==
    ASSUME TxTypeOK
    PROVE  /\ (txDesc + 1) % TxBufs = IF txDesc + 1 = TxBufs THEN 0 ELSE txDesc + 1
           /\ (txDesc + 1) % TxBufs \in Descriptors
<1>1. txDesc \in Nat /\ txDesc < TxBufs /\ TxBufs \in Nat \ {0}
  BY EthTxAssumption DEF TxTypeOK, Descriptors
<1>2. CASE txDesc + 1 = TxBufs
  <2>1. TxBufs % TxBufs = 0
    BY <1>1
  <2> QED BY <1>1, <1>2, <2>1 DEF Descriptors
<1>3. CASE txDesc + 1 < TxBufs
  <2>1. (txDesc + 1) % TxBufs = txDesc + 1
    BY <1>1, <1>3
  <2> QED BY <1>1, <1>3, <2>1 DEF Descriptors
<1> QED BY <1>1, <1>2, <1>3

\* A transmission keeps the types.
LEMMA TransmitTypes ==
    ASSUME TxTypeOK, NEW frame \in Frame, NEW taint \in BOOLEAN, Transmit(frame, taint)
    PROVE  /\ txDesc' \in Descriptors
           /\ own' \subseteq Descriptors /\ tainted' \subseteq Descriptors
           /\ promised' \in [Descriptors -> Frame]
BY NextDescriptor DEF Transmit, TxTypeOK

\* Every variable of the transmission stays in its type.
THEOREM TxTypeCorrect == TxSpec => []TxTypeOK
<1> USE DEF TxTypeOK
<1>1. ASSUME TxInit PROVE TxTypeOK
  <2>1. txDesc \in Descriptors /\ copying \in 0..TxBufs
    BY <1>1, EthTxAssumption DEF TxInit, Descriptors
  <2> QED BY <1>1, <2>1 DEF TxInit, Frame
<1>2. ASSUME TxTypeOK, [TxNext]_txVars PROVE TxTypeOK'
  <2>1. CASE OutputBegins
    <3>1. copying' \in 0..TxBufs
      BY <1>2, <2>1, EthTxAssumption DEF OutputBegins, Descriptors
    <3>2. buffer' \in [Descriptors -> Frame]
      BY <1>2, <2>1 DEF OutputBegins, Frame
    <3> QED BY <1>2, <2>1, <3>1, <3>2 DEF OutputBegins
  <2>2. CASE OutputEnds
    <3>1. copying' \in 0..TxBufs
      BY <2>2, EthTxAssumption DEF OutputEnds
    <3>2. buffer' \in [Descriptors -> Frame]
      BY <1>2, <2>2 DEF OutputEnds, Frame
    <3>3. Transmit("ip", preempted) /\ "ip" \in Frame /\ preempted \in BOOLEAN
      BY <1>2, <2>2 DEF OutputEnds, Frame
    <3> QED BY <1>2, <2>2, <3>1, <3>2, <3>3, TransmitTypes DEF OutputEnds
  <2>3. CASE OutputGivesUp
    <3>1. copying' \in 0..TxBufs
      BY <2>3, EthTxAssumption DEF OutputGivesUp
    <3>2. buffer' \in [Descriptors -> Frame]
      BY <1>2, <2>3 DEF OutputGivesUp, Frame
    <3> QED BY <1>2, <2>3, <3>1, <3>2 DEF OutputGivesUp
  <2>4. CASE OutputLldp
    <3>1. buffer' \in [Descriptors -> Frame]
      BY <1>2, <2>4 DEF OutputLldp, Frame
    <3>2. Transmit("lldp", txDesc = copying) /\ "lldp" \in Frame /\ (txDesc = copying) \in BOOLEAN
      BY <2>4 DEF OutputLldp, Frame
    <3>3. /\ txDesc' \in Descriptors
          /\ own' \subseteq Descriptors /\ tainted' \subseteq Descriptors
          /\ promised' \in [Descriptors -> Frame]
      BY <1>2, <3>2, TransmitTypes
    <3>4. preempted' \in BOOLEAN
      BY <2>4, Zenon DEF OutputLldp
    <3> QED BY <1>2, <2>4, <3>1, <3>3, <3>4 DEF OutputLldp
  <2>5. CASE DmaSends
    BY <1>2, <2>5 DEF DmaSends
  <2>6. CASE UNCHANGED txVars
    BY <1>2, <2>6 DEF txVars
  <2> QED BY <1>2, <2>1, <2>2, <2>3, <2>4, <2>5, <2>6 DEF TxNext
<1> QED BY <1>1, <1>2, PTL DEF TxSpec

\* To give a descriptor to the DMA makes it the youngest.
LEMMA AgesAfter ==
    ASSUME TxTypeOK, txDesc' = (txDesc + 1) % TxBufs, NEW d \in Descriptors
    PROVE  Age(d)' = IF d = txDesc THEN 1 ELSE Age(d) + 1
<1>1. txDesc \in Nat /\ txDesc < TxBufs /\ TxBufs \in Nat \ {0} /\ d \in Nat /\ d < TxBufs
  BY EthTxAssumption DEF TxTypeOK, Descriptors
<1>2. txDesc' = IF txDesc + 1 = TxBufs THEN 0 ELSE txDesc + 1
  BY NextDescriptor
<1> QED BY <1>1, <1>2 DEF Age

\* A transmission keeps the run of descriptors of the DMA unbroken.
LEMMA TransmitKeepsRun ==
    ASSUME TxTypeOK, RingUnbroken, NEW frame, NEW taint, Transmit(frame, taint)
    PROVE  RingUnbroken'
<1>1. CASE txDesc \in own
  BY <1>1 DEF Transmit, RingUnbroken, Age
<1>2. CASE txDesc \notin own
  <2>1. own' = own \cup {txDesc} /\ txDesc' = (txDesc + 1) % TxBufs
    BY <1>2 DEF Transmit
  <2>2. ASSUME NEW d \in own', NEW e \in Descriptors, Age(e)' <= Age(d)' PROVE e \in own'
    <3>1. d \in Descriptors /\ own \subseteq Descriptors
      BY <2>1 DEF TxTypeOK
    <3>2. /\ Age(d)' = IF d = txDesc THEN 1 ELSE Age(d) + 1
          /\ Age(e)' = IF e = txDesc THEN 1 ELSE Age(e) + 1
      BY <2>1, <3>1, AgesAfter
    <3>3. Age(d) \in Nat \ {0} /\ Age(e) \in Nat \ {0}
      BY <3>1, EthTxAssumption DEF Age, TxTypeOK, Descriptors
    <3>4. CASE e = txDesc
      BY <2>1, <3>4
    <3>5. CASE e # txDesc
      <4>1. d # txDesc /\ Age(e) <= Age(d)
        BY <2>2, <3>2, <3>3, <3>5
      <4> QED BY <2>1, <4>1 DEF RingUnbroken
    <3> QED BY <3>4, <3>5
  <2> QED BY <2>2 DEF RingUnbroken
<1> QED BY <1>1, <1>2

\* A copy that was not preempted goes to the descriptor at TxDesc, which is free; one
\* that was, and whose descriptor was sent, has that descriptor tainted.
CopyInv ==
    /\ copying = TxBufs => ~preempted
    /\ copying # TxBufs /\ ~preempted => copying = txDesc /\ copying \notin own
    /\ copying \in own => copying \in tainted

\* So does the DMA, which takes the oldest.
LEMMA DmaKeepsRun ==
    ASSUME TxTypeOK, RingUnbroken, DmaSends
    PROVE  RingUnbroken'
<1>1. PICK d \in own : (\A e \in own : Age(e) <= Age(d)) /\ own' = own \ {d}
  BY DEF DmaSends
<1>2. own \subseteq Descriptors /\ UNCHANGED txDesc
  BY DEF DmaSends, TxTypeOK
<1>3. ASSUME NEW f \in own', NEW e \in Descriptors, Age(e)' <= Age(f)' PROVE e \in own'
  <2>1. Age(e)' = Age(e) /\ Age(f)' = Age(f)
    BY <1>2 DEF Age
  <2>2. f \in own /\ f # d /\ e \in own
    BY <1>1, <1>3, <2>1 DEF RingUnbroken
  <2>3. e # d
    <3>1. Age(f) <= Age(d)
      BY <1>1, <2>2
    <3>2. Age(d) <= Age(f) => d = f
      BY <1>1, <1>2, <2>2, <3>1, EthTxAssumption DEF Age, TxTypeOK, Descriptors
    <3> QED BY <1>3, <2>1, <2>2, <3>2
  <2> QED BY <1>1, <2>2, <2>3
<1> QED BY <1>3 DEF RingUnbroken

\* However the two threads race in low_level_output, the DMA owns an unbroken run of
\* descriptors, and only the frames of the race are spoiled, for a ring of any size.
THEOREM OthersUnharmed == TxSpec => []FramesSent
<1>1. TxInit => CopyInv /\ FramesSent
  BY DEF TxInit, CopyInv, FramesSent, FramesWhole, RingUnbroken
<1>2. ASSUME TxTypeOK, CopyInv, FramesSent, [TxNext]_txVars PROVE CopyInv' /\ FramesSent'
  <2> USE DEF FramesSent
  <2>1. /\ own \subseteq Descriptors /\ buffer \in [Descriptors -> Frame]
        /\ promised \in [Descriptors -> Frame] /\ txDesc \in Descriptors
        /\ TxBufs \notin Descriptors
    BY <1>2, EthTxAssumption DEF TxTypeOK, Descriptors
  <2>2. CASE OutputBegins
    <3>1. RingUnbroken'
      BY <1>2, <2>2 DEF OutputBegins, RingUnbroken, Age
    <3> QED BY <1>2, <2>1, <2>2, <3>1 DEF OutputBegins, Free, CopyInv, FramesWhole
  <2>3. CASE OutputEnds
    <3>1. RingUnbroken'
      BY <1>2, <2>3, TransmitKeepsRun DEF OutputEnds
    <3>2. CopyInv'
      BY <2>1, <2>3 DEF OutputEnds, Transmit, CopyInv
    <3>3. FramesWhole'
      BY <1>2, <2>1, <2>3 DEF OutputEnds, Transmit, CopyInv, FramesWhole
    <3> QED BY <3>1, <3>2, <3>3
  <2>4. CASE OutputLldp
    <3>1. RingUnbroken'
      BY <1>2, <2>4, TransmitKeepsRun DEF OutputLldp
    <3>2. CopyInv'
      BY <1>2, <2>1, <2>4 DEF OutputLldp, Free, Transmit, CopyInv
    <3>3. FramesWhole'
      BY <1>2, <2>1, <2>4 DEF OutputLldp, Free, Transmit, FramesWhole
    <3> QED BY <3>1, <3>2, <3>3
  <2>5. CASE DmaSends
    BY <1>2, <2>5, DmaKeepsRun DEF DmaSends, CopyInv, FramesWhole
  <2>6. CASE OutputGivesUp
    <3>1. RingUnbroken'
      BY <1>2, <2>6 DEF OutputGivesUp, RingUnbroken, Age
    <3> QED BY <1>2, <2>1, <2>6, <3>1 DEF OutputGivesUp, CopyInv, FramesWhole
  <2>7. CASE UNCHANGED txVars
    BY <1>2, <2>7 DEF txVars, CopyInv, FramesWhole, RingUnbroken, Age
  <2> QED BY <1>2, <2>2, <2>3, <2>4, <2>5, <2>6, <2>7 DEF TxNext
<1> QED BY <1>1, <1>2, TxTypeCorrect, PTL DEF TxSpec
=============================================================================
