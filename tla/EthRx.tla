-------------------------------- MODULE EthRx --------------------------------
(***************************************************************************)
(* The reception of Ethernet frames (src/src/eth/ethernetif.c).  Frames    *)
(* wait in a ring of descriptors; an interrupt gives a binary semaphore to *)
(* the thread eth_recv, which copies them into buffers of a pool and posts *)
(* those to the mailbox of the TCP/IP thread.  A frame fits a descriptor.  *)
(***************************************************************************)
EXTENDS Naturals

CONSTANTS
    RxBufs,      \* ETH_RXBUFNB
    PbufPool,    \* PBUF_POOL_SIZE
    TcpipMbox    \* TCPIP_MBOX_SIZE

ASSUME EthRxAssumption == {RxBufs, PbufPool, TcpipMbox} \subseteq Nat \ {0}

VARIABLES
    received,    \* the frames in the ring
    suspended,   \* RBUS: the DMA has found no descriptor, and waits for a demand
    signal,      \* s_xSemaphore
    recvAt,      \* where eth_recv is: it waits, it reads the ring, it has a buffer
    mbox,        \* the buffers in the mailbox
    held,        \* the buffers that lwIP has from the pool besides
    starved      \* history: the pool was empty since the last interrupt

rxVars == <<received, suspended, signal, recvAt, mbox, held, starved>>

Allocated == mbox + held + (IF recvAt = "input" THEN 1 ELSE 0)

\* The DMA stores a frame and interrupts, or finds the ring full and suspends; a
\* frame that finds it suspended is lost.
FrameArrives ==
    /\ IF received < RxBufs /\ ~suspended
          THEN /\ received' = received + 1
               /\ signal' = TRUE /\ starved' = FALSE
               /\ UNCHANGED suspended
          ELSE suspended' = TRUE /\ UNCHANGED <<received, signal, starved>>
    /\ UNCHANGED <<recvAt, mbox, held>>

WaitFrame ==
    /\ recvAt = "wait" /\ signal
    /\ signal' = FALSE
    /\ recvAt' = "read"
    /\ UNCHANGED <<received, suspended, mbox, held, starved>>

BufferAnyway == TRUE  \* mutant: a frame is stored without a buffer
BufferFree == Allocated < PbufPool

\* low_level_input: without a buffer the frame is dropped, and NULL ends the loop as
\* an empty ring does.
ReadFrame ==
    /\ recvAt = "read"
    /\ IF received = 0
          THEN recvAt' = "wait" /\ UNCHANGED <<received, suspended, starved>>
          ELSE /\ received' = received - 1
               /\ suspended' = FALSE
               /\ IF BufferFree THEN recvAt' = "input" /\ UNCHANGED starved
                  ELSE recvAt' = "wait" /\ starved' = TRUE
    /\ UNCHANGED <<signal, mbox, held>>

\* Mutant: one frame for each interrupt.
InputOne ==
    /\ recvAt = "input" /\ recvAt' = "wait"
    /\ mbox' = IF mbox < TcpipMbox THEN mbox + 1 ELSE mbox
    /\ UNCHANGED <<received, suspended, signal, held, starved>>

\* netif->input is tcpip_input; eth_recv frees what the mailbox does not take.
Input ==
    /\ recvAt = "input" /\ recvAt' = "read"
    /\ mbox' = IF mbox < TcpipMbox THEN mbox + 1 ELSE mbox
    /\ UNCHANGED <<received, suspended, signal, held, starved>>

EthRecv == WaitFrame \/ ReadFrame \/ Input

\* lwIP keeps a buffer for some time, or is done with it.
TcpipInput ==
    /\ mbox > 0 /\ mbox' = mbox - 1
    /\ held' \in {held, held + 1}
    /\ UNCHANGED <<received, suspended, signal, recvAt, starved>>

PbufFree ==
    /\ held > 0 /\ held' = held - 1
    /\ UNCHANGED <<received, suspended, signal, recvAt, mbox, starved>>

RxInit ==
    /\ received = 0 /\ suspended = FALSE
    /\ signal = TRUE    \* osSemaphoreCreate with a count of 1
    /\ recvAt = "wait" /\ mbox = 0 /\ held = 0 /\ starved = FALSE

RxNext == FrameArrives \/ EthRecv \/ TcpipInput \/ PbufFree

RxSpec == RxInit /\ [][RxNext]_rxVars

-----------------------------------------------------------------------------
(* Properties                                                              *)

\* Every variable stays in its type, and the buffers fit the pool.
RxTypeOK ==
    /\ received \in 0..RxBufs
    /\ {suspended, signal, starved} \subseteq BOOLEAN
    /\ recvAt \in {"wait", "read", "input"}
    /\ mbox \in 0..TcpipMbox
    /\ held \in Nat
    /\ Allocated <= PbufPool

\* A frame in the ring is not forgotten: its interrupt is still to be served, or
\* eth_recv is reading the ring.  Except when the pool was empty: then what is left
\* in the ring waits for the next frame to arrive.
FramesAwaited == received > 0 => signal \/ recvAt # "wait" \/ starved

\* A DMA that has suspended is resumed: only low_level_input does it, when it takes a
\* frame, and there is a frame to take and a reason to look for it.
SuspensionEnds == suspended => received > 0 /\ (signal \/ recvAt # "wait")

\* No frame that has reached the ring is waited for in vain, by either side.
FramesReceived == FramesAwaited /\ SuspensionEnds
=============================================================================
