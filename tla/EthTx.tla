-------------------------------- MODULE EthTx --------------------------------
(***************************************************************************)
(* The transmission of Ethernet frames: low_level_output                   *)
(* (src/src/eth/ethernetif.c) copies a frame to the next descriptor of a   *)
(* ring and gives that to the DMA.  It is called by the TCP/IP thread, and *)
(* for LLDP by the thread that polls the PHY, which has the higher         *)
(* priority and preempts it (see EthLink); no lock keeps them apart.       *)
(* A frame fits a descriptor.                                              *)
(***************************************************************************)
EXTENDS Naturals

CONSTANTS TxBufs   \* ETH_TXBUFNB

ASSUME EthTxAssumption == TxBufs \in Nat \ {0}

VARIABLES
    txDesc,      \* EthHandle.TxDesc
    own,         \* the descriptors that the DMA owns
    buffer,      \* what was copied to every descriptor
    promised,    \* history: the frame that low_level_output was given for it
    copying,     \* the descriptor that the TCP/IP thread fills, TxBufs for none
    preempted,   \* history: the PHY thread has sent meanwhile
    tainted      \* history: the descriptors that were spoiled in such a race

txVars == <<txDesc, own, buffer, promised, copying, preempted, tainted>>

Descriptors == 0..TxBufs - 1
Frame == {"none", "ip", "lldp", "mixed"}

\* HAL_ETH_TransmitFrame gives the descriptor at TxDesc to the DMA, if it is free,
\* and goes on to the next; its result is not looked at.
Transmit(frame, taint) ==
    IF txDesc \in own THEN UNCHANGED <<own, promised, tainted, txDesc>>
    ELSE /\ own' = own \cup {txDesc}
         /\ promised' = [promised EXCEPT ![txDesc] = frame]
         /\ tainted' = IF taint THEN tainted \cup {txDesc} ELSE tainted \ {txDesc}
         /\ txDesc' = (txDesc + 1) % TxBufs

\* Mutant: the owner of the descriptor is not looked at.
FreeAnyway == TRUE
Free == txDesc \notin own

\* low_level_output in the TCP/IP thread: the descriptor is taken and its first
\* bytes are copied; ERR_USE when the DMA still owns it.
OutputBegins ==
    /\ copying = TxBufs /\ Free
    /\ copying' = txDesc
    /\ buffer' = [buffer EXCEPT ![txDesc] = "mixed"]
    /\ UNCHANGED <<txDesc, own, promised, preempted, tainted>>

\* The rest is copied, and the descriptor that is sent is the one at TxDesc by now.
OutputEnds ==
    /\ copying # TxBufs
    /\ buffer' = [buffer EXCEPT ![copying] = IF preempted THEN "mixed" ELSE "ip"]
    /\ Transmit("ip", preempted)
    /\ copying' = TxBufs
    /\ preempted' = FALSE

\* Or before one of the next pieces of the frame the descriptor is found to be owned
\* by the DMA, to which the PHY thread has given it: ERR_USE.
OutputGivesUp ==
    /\ copying \in own
    /\ buffer' \in {buffer, [buffer EXCEPT ![copying] = "mixed"]}
    /\ copying' = TxBufs
    /\ preempted' = FALSE
    /\ UNCHANGED <<txDesc, own, promised, tainted>>

\* low_level_output in the PHY thread, which the TCP/IP thread does not interrupt
OutputLldp ==
    /\ Free
    /\ buffer' = [buffer EXCEPT ![txDesc] = "lldp"]
    /\ Transmit("lldp", txDesc = copying)
    /\ preempted' = (copying # TxBufs)
    /\ UNCHANGED copying

\* The DMA sends the oldest frame: the one that is the farthest behind TxDesc.
Age(d) == IF d < txDesc THEN txDesc - d ELSE txDesc + TxBufs - d

DmaSends ==
    /\ \E d \in own :
          /\ \A e \in own : Age(e) <= Age(d)
          /\ own' = own \ {d}
    /\ UNCHANGED <<txDesc, buffer, promised, copying, preempted, tainted>>

TxInit ==
    /\ txDesc = 0 /\ own = {}
    /\ buffer = [d \in Descriptors |-> "none"] /\ promised = buffer
    /\ copying = TxBufs /\ preempted = FALSE /\ tainted = {}

TxNext == OutputBegins \/ OutputEnds \/ OutputGivesUp \/ OutputLldp \/ DmaSends

TxSpec == TxInit /\ [][TxNext]_txVars

-----------------------------------------------------------------------------
(* Properties                                                              *)

\* Every variable stays in its type.
TxTypeOK ==
    /\ txDesc \in Descriptors /\ copying \in 0..TxBufs
    /\ {own, tainted} \subseteq SUBSET Descriptors
    /\ {buffer, promised} \subseteq [Descriptors -> Frame]
    /\ preempted \in BOOLEAN

\* A frame goes out as it was given to low_level_output, unless the PHY thread sends
\* in the middle of its copying.  Such a race spoils the frame that the two copy to
\* one descriptor and the one that is sent after it, and no frame before or after.
FramesWhole == \A d \in own \ tainted : buffer[d] = promised[d]

\* Whatever the races, the DMA owns an unbroken run of descriptors that ends before
\* TxDesc: neither side waits for the other at the wrong descriptor.
RingUnbroken == \A d \in own, e \in Descriptors : Age(e) <= Age(d) => e \in own

\* A race of the two threads spoils the frames it is about and nothing after them.
FramesSent == FramesWhole /\ RingUnbroken
=============================================================================
