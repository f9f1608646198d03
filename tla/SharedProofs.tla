--------------------------- MODULE SharedProofs ----------------------------
(***************************************************************************)
(* What the log keeps and the display shows, for any writers, any ring and *)
(* any screen that is shorter than the ring; that the serial console loses *)
(* no character, no page of the display and no key, for any pages and      *)
(* sizes; and, from these and from what is proved of the I2C buses and the *)
(* Ethernet interface, what holds of all that tasks and interrupts share.  *)
(***************************************************************************)
EXTENDS MCShared, I2cProofs, EthProofs

-----------------------------------------------------------------------------
(* LogBuffer                                                               *)

\* Quotient and remainder.
LEMMA Division == ASSUME NEW L \in Nat \ {0}, NEW a \in Nat
  PROVE a = L * (a \div L) + (a % L) /\ a % L \in 0..L-1 /\ (a \div L) \in Nat
OBVIOUS

\* A number that is less than L apart from 0 is no multiple of L but 0.
LEMMA NoMultiple == ASSUME NEW L \in Nat \ {0}, NEW k \in Int, L * k < L, L * k > 0 - L
  PROVE k = 0
<1>1. CASE k >= 1
  <2>1. L * k >= L * 1
    BY <1>1
  <2> QED BY <2>1
<1>2. CASE k <= 0 - 1
  <2>1. L * k <= L * (0 - 1)
    BY <1>2
  <2> QED BY <2>1
<1> QED BY <1>1, <1>2

\* Numbers less than a turn of the ring apart are at different places.
LEMMA ModApart == ASSUME NEW L \in Nat \ {0}, NEW a \in Nat, NEW b \in Nat, a < b, b < a + L
  PROVE a % L # b % L
<1> SUFFICES ASSUME a % L = b % L PROVE FALSE
  OBVIOUS
<1> DEFINE k == (b \div L) - (a \div L)
<1>1. k \in Int /\ L * k = L * (b \div L) - L * (a \div L)
  BY Division
<1>2. L * k = b - a
  <2>1. a = L * (a \div L) + (a % L) /\ b = L * (b \div L) + (b % L)
    BY Division
  <2>2. L * (a \div L) \in Int /\ L * (b \div L) \in Int /\ a % L \in Int
    BY Division
  <2> HIDE DEF k
  <2> QED BY <1>1, <2>1, <2>2
<1>3. k = 0
  <2> HIDE DEF k
  <2> QED BY <1>1, <1>2, NoMultiple
<1> QED BY <1>2, <1>3

\* The remainder, from any quotient.
LEMMA ModUnique == ASSUME NEW L \in Nat \ {0}, NEW q \in Nat, NEW r \in 0..L-1
  PROVE (L * q + r) % L = r
<1> DEFINE a == L * q + r
           k == q - (a \div L)
<1>1. a \in Nat
  OBVIOUS
<1>2. k \in Int /\ L * k = L * q - L * (a \div L)
  <2>1. (a \div L) \in Nat
    BY <1>1, Division
  <2> HIDE DEF a
  <2> QED BY <2>1
<1>3. L * k = (a % L) - r
  BY <1>1, <1>2, Division
<1>4. k = 0
  <2>1. a % L \in 0..L-1
    BY <1>1, Division
  <2> HIDE DEF k, a
  <2> QED BY <1>2, <1>3, <2>1, NoMultiple
<1> QED BY <1>3, <1>4

\* The place after a place.
LEMMA ModNext == ASSUME NEW L \in Nat \ {0}, NEW a \in Nat
  PROVE ((a % L) + 1) % L = (a + 1) % L
<1> DEFINE q == a \div L
           r == a % L
<1>1. a = L * q + r /\ r \in 0..L-1 /\ q \in Nat
  BY Division
<1> HIDE DEF q, r
<1>2. CASE r + 1 < L
  <2>1. a + 1 = L * q + (r + 1) /\ r + 1 \in 0..L-1
    BY <1>1, <1>2
  <2>2. (L * q + (r + 1)) % L = r + 1
    BY <1>1, <2>1, ModUnique
  <2>3. (L * 0 + (r + 1)) % L = r + 1
    BY <1>1, <2>1, ModUnique
  <2> QED BY <2>1, <2>2, <2>3 DEF r
<1>3. CASE r + 1 = L
  <2>1. a + 1 = L * (q + 1) + 0
    BY <1>1, <1>3
  <2>2. (L * (q + 1) + 0) % L = 0 /\ (L * 1 + 0) % L = 0
    BY <1>1, ModUnique
  <2>3. L % L = 0
    BY <2>2
  <2> QED BY <1>3, <2>1, <2>2, <2>3 DEF r
<1> QED BY <1>1, <1>2, <1>3

\* The messages up to one, as far as no other message up to another has come over them.
HoldsUpTo(newest, over) ==
    \A n \in 1..newest : n + LogSize > over
        => logBuf[(n - 1) % LogSize] = [text |-> n, meta |-> n]

WriterStep == {"idle", "text", "meta", "load", "store", "release", "loadCount", "storeCount"}
LogTypes ==
    /\ logWptr \in Slots /\ logCount \in Nat /\ puts \in Nat
    /\ logBuf \in [Slots -> [text : Nat, meta : Nat]]
    /\ writer \in [LogWriters -> [at : WriterStep, msg : Nat, loaded : Nat]]

\* What a writer that is alone in log_put_long has done so far
Half(w) ==
    LET at == writer[w].at
    IN  /\ puts > 0 /\ logCount = puts - 1
        /\ at \in {"text", "meta"} => writer[w].msg = puts
        /\ at \in {"text", "meta", "load", "store"} => logWptr = (puts - 1) % LogSize
        /\ at \in {"release", "loadCount", "storeCount"} => logWptr = puts % LogSize
        /\ at = "text" => HoldsUpTo(puts - 1, puts - 1)
        /\ at = "meta" => HoldsUpTo(puts - 1, puts) /\ logBuf[logWptr].text = puts
        /\ at \notin {"text", "meta"} => HoldsUpTo(puts, puts)
        /\ at = "store" => writer[w].loaded = logWptr
        /\ at = "storeCount" => writer[w].loaded = logCount

AloneInv ==
    ~overlap =>
        /\ \A v, w \in LogWriters : ~Idle(v) /\ ~Idle(w) => v = w
        /\ \A w \in LogWriters : ~Idle(w) => Half(w)
        /\ (\A w \in LogWriters : Idle(w)) => HoldsLatest

\* A remainder is a slot.
LEMMA SlotIsInRing ==
    ASSUME NEW n \in Nat
    PROVE  n % LogSize \in Slots
BY LogAssumption DEF Slots

\* Only the oldest message can be in the slot that is written next.
LEMMA NextSlotIsFree ==
    ASSUME NEW n \in Nat, NEW m \in Nat, 0 < n, n < m, n + LogSize > m
    PROVE  (n - 1) % LogSize # (m - 1) % LogSize
<1>1. /\ LogSize \in Nat \ {0} /\ n - 1 \in Nat /\ m - 1 \in Nat
      /\ n - 1 < m - 1 /\ m - 1 < (n - 1) + LogSize
  BY LogAssumption
<1> QED BY <1>1, ModApart

\* The text of the writer that is alone.
LEMMA TextWritten ==
    ASSUME LogTypes, NEW w \in LogWriters, WriteText(w), Half(w), writer[w].at = "text"
    PROVE  /\ HoldsUpTo(puts - 1, puts)'
           /\ logBuf'[logWptr'].text = puts'
           /\ logBuf' \in [Slots -> [text : Nat, meta : Nat]]
<1>1. /\ logBuf' = [logBuf EXCEPT ![logWptr].text = puts] /\ logWptr' = logWptr /\ puts' = puts
      /\ logWptr = (puts - 1) % LogSize /\ puts \in Nat /\ puts > 0 /\ logWptr \in Slots
      /\ logBuf \in [Slots -> [text : Nat, meta : Nat]]
  BY DEF WriteText, Half, LogTypes
<1>2. logBuf' = [logBuf EXCEPT ![logWptr] = [logBuf[logWptr] EXCEPT !.text = puts]]
  BY <1>1
<1>3. logBuf' \in [Slots -> [text : Nat, meta : Nat]] /\ logBuf'[logWptr].text = puts
  BY <1>1, <1>2
<1>4. ASSUME NEW n \in 1..(puts - 1), n + LogSize > puts
      PROVE  logBuf'[(n - 1) % LogSize] = [text |-> n, meta |-> n]
  <2>1. n \in Nat /\ 0 < n /\ n < puts /\ n - 1 \in Nat
    BY <1>1
  <2>2. (n - 1) % LogSize # logWptr /\ (n - 1) % LogSize \in Slots
    BY <1>1, <1>4, <2>1, NextSlotIsFree, SlotIsInRing
  <2>3. logBuf[(n - 1) % LogSize] = [text |-> n, meta |-> n]
    BY <1>1, <1>4, LogAssumption DEF Half, HoldsUpTo
  <2> QED BY <1>1, <1>2, <2>2, <2>3
<1> QED BY <1>1, <1>3, <1>4 DEF HoldsUpTo

\* The meta of the writer that is alone, after its text.
LEMMA MetaWritten ==
    ASSUME LogTypes, NEW w \in LogWriters, WriteMeta(w), Half(w), writer[w].at = "meta"
    PROVE  /\ HoldsUpTo(puts, puts)'
           /\ logBuf' \in [Slots -> [text : Nat, meta : Nat]]
<1>1. /\ logBuf' = [logBuf EXCEPT ![logWptr].meta = puts] /\ logWptr' = logWptr /\ puts' = puts
      /\ logWptr = (puts - 1) % LogSize /\ puts \in Nat /\ puts > 0 /\ logWptr \in Slots
      /\ logBuf \in [Slots -> [text : Nat, meta : Nat]] /\ logBuf[logWptr].text = puts
  BY DEF WriteMeta, Half, LogTypes
<1>2. logBuf' = [logBuf EXCEPT ![logWptr] = [logBuf[logWptr] EXCEPT !.meta = puts]]
  BY <1>1
<1>3. /\ logBuf' \in [Slots -> [text : Nat, meta : Nat]]
      /\ logBuf'[(puts - 1) % LogSize] = [text |-> puts, meta |-> puts]
  BY <1>1, <1>2
<1>4. ASSUME NEW n \in 1..puts, n + LogSize > puts
      PROVE  logBuf'[(n - 1) % LogSize] = [text |-> n, meta |-> n]
  <2>1. CASE n = puts
    BY <1>3, <2>1
  <2>2. CASE n # puts
    <3>1. n \in Nat /\ 0 < n /\ n < puts /\ n - 1 \in Nat /\ n \in 1..(puts - 1)
      BY <1>1, <2>2
    <3>2. (n - 1) % LogSize # logWptr /\ (n - 1) % LogSize \in Slots
      BY <1>1, <1>4, <3>1, NextSlotIsFree, SlotIsInRing
    <3>3. logBuf[(n - 1) % LogSize] = [text |-> n, meta |-> n]
      BY <1>1, <1>4, <3>1 DEF Half, HoldsUpTo
    <3> QED BY <1>1, <1>2, <3>2, <3>3
  <2> QED BY <2>1, <2>2
<1> QED BY <1>1, <1>3, <1>4 DEF HoldsUpTo

\* Every step keeps the types.
LEMMA LogTypesKept ==
    ASSUME LogTypes, [LogNext]_logVars
    PROVE  LogTypes'
<1>1. ASSUME NEW w \in LogWriters, Put(w) \/ Write(w)
      PROVE  LogTypes'
  <2>1. CASE Put(w)
    <3>1. /\ writer' = [writer EXCEPT ![w] = [writer[w] EXCEPT !.at = "text", !.msg = puts + 1]]
          /\ puts' = puts + 1 /\ UNCHANGED <<logWptr, logCount, logBuf>>
      BY <2>1 DEF Put
    <3>2. writer[w] \in [at : WriterStep, msg : Nat, loaded : Nat] /\ puts + 1 \in Nat
      BY DEF LogTypes
    <3>3. [writer[w] EXCEPT !.at = "text", !.msg = puts + 1]
             \in [at : WriterStep, msg : Nat, loaded : Nat]
      BY <3>2 DEF WriterStep
    <3> QED BY <3>1, <3>2, <3>3 DEF LogTypes
  <2>2. CASE WriteText(w)
    <3>1. logBuf' = [logBuf EXCEPT ![logWptr] = [logBuf[logWptr] EXCEPT !.text = writer[w].msg]]
      BY <2>2 DEF WriteText
    <3> QED BY <2>2, <3>1 DEF WriteText, MoveTo, LogTypes, WriterStep
  <2>3. CASE WriteMeta(w)
    <3>1. logBuf' = [logBuf EXCEPT ![logWptr] = [logBuf[logWptr] EXCEPT !.meta = writer[w].msg]]
      BY <2>3 DEF WriteMeta
    <3> QED BY <2>3, <3>1 DEF WriteMeta, MoveTo, LogTypes, WriterStep
  <2>4. CASE LoadWptr(w)
    BY <2>4 DEF LoadWptr, LogTypes, WriterStep, Slots
  <2>5. CASE StoreWptr(w)
    <3>1. writer[w].loaded + 1 \in Nat
      BY DEF LogTypes
    <3>2. logWptr' \in Slots
      BY <2>5, <3>1, SlotIsInRing DEF StoreWptr
    <3>3. [Resting EXCEPT !.at = "release"] \in [at : WriterStep, msg : Nat, loaded : Nat]
      BY DEF Resting, WriterStep
    <3> QED BY <2>5, <3>2, <3>3 DEF StoreWptr, LogTypes
  <2>6. CASE Release(w)
    BY <2>6 DEF Release, MoveTo, LogTypes, WriterStep
  <2>7. CASE LoadCount(w)
    <3>1. writer' = [writer EXCEPT ![w] =
                        [writer[w] EXCEPT !.at = "storeCount", !.loaded = logCount]]
      BY <2>7 DEF LoadCount
    <3>2. [writer[w] EXCEPT !.at = "storeCount", !.loaded = logCount]
             \in [at : WriterStep, msg : Nat, loaded : Nat]
      BY DEF LogTypes, WriterStep
    <3> QED BY <2>7, <3>1, <3>2 DEF LoadCount, LogTypes
  <2>8. CASE StoreCount(w)
    <3>1. Resting \in [at : WriterStep, msg : Nat, loaded : Nat] /\ writer[w].loaded + 1 \in Nat
      BY DEF Resting, WriterStep, LogTypes
    <3> QED BY <2>8, <3>1 DEF StoreCount, LogTypes
  <2> QED BY <1>1, <2>1, <2>2, <2>3, <2>4, <2>5, <2>6, <2>7, <2>8 DEF Write
<1>2. CASE Display \/ UNCHANGED logVars
  BY <1>2 DEF Display, ReadCount, ReadWptr, GetMeta, GetText, Printed, logVars, LogTypes
<1> QED BY <1>1, <1>2 DEF LogNext

\* A step of the writer that is alone keeps what it has done so far.
LEMMA AloneStep ==
    ASSUME LogTypes, AloneInv, ~overlap, NEW w \in LogWriters, ~Idle(w), Write(w)
    PROVE  AloneInv'
<1>1. /\ \A v \in LogWriters : v # w => Idle(v)
      /\ Half(w) /\ UNCHANGED <<puts, overlap>>
      /\ \A v \in LogWriters : v # w => writer'[v] = writer[v]
  BY DEF AloneInv, Write, WriteText, WriteMeta, LoadWptr, StoreWptr, Release, LoadCount, StoreCount,
         MoveTo, LogTypes
<1>2. \A v \in LogWriters : v # w => Idle(v)'
  BY <1>1 DEF Idle
<1>3. (~Idle(w))' => Half(w)'
  <2>1. CASE WriteText(w)
    <3>1. /\ writer[w].at = "text" /\ writer'[w].at = "meta" /\ writer'[w].msg = writer[w].msg
          /\ UNCHANGED <<logWptr, logCount, puts>>
      BY <2>1 DEF WriteText, MoveTo, LogTypes
    <3>2. HoldsUpTo(puts - 1, puts)' /\ logBuf'[logWptr'].text = puts'
      BY <1>1, <2>1, <3>1, TextWritten
    <3> QED BY <1>1, <3>1, <3>2 DEF Half
  <2>2. CASE WriteMeta(w)
    <3>1. /\ writer[w].at = "meta" /\ writer'[w].at = "load"
          /\ UNCHANGED <<logWptr, logCount, puts>>
      BY <2>2 DEF WriteMeta, MoveTo, LogTypes
    <3>2. HoldsUpTo(puts, puts)'
      BY <1>1, <2>2, <3>1, MetaWritten
    <3> QED BY <1>1, <3>1, <3>2 DEF Half
  <2>3. CASE LoadWptr(w)
    <3>1. /\ writer[w].at = "load" /\ writer'[w].at = "store" /\ writer'[w].loaded = logWptr
          /\ UNCHANGED <<logWptr, logCount, logBuf, puts>>
      BY <2>3 DEF LoadWptr, LogTypes
    <3> QED BY <1>1, <3>1 DEF Half, HoldsUpTo
  <2>4. CASE StoreWptr(w)
    <3>1. /\ writer[w].at = "store" /\ writer'[w].at = "release"
          /\ logWptr' = (writer[w].loaded + 1) % LogSize
          /\ UNCHANGED <<logCount, logBuf, puts>>
      BY <2>4 DEF StoreWptr, LogTypes, Resting
    <3>2. logWptr' = puts % LogSize
      <4>1. puts - 1 \in Nat /\ (puts - 1) + 1 = puts /\ LogSize \in Nat \ {0}
        BY <1>1, LogAssumption DEF Half, LogTypes
      <4>2. writer[w].loaded = (puts - 1) % LogSize
        BY <1>1, <3>1 DEF Half
      <4> QED BY <3>1, <4>1, <4>2, ModNext
    <3> QED BY <1>1, <3>1, <3>2 DEF Half, HoldsUpTo
  <2>5. CASE Release(w)
    <3>1. /\ writer[w].at = "release" /\ writer'[w].at = "loadCount"
          /\ UNCHANGED <<logWptr, logCount, logBuf, puts>>
      BY <1>1, <2>5 DEF Release, MoveTo, LogTypes
    <3> QED BY <1>1, <3>1 DEF Half, HoldsUpTo
  <2>6. CASE LoadCount(w)
    <3>1. /\ writer[w].at = "loadCount" /\ writer'[w].at = "storeCount"
          /\ writer'[w].loaded = logCount
          /\ UNCHANGED <<logWptr, logCount, logBuf, puts>>
      BY <2>6 DEF LoadCount, LogTypes
    <3> QED BY <1>1, <3>1 DEF Half, HoldsUpTo
  <2>7. CASE StoreCount(w)
    BY <2>7 DEF StoreCount, Resting, Idle, LogTypes
  <2> QED BY <2>1, <2>2, <2>3, <2>4, <2>5, <2>6, <2>7 DEF Write
<1>4. Idle(w)' => HoldsLatest'
  <2> SUFFICES ASSUME Idle(w)' PROVE HoldsLatest'
    OBVIOUS
  <2>1. StoreCount(w)
    BY DEF Write, WriteText, WriteMeta, LoadWptr, StoreWptr, Release, LoadCount, MoveTo, Idle,
           Resting, LogTypes
  <2>2. /\ logCount' = writer[w].loaded + 1 /\ writer[w].at = "storeCount"
        /\ UNCHANGED <<logWptr, logBuf, puts>>
    BY <2>1 DEF StoreCount
  <2> QED BY <1>1, <2>2 DEF Half, HoldsLatest, HoldsUpTo, LogTypes
<1> QED BY <1>1, <1>2, <1>3, <1>4 DEF AloneInv

\* A message that comes when no writer is under way begins alone.
LEMMA PutStep ==
    ASSUME LogTypes, AloneInv, NEW w \in LogWriters, Put(w)
    PROVE  AloneInv'
<1> SUFFICES ASSUME ~overlap' PROVE AloneInv'
  BY DEF AloneInv
<1>1. /\ ~overlap /\ \A v \in LogWriters : Idle(v)
      /\ puts' = puts + 1 /\ UNCHANGED <<logWptr, logCount, logBuf>>
      /\ writer' = [writer EXCEPT ![w].at = "text", ![w].msg = puts + 1]
  BY DEF Put
<1>2. /\ writer'[w].at = "text" /\ writer'[w].msg = puts'
      /\ \A v \in LogWriters : v # w => writer'[v] = writer[v]
  BY <1>1 DEF LogTypes
<1>3. HoldsLatest
  BY <1>1 DEF AloneInv
<1>4. Half(w)'
  <2>1. puts' - 1 = puts /\ puts' > 0
    <3>1. puts \in Nat
      BY DEF LogTypes
    <3> QED BY <1>1, <3>1
  <2>2. HoldsUpTo(puts - 1, puts - 1)'
    BY <1>1, <1>3, <2>1 DEF HoldsLatest, HoldsUpTo
  <2> QED BY <1>1, <1>2, <1>3, <2>1, <2>2 DEF HoldsLatest, Half
<1> QED BY <1>1, <1>2, <1>4 DEF AloneInv, Idle

\* The invariants at the start.
LEMMA LogBegins ==
    ASSUME LogInit
    PROVE  LogTypes /\ AloneInv
<1>1. LogTypes
  BY LogAssumption DEF LogInit, LogTypes, WriterStep, Resting, Slots
<1>2. HoldsLatest
  BY LogAssumption DEF LogInit, HoldsLatest
<1>3. \A w \in LogWriters : Idle(w)
  BY DEF LogInit, Idle, Resting
<1> QED BY <1>1, <1>2, <1>3 DEF AloneInv

\* Every step keeps them.
LEMMA AloneKept ==
    ASSUME LogTypes, AloneInv, [LogNext]_logVars
    PROVE  LogTypes' /\ AloneInv'
<1>1. ASSUME NEW w \in LogWriters, Put(w) PROVE AloneInv'
  BY <1>1, PutStep
<1>2. ASSUME NEW w \in LogWriters, Write(w) PROVE AloneInv'
  <2>1. ~Idle(w) /\ overlap' = overlap
    BY <1>2 DEF Idle, Write, WriteText, WriteMeta, LoadWptr, StoreWptr, Release, LoadCount,
                StoreCount, MoveTo
  <2>2. CASE overlap
    BY <2>1, <2>2 DEF AloneInv
  <2> QED BY <1>2, <2>1, <2>2, AloneStep
<1>3. ASSUME Display \/ UNCHANGED logVars PROVE AloneInv'
  <2>1. UNCHANGED <<logWptr, logCount, logBuf, writer, puts, overlap>>
    BY <1>3 DEF Display, ReadCount, ReadWptr, GetMeta, GetText, Printed, logVars
  <2>2. \A w \in LogWriters : (Idle(w)' <=> Idle(w)) /\ (Half(w) => Half(w)')
    BY <2>1 DEF Half, HoldsUpTo, Idle
  <2>3. HoldsLatest => HoldsLatest'
    BY <2>1 DEF HoldsLatest
  <2>4. overlap' <=> overlap
    BY <2>1, Zenon
  <2> QED BY <2>1, <2>2, <2>3, <2>4 DEF AloneInv, Idle
<1> QED BY <1>1, <1>2, <1>3, LogTypesKept DEF LogNext

\* When s messages have passed the pointer, a refresh prints the last of them in their
\* order, whatever the count c was a moment before.
LEMMA EntriesAreLast ==
    ASSUME NEW s \in Nat, NEW c \in 0..s
    PROVE  LET e == Entries(c, s % LogSize)
           IN  /\ e \in Seq(Slots) /\ Len(e) <= s /\ Len(e) < LogSize
               /\ \A i \in 1..Len(e) : e[i] = (s - Len(e) + i - 1) % LogSize
<1> DEFINE wptr == s % LogSize
           q == s \div LogSize
           e == Entries(c, wptr)
<1>1. LogSize \in Nat \ {0} /\ LogLines \in Nat \ {0} /\ LogLines + 1 < LogSize
  BY LogAssumption
<1>2. s = LogSize * q + wptr /\ wptr \in 0..LogSize - 1 /\ q \in Nat
  BY <1>1, Division
<1> SUFFICES /\ e \in Seq(Slots) /\ Len(e) <= s /\ Len(e) < LogSize
             /\ \A i \in 1..Len(e) : e[i] = (s - Len(e) + i - 1) % LogSize
  OBVIOUS
<1> HIDE DEF wptr, q, e
<1>3. \A r \in 0..LogSize - 1 : (LogSize * q + r) % LogSize = r
  BY <1>1, <1>2, ModUnique
<1>4. CASE c <= LogLines
  <2>1. Smaller(LogLines, c) = c
    BY <1>1, <1>4 DEF Smaller
  <2>2. e = IF wptr = 0 THEN <<>> ELSE Span(0, wptr - 1)
    BY <1>1, <1>2, <1>4, <2>1 DEF Entries, e
  <2>3. CASE wptr = 0
    BY <1>1, <2>2, <2>3
  <2>4. CASE wptr # 0
    <3>1. Span(0, wptr - 1) = [i \in 1..wptr |-> i - 1]
      BY <1>1, <1>2 DEF Span
    <3>2. e \in Seq(Slots) /\ Len(e) = wptr /\ \A i \in 1..wptr : e[i] = i - 1
      BY <1>1, <1>2, <2>2, <2>4, <3>1 DEF Slots
    <3>3. LogSize * q \in Nat
      BY <1>1, <1>2
    <3>4. \A i \in 1..wptr : s - wptr + i - 1 = LogSize * q + (i - 1) /\ i - 1 \in 0..LogSize - 1
      BY <1>1, <1>2, <3>3
    <3>5. wptr <= s /\ wptr < LogSize
      BY <1>1, <1>2, <3>3
    <3> QED BY <1>3, <3>2, <3>4, <3>5
  <2> QED BY <2>3, <2>4
<1>5. CASE c > LogLines
  <2>1. Smaller(LogLines, c) = LogLines /\ s > LogLines /\ LogLines # LogSize
    BY <1>1, <1>5 DEF Smaller
  <2>2. CASE wptr >= LogLines
    <3>1. (wptr + LogSize - LogLines) % LogSize = wptr - LogLines
      <4>1. wptr + LogSize - LogLines = LogSize * 1 + (wptr - LogLines)
            /\ wptr - LogLines \in 0..LogSize - 1
        BY <1>1, <1>2, <2>2
      <4> QED BY <1>1, <4>1, ModUnique
    <3>2. e = Span(wptr - LogLines, wptr - 1)
      BY <1>1, <1>2, <1>5, <2>1, <2>2, <3>1 DEF Entries, e
    <3>3. Span(wptr - LogLines, wptr - 1) = [i \in 1..LogLines |-> wptr - LogLines + i - 1]
      BY <1>1, <1>2 DEF Span
    <3>4. \A i \in 1..LogLines : wptr - LogLines + i - 1 \in 0..LogSize - 1
      BY <1>1, <1>2, <2>2
    <3>5. e \in Seq(Slots) /\ Len(e) = LogLines
          /\ \A i \in 1..LogLines : e[i] = wptr - LogLines + i - 1
      BY <1>1, <3>2, <3>3, <3>4 DEF Slots
    <3>6. LogSize * q \in Nat
      BY <1>1, <1>2
    <3>7. \A i \in 1..LogLines :
             s - LogLines + i - 1 = LogSize * q + (wptr - LogLines + i - 1)
      BY <1>1, <1>2, <3>6
    <3>8. ASSUME NEW i \in 1..LogLines PROVE e[i] = (s - LogLines + i - 1) % LogSize
      BY <1>3, <3>4, <3>5, <3>7
    <3> QED BY <1>1, <2>1, <3>5, <3>8
  <2>3. CASE wptr < LogLines
    <3> DEFINE n == LogLines - wptr
               start == LogSize - n
               e1 == Span(start, LogSize - 1)
               e2 == IF wptr = 0 THEN <<>> ELSE Span(0, wptr - 1)
    <3>1. n \in 1..LogLines /\ start \in 1..LogSize - 1 /\ start > wptr
          /\ start = wptr + LogSize - LogLines
      BY <1>1, <1>2, <2>3
    <3>2. (wptr + LogSize - LogLines) % LogSize = start
      <4>1. wptr + LogSize - LogLines = LogSize * 0 + start /\ start \in 0..LogSize - 1
        BY <1>1, <3>1
      <4> QED BY <1>1, <4>1, ModUnique
    <3>3. e = e1 \o e2
      <4>1. ~(start <= wptr)
        BY <1>1, <1>2, <3>1
      <4>2. e = Span(start, LogSize - 1) \o (IF wptr = 0 THEN <<>> ELSE Span(0, wptr - 1))
        <5> HIDE DEF start
        <5> QED BY <1>1, <1>2, <1>5, <2>1, <3>2, <4>1 DEF Entries, e
      <4> QED BY <4>2
    <3>4. e1 = [i \in 1..n |-> start + i - 1]
      BY <1>1, <3>1 DEF Span
    <3>5. e2 = [i \in 1..wptr |-> i - 1]
      BY <1>1, <1>2 DEF Span
    <3> HIDE DEF n, start, e1, e2
    <3>6. e1 \in Seq(Slots) /\ Len(e1) = n
      <4>1. \A i \in 1..n : start + i - 1 \in Slots
        BY <1>1, <3>1 DEF Slots, start
      <4> QED BY <1>1, <3>1, <3>4, <4>1
    <3>7. e2 \in Seq(Slots) /\ Len(e2) = wptr
      BY <1>1, <1>2, <3>5 DEF Slots
    <3>8. e \in Seq(Slots) /\ Len(e) = LogLines
      <4>1. n + wptr = LogLines
        BY <1>1, <1>2 DEF n
      <4>2. e1 \o e2 \in Seq(Slots)
        BY <3>6, <3>7
      <4>3. Len(e1 \o e2) = Len(e1) + Len(e2)
        BY <3>6, <3>7
      <4> QED BY <3>3, <3>6, <3>7, <4>1, <4>2, <4>3
    <3>9. q >= 1
      BY <1>1, <1>2, <2>1, <2>3
    <3>10. /\ LogSize * q = LogSize * (q - 1) + LogSize
           /\ LogSize * (q - 1) \in Nat /\ LogSize * q \in Nat
      BY <1>1, <1>2, <3>9
    <3>11. ASSUME NEW i \in 1..LogLines PROVE e[i] = (s - LogLines + i - 1) % LogSize
      <4>1. CASE i <= n
        <5>1. e[i] = start + i - 1 /\ start + i - 1 \in 0..LogSize - 1
          BY <1>1, <3>1, <3>3, <3>4, <3>6, <3>7, <4>1 DEF start
        <5>2. s - LogLines + i - 1 = LogSize * (q - 1) + (start + i - 1)
          BY <1>1, <1>2, <3>1, <3>10
        <5>3. q - 1 \in Nat
          BY <1>2, <3>9
        <5> QED BY <1>1, <5>1, <5>2, <5>3, ModUnique
      <4>2. CASE i > n
        <5>1. e[i] = i - n - 1 /\ i - n - 1 \in 0..LogSize - 1
          BY <1>1, <1>2, <3>1, <3>3, <3>5, <3>6, <3>7, <4>2 DEF n
        <5>2. s - LogLines + i - 1 = LogSize * q + (i - n - 1)
          BY <1>1, <1>2, <3>1, <3>10 DEF n
        <5> QED BY <1>3, <5>1, <5>2
      <4> QED BY <3>1, <4>1, <4>2
    <3> QED BY <1>1, <2>1, <3>8, <3>11
  <2> QED BY <1>1, <1>2, <2>2, <2>3
<1> QED BY <1>1, <1>4, <1>5

LogLine == [text : Nat, meta : Nat]
DisplayTypes ==
    display \in [at : {"idle", "wptr", "print", "text"}, count : Nat, lines : Seq(LogLine),
                 todo : Seq(Slots), seen : Nat]

\* The lines that are done, of those of the refresh: the next is of message
\* seen - Lines + Done + 1.
Done == Len(display.lines) - (IF display.at = "text" THEN 1 ELSE 0)
Lines == Done + Len(display.todo)
NotRound == puts + Lines <= display.seen + LogSize

PrintInv ==
    /\ display.at = "wptr" => display.count <= Passed
    /\ display.at \in {"idle", "wptr"} => display.lines = <<>>
    /\ display.at \in {"print", "text"} =>
          /\ Lines <= display.seen /\ Lines < LogSize /\ display.seen <= Passed
          /\ \A i \in 1..Len(display.todo) :
                display.todo[i] = (display.seen - Lines + Done + i - 1) % LogSize
          /\ NotRound => \A i \in 1..Done : display.lines[i].text = display.lines[i].meta
    /\ display.at = "text" =>
          /\ display.todo # <<>> /\ display.lines # <<>>
          /\ NotRound => display.lines[Len(display.lines)].meta = display.seen - Lines + Done + 1

\* The pointer and the count, as far as the messages have passed.
LEMMA PassedMessages ==
    ASSUME LogTypes, AloneInv, ~overlap
    PROVE  /\ Passed \in Nat /\ Passed <= puts /\ puts <= Passed + 1
           /\ logWptr = Passed % LogSize /\ logCount <= Passed
<1>1. CASE \A w \in LogWriters : Idle(w)
  <2>1. HoldsLatest
    BY <1>1 DEF AloneInv
  <2>2. Passed = puts
    BY <1>1 DEF Passed, Idle, LogTypes
  <2> QED BY <2>1, <2>2 DEF HoldsLatest, LogTypes
<1>2. CASE \E w \in LogWriters : ~Idle(w)
  <2>1. PICK w \in LogWriters : ~Idle(w)
    BY <1>2
  <2>2. Half(w) /\ \A v \in LogWriters : v # w => Idle(v)
    BY <2>1 DEF AloneInv
  <2>3. writer[w].at \in WriterStep \ {"idle"}
    BY <2>1 DEF LogTypes, Idle
  <2>4. CASE writer[w].at \in {"text", "meta", "load", "store"}
    <3>1. Passed = puts - 1
      BY <2>4 DEF Passed
    <3> QED BY <2>2, <2>4, <3>1 DEF Half, LogTypes
  <2>5. CASE writer[w].at \in {"release", "loadCount", "storeCount"}
    <3>1. Passed = puts
      BY <2>2, <2>5 DEF Passed, Idle, LogTypes
    <3> QED BY <2>2, <2>5, <3>1 DEF Half, LogTypes
  <2> QED BY <2>3, <2>4, <2>5 DEF WriterStep
<1> QED BY <1>1, <1>2

\* A message that the pointer has passed is in its slot until the writers come round to it.
LEMMA MessageInSlot ==
    ASSUME LogTypes, AloneInv, ~overlap, NEW j \in 1..Passed, puts < j + LogSize
    PROVE  logBuf[(j - 1) % LogSize] = [text |-> j, meta |-> j]
<1>1. LogSize \in Nat \ {0} /\ puts \in Nat
  BY LogAssumption DEF LogTypes
<1>2. CASE \A w \in LogWriters : Idle(w)
  BY <1>1, <1>2, PassedMessages DEF AloneInv, HoldsLatest
<1>3. CASE \E w \in LogWriters : ~Idle(w)
  <2>1. PICK w \in LogWriters : ~Idle(w)
    BY <1>3
  <2>2. Half(w) /\ \A v \in LogWriters : v # w => Idle(v)
    BY <2>1 DEF AloneInv
  <2>3. CASE writer[w].at \in {"text", "meta"}
    <3>1. Passed = puts - 1
      BY <2>3 DEF Passed
    <3>2. j \in 1..(puts - 1) /\ j + LogSize > puts /\ j + LogSize > puts - 1
      BY <1>1, <3>1
    <3> QED BY <2>2, <2>3, <3>2 DEF Half, HoldsUpTo
  <2>4. CASE writer[w].at \notin {"text", "meta"}
    <3>1. j \in 1..puts /\ j + LogSize > puts
      BY <1>1, PassedMessages
    <3> QED BY <2>2, <2>4, <3>1 DEF Half, HoldsUpTo
  <2> QED BY <2>3, <2>4
<1> QED BY <1>2, <1>3


\* What the pointer has passed stays passed.
LEMMA PassedGrows ==
    ASSUME LogTypes, AloneInv, ~overlap, NEW w \in LogWriters, Put(w) \/ Write(w)
    PROVE  puts <= puts' /\ puts' \in Nat /\ Passed <= Passed' /\ Passed' \in Nat
<1> DEFINE Writing == {"text", "meta", "load", "store"}
<1>1. /\ Passed = puts - (IF \E v \in LogWriters : writer[v].at \in Writing THEN 1 ELSE 0)
      /\ Passed' = puts' - (IF \E v \in LogWriters : writer'[v].at \in Writing THEN 1 ELSE 0)
      /\ puts \in Nat
  BY DEF Passed, LogTypes
<1>2. CASE Put(w)
  BY <1>1, <1>2, PassedMessages DEF Put
<1>3. CASE Write(w)
  <2>1. /\ puts' = puts /\ \A v \in LogWriters : v # w => writer'[v] = writer[v]
        /\ writer'[w].at \in Writing => writer[w].at \in Writing
    BY <1>3 DEF Write, WriteText, WriteMeta, LoadWptr, StoreWptr, Release, LoadCount, StoreCount,
           MoveTo, LogTypes, Resting
  <2>2. (\E v \in LogWriters : writer'[v].at \in Writing)
           => \E v \in LogWriters : writer[v].at \in Writing
    BY <2>1
  <2> HIDE DEF Writing
  <2>3. puts > 0 \/ ~(\E v \in LogWriters : writer[v].at \in Writing)
    <3>1. ASSUME NEW v \in LogWriters, writer[v].at \in Writing
          PROVE  puts > 0
      <4>1. ~Idle(v)
        BY <3>1 DEF Idle, Writing
      <4> QED BY <4>1 DEF AloneInv, Half
    <3> QED BY <3>1
  <2> QED BY <1>1, <2>1, <2>2, <2>3
<1> QED BY <1>2, <1>3

\* A step of a writer leaves the refresh as it is.
LEMMA WritersLeaveScreen ==
    ASSUME LogTypes, AloneInv, ~overlap, DisplayTypes, PrintInv,
           NEW w \in LogWriters, Put(w) \/ Write(w)
    PROVE  DisplayTypes' /\ PrintInv'
<1>1. UNCHANGED display
  BY DEF Put, Write, WriteText, WriteMeta, LoadWptr, StoreWptr, Release, LoadCount, StoreCount,
         displayVars
<1>2. /\ puts \in Nat /\ Passed \in Nat /\ Done \in Int /\ Lines \in Int
      /\ display.seen \in Nat /\ display.count \in Nat
  BY PassedMessages DEF LogTypes, DisplayTypes, Done, Lines
<1>3. Done' = Done /\ Lines' = Lines
  BY <1>1 DEF Done, Lines
<1>4. NotRound' => NotRound
  BY <1>1, <1>2, <1>3, PassedGrows, LogAssumption DEF NotRound
<1>5. /\ display.count <= Passed => display.count <= Passed'
      /\ display.seen <= Passed => display.seen <= Passed'
  BY <1>2, PassedGrows
<1> QED BY <1>1, <1>3, <1>4, <1>5 DEF DisplayTypes, PrintInv

\* The count and the pointer are read: the last lines are still to do.
LEMMA RefreshBegins ==
    ASSUME LogTypes, AloneInv, ~overlap, DisplayTypes, PrintInv,
           NEW repaint \in BOOLEAN, ReadWptr(repaint)
    PROVE  DisplayTypes' /\ PrintInv'
<1>1. /\ display.at = "wptr" /\ display.lines = <<>> /\ display.count \in 0..Passed
      /\ UNCHANGED <<writer, puts, logWptr>>
      /\ Passed \in Nat
  BY PassedMessages DEF ReadWptr, PrintInv, DisplayTypes
<1>2. Passed' = Passed
  BY <1>1 DEF Passed
<1>3. CASE display' = [display EXCEPT !.at = "idle", !.count = 0]
  BY <1>1, <1>3 DEF DisplayTypes, PrintInv
<1>4. CASE display' = [at |-> "print", count |-> 0, lines |-> <<>>,
                       todo |-> Entries(display.count, logWptr), seen |-> Passed]
  <2> DEFINE e == Entries(display.count, logWptr)
  <2>1. /\ e \in Seq(Slots) /\ Len(e) <= Passed /\ Len(e) < LogSize
        /\ \A i \in 1..Len(e) : e[i] = (Passed - Len(e) + i - 1) % LogSize
    BY <1>1, PassedMessages, EntriesAreLast
  <2> HIDE DEF e
  <2>2. display' = [at |-> "print", count |-> 0, lines |-> <<>>, todo |-> e, seen |-> Passed]
    BY <1>4 DEF e
  <2>3. Done' = 0 /\ Lines' = Len(e)
    BY <2>1, <2>2 DEF Done, Lines
  <2>4. DisplayTypes'
    BY <1>1, <2>1, <2>2 DEF DisplayTypes
  <2>5. \A i \in 1..Len(e) : e[i] = (Passed - Len(e) + 0 + i - 1) % LogSize
    <3>1. \A i \in 1..Len(e) : Passed - Len(e) + 0 + i - 1 = Passed - Len(e) + i - 1
      BY <1>1, <2>1
    <3> QED BY <2>1, <3>1
  <2> QED BY <1>1, <1>2, <2>1, <2>2, <2>3, <2>4, <2>5 DEF PrintInv
<1> QED BY <1>3, <1>4 DEF ReadWptr

\* The first entry to do, and its message.
LEMMA NextMessage ==
    ASSUME LogTypes, AloneInv, ~overlap, DisplayTypes, PrintInv,
           display.at \in {"print", "text"}, display.todo # <<>>
    PROVE  LET j == display.seen - Lines + Done + 1
           IN  /\ j \in 1..Passed /\ Head(display.todo) = (j - 1) % LogSize
               /\ NotRound => logBuf[Head(display.todo)] = [text |-> j, meta |-> j]
<1> DEFINE j == display.seen - Lines + Done + 1
<1>1. /\ Len(display.todo) \in Nat \ {0} /\ Len(display.lines) \in Nat /\ display.seen \in Nat
      /\ Head(display.todo) = display.todo[1] /\ Passed \in Nat /\ puts \in Nat
      /\ LogSize \in Nat
  BY PassedMessages, LogAssumption DEF DisplayTypes, LogTypes
<1>2. /\ Done \in Nat /\ Lines \in Nat /\ Done < Lines /\ Lines <= display.seen
      /\ display.seen <= Passed
  <2>1. display.at = "text" => Len(display.lines) > 0
    BY <1>1 DEF PrintInv, DisplayTypes
  <2>2. Done \in Nat
    BY <1>1, <2>1 DEF Done
  <2>3. Lines = Done + Len(display.todo)
    BY DEF Lines
  <2>4. Lines <= display.seen /\ display.seen <= Passed
    BY DEF PrintInv
  <2> QED BY <1>1, <2>2, <2>3, <2>4
<1>3. j \in 1..Passed
  BY <1>1, <1>2
<1>4. Head(display.todo) = (j - 1) % LogSize
  <2>1. display.todo[1] = (display.seen - Lines + Done + 1 - 1) % LogSize
    BY <1>1 DEF PrintInv
  <2>2. j - 1 = display.seen - Lines + Done + 1 - 1
    BY <1>1, <1>2
  <2> HIDE DEF j
  <2> QED BY <1>1, <2>1, <2>2
<1>5. NotRound => puts < j + LogSize
  BY <1>1, <1>2 DEF NotRound
<1> HIDE DEF j
<1>6. NotRound => logBuf[(j - 1) % LogSize] = [text |-> j, meta |-> j]
  BY <1>3, <1>5, MessageInSlot
<1> QED BY <1>3, <1>4, <1>6 DEF j

\* log_get, its first half.
LEMMA MetaRead ==
    ASSUME LogTypes, AloneInv, ~overlap, DisplayTypes, PrintInv, GetMeta
    PROVE  DisplayTypes' /\ PrintInv'
<1> DEFINE new == [text |-> 0, meta |-> logBuf[Head(display.todo)].meta]
           lines == Append(display.lines, new)
<1>1. /\ display.at = "print" /\ display.todo # <<>> /\ UNCHANGED <<writer, puts, logBuf>>
      /\ display' = [display EXCEPT !.at = "text", !.lines = lines]
      /\ display.lines \in Seq(LogLine) /\ display.todo \in Seq(Slots) /\ display.seen \in Nat
  BY DEF GetMeta, DisplayTypes
<1>2. Head(display.todo) \in Slots
  BY <1>1
<1>3. new \in LogLine
  BY <1>2 DEF LogLine, LogTypes
<1> HIDE DEF new
<1>4. /\ lines \in Seq(LogLine) /\ Len(lines) = Len(display.lines) + 1 /\ lines # <<>>
      /\ \A i \in 1..Len(display.lines) : lines[i] = display.lines[i]
      /\ lines[Len(lines)] = new
  BY <1>1, <1>3
<1> HIDE DEF lines
<1>5. DisplayTypes'
  BY <1>1, <1>4 DEF DisplayTypes
<1>10. /\ display'.at = "text" /\ display'.lines = lines /\ display'.todo = display.todo
       /\ display'.seen = display.seen
  BY <1>1 DEF DisplayTypes
<1>6. Done = Len(display.lines) /\ Done' = Done /\ Lines' = Lines /\ Done \in Nat
  <2>1. Done = Len(display.lines) /\ Len(display.lines) \in Nat
    BY <1>1 DEF Done
  <2>2. Done' = Len(lines) - 1
    BY <1>10 DEF Done
  <2>3. Done' = Done
    BY <1>4, <2>1, <2>2
  <2> QED BY <1>10, <2>1, <2>3 DEF Lines
<1>7. Passed' = Passed /\ (NotRound' <=> NotRound)
  BY <1>1, <1>6 DEF Passed, NotRound, DisplayTypes
<1>8. NotRound => new.meta = display.seen - Lines + Done + 1
  BY <1>1, NextMessage DEF new
<1>9. NotRound => \A i \in 1..Done : lines[i].text = lines[i].meta
  BY <1>1, <1>4, <1>6 DEF PrintInv
<1>11. /\ Lines <= display.seen /\ Lines < LogSize /\ display.seen <= Passed
       /\ \A i \in 1..Len(display.todo) :
             display.todo[i] = (display.seen - Lines + Done + i - 1) % LogSize
  BY <1>1 DEF PrintInv
<1> QED BY <1>1, <1>4, <1>5, <1>6, <1>7, <1>8, <1>9, <1>10, <1>11 DEF PrintInv

\* Its second half: the line is done.
LEMMA TextRead ==
    ASSUME LogTypes, AloneInv, ~overlap, DisplayTypes, PrintInv, GetText
    PROVE  DisplayTypes' /\ PrintInv'
<1> DEFINE n == Len(display.lines)
           new == [display.lines[n] EXCEPT !.text = logBuf[Head(display.todo)].text]
           lines == [display.lines EXCEPT ![n] = new]
<1>1. /\ display.at = "text" /\ display.todo # <<>> /\ display.lines # <<>>
      /\ UNCHANGED <<writer, puts, logBuf>>
      /\ display.lines \in Seq(LogLine) /\ display.todo \in Seq(Slots) /\ display.seen \in Nat
  BY DEF GetText, DisplayTypes, PrintInv
<1>2. display' = [display EXCEPT !.at = "print", !.todo = Tail(display.todo), !.lines = lines]
  BY <1>1 DEF GetText
<1>3. n \in 1..n /\ n \in Nat /\ display.lines[n] \in LogLine /\ Head(display.todo) \in Slots
  BY <1>1
<1>4. new \in LogLine /\ new.meta = display.lines[n].meta
      /\ new.text = logBuf[Head(display.todo)].text
  BY <1>3 DEF LogLine, LogTypes
<1> HIDE DEF new
<1>5. /\ lines \in Seq(LogLine) /\ Len(lines) = n /\ lines[n] = new
      /\ \A i \in 1..n - 1 : lines[i] = display.lines[i]
  BY <1>1, <1>3, <1>4
<1>6. /\ Tail(display.todo) \in Seq(Slots) /\ Len(Tail(display.todo)) = Len(display.todo) - 1
      /\ \A i \in 1..Len(display.todo) - 1 : Tail(display.todo)[i] = display.todo[i + 1]
      /\ Len(display.todo) \in Nat \ {0}
  BY <1>1
<1> HIDE DEF lines
<1>7. /\ display'.at = "print" /\ display'.lines = lines /\ display'.todo = Tail(display.todo)
      /\ display'.seen = display.seen
  BY <1>2 DEF DisplayTypes
<1>8. DisplayTypes'
  BY <1>2, <1>5, <1>6 DEF DisplayTypes
<1>9. Done = n - 1 /\ Done' = n /\ Lines' = Lines /\ Lines \in Int
  <2>1. Done = n - 1 /\ Done' = n - 0 /\ n \in Nat
    BY <1>1, <1>3, <1>5, <1>7 DEF Done
  <2>2. Lines = Done + Len(display.todo) /\ Lines' = Done' + Len(Tail(display.todo))
    BY <1>7 DEF Lines
  <2> HIDE DEF n
  <2>3. Lines' = Lines
    BY <1>6, <2>1, <2>2
  <2> QED BY <1>6, <2>1, <2>2, <2>3
<1>10. Passed' = Passed /\ (NotRound' <=> NotRound)
  BY <1>1, <1>7, <1>9 DEF Passed, NotRound
<1>11. NotRound => lines[n].text = lines[n].meta
  <2>1. NotRound => display.lines[n].meta = display.seen - Lines + Done + 1
    BY <1>1 DEF PrintInv
  <2>2. NotRound => logBuf[Head(display.todo)].text = display.seen - Lines + Done + 1
    BY <1>1, NextMessage
  <2> QED BY <1>4, <1>5, <2>1, <2>2
<1>12. NotRound => \A i \in 1..n : lines[i].text = lines[i].meta
  <2>1. NotRound => \A i \in 1..n - 1 : display.lines[i].text = display.lines[i].meta
    BY <1>1, <1>9 DEF PrintInv
  <2>2. \A i \in 1..n : i \in 1..n - 1 \/ i = n
    BY <1>3
  <2> HIDE DEF n
  <2> QED BY <1>5, <1>11, <2>1, <2>2
<1>13. \A i \in 1..Len(Tail(display.todo)) :
          Tail(display.todo)[i] = (display.seen - Lines + n + i - 1) % LogSize
  <2> TAKE i \in 1..Len(Tail(display.todo))
  <2>1. i + 1 \in 1..Len(display.todo) /\ Tail(display.todo)[i] = display.todo[i + 1]
    BY <1>6
  <2>2. display.todo[i + 1] = (display.seen - Lines + Done + (i + 1) - 1) % LogSize
    BY <1>1, <2>1 DEF PrintInv
  <2>3. display.seen - Lines + Done + (i + 1) - 1 = display.seen - Lines + n + i - 1
    <3>1. i \in Int /\ display.seen \in Int /\ Lines \in Int /\ n \in Int /\ Done = n - 1
      BY <1>1, <1>3, <1>6, <1>9
    <3>2. display.seen - Lines + (n - 1) + (i + 1) - 1 = display.seen - Lines + n + i - 1
      <4> DEFINE seen == display.seen
      <4> HIDE DEF n, seen
      <4>0. seen \in Int /\ Lines \in Int /\ n \in Int /\ i \in Int
        BY <3>1 DEF seen
      <4>1. seen - Lines + (n - 1) + (i + 1) - 1 = seen - Lines + n + i - 1
        BY <4>0
      <4> QED BY <4>1 DEF seen
    <3> QED BY <3>1, <3>2
  <2> QED BY <2>1, <2>2, <2>3
<1>14. Lines <= display.seen /\ Lines < LogSize /\ display.seen <= Passed
  BY <1>1 DEF PrintInv
<1> QED BY <1>7, <1>8, <1>9, <1>10, <1>12, <1>13, <1>14 DEF PrintInv

\* The screen has no torn line, whatever its size and that of the ring, of the lines that the
\* writers have not come round to.
THEOREM LinesAreWhole == LogSpec => [](LogHoldsLatest /\ LinesWhole)
<1> DEFINE ScreenInv == LogTypes /\ AloneInv /\ (~overlap => DisplayTypes /\ PrintInv)
<1>1. ASSUME LogInit PROVE DisplayTypes /\ PrintInv
  BY <1>1 DEF LogInit, DisplayTypes, PrintInv
<1>2. ASSUME ScreenInv, [LogNext]_logVars PROVE ~overlap' => DisplayTypes' /\ PrintInv'
  <2> SUFFICES ASSUME ~overlap' PROVE DisplayTypes' /\ PrintInv'
    OBVIOUS
  <2>1. ~overlap
    BY <1>2 DEF LogNext, Put, Write, WriteText, WriteMeta, LoadWptr, StoreWptr, Release,
       LoadCount, StoreCount, Display, ReadCount, ReadWptr, GetMeta, GetText, Printed, logVars
  <2>2. LogTypes /\ AloneInv /\ DisplayTypes /\ PrintInv
    BY <1>2, <2>1
  <2>3. CASE ReadCount
    <3>1. /\ display.at = "idle" /\ display' = [display EXCEPT !.at = "wptr", !.count = logCount]
          /\ UNCHANGED <<writer, puts>>
      BY <2>3 DEF ReadCount
    <3>2. Passed' = Passed /\ logCount <= Passed /\ logCount \in Nat
      BY <2>1, <2>2, <3>1, PassedMessages DEF Passed, LogTypes
    <3> QED BY <2>2, <3>1, <3>2 DEF DisplayTypes, PrintInv
  <2>4. CASE Printed
    <3>1. display' = [display EXCEPT !.at = "idle", !.count = 0, !.lines = <<>>]
      BY <2>4 DEF Printed
    <3>2. /\ display'.at = "idle" /\ display'.lines = <<>>
          /\ DisplayTypes'
      <4>1. <<>> \in Seq(LogLine)
        OBVIOUS
      <4>2. display \in [at : {"idle", "wptr", "print", "text"}, count : Nat, lines : Seq(LogLine),
                         todo : Seq(Slots), seen : Nat]
        BY <2>2 DEF DisplayTypes
      <4> QED BY <3>1, <4>1, <4>2 DEF DisplayTypes
    <3> QED BY <3>2 DEF PrintInv
  <2>5. CASE UNCHANGED logVars
    <3>1. UNCHANGED <<display, writer, puts>>
      BY <2>5 DEF logVars
    <3> QED BY <2>2, <3>1 DEF DisplayTypes, PrintInv, Passed, NotRound, Done, Lines
  <2> QED BY <1>2, <2>1, <2>2, <2>3, <2>4, <2>5, WritersLeaveScreen, RefreshBegins, MetaRead,
             TextRead DEF LogNext, Display
<1>3. ASSUME LogTypes, AloneInv, ~overlap => DisplayTypes /\ PrintInv PROVE LinesWhole
  <2> SUFFICES ASSUME ~overlap, puts + Printing <= display.seen + LogSize,
                      NEW i \in DOMAIN display.lines, display.at = "text" => i < Len(display.lines)
               PROVE  display.lines[i].text = display.lines[i].meta
    BY DEF LinesWhole
  <2>1. /\ display.lines \in Seq(LogLine) /\ Len(display.lines) \in Nat /\ Len(display.todo) \in Nat
        /\ i \in 1..Len(display.lines) /\ puts \in Nat /\ LogSize \in Nat /\ display.seen \in Nat
    BY <1>3, LogAssumption DEF DisplayTypes, LogTypes
  <2>2. display.lines # <<>>
    BY <2>1
  <2>3. display.at \in {"print", "text"}
    BY <1>3, <2>2 DEF PrintInv, DisplayTypes
  <2>4. NotRound /\ i \in 1..Done
    <3>1. CASE display.at = "text"
      <4>1. Done = Len(display.lines) - 1
        BY <2>1, <3>1 DEF Done
      <4>2. i < Len(display.lines)
        BY <3>1
      <4>3. Lines = Len(display.lines) - 1 + Len(display.todo)
        BY <4>1 DEF Lines
      <4>4. puts + (Len(display.lines) + Len(display.todo)) <= display.seen + LogSize
        BY DEF Printing
      <4>5. NotRound
        <5> DEFINE printed == Len(display.lines)
                   left == Len(display.todo)
                   seen == display.seen
        <5>1. printed \in Int /\ left \in Int /\ seen \in Int /\ puts \in Int /\ LogSize \in Int
          BY <2>1
        <5>2. puts + (printed + left) <= seen + LogSize /\ Lines = printed - 1 + left
          BY <4>3, <4>4
        <5> HIDE DEF printed, left, seen
        <5>3. puts + Lines <= seen + LogSize
          BY <5>1, <5>2
        <5> QED BY <5>3 DEF NotRound, seen
      <4> QED BY <2>1, <4>1, <4>2, <4>5
    <3>2. CASE display.at # "text"
      <4>1. Done = Len(display.lines)
        BY <2>1, <3>2 DEF Done
      <4> QED BY <2>1, <4>1 DEF NotRound, Lines, Printing
    <3> QED BY <3>1, <3>2
  <2> QED BY <1>3, <2>3, <2>4 DEF PrintInv
<1>4. ASSUME LogTypes, AloneInv PROVE LogHoldsLatest
  BY <1>4 DEF AloneInv, LogHoldsLatest
<1>5. LogInit => ScreenInv
  BY <1>1, LogBegins
<1>6. ScreenInv /\ [LogNext]_logVars => ScreenInv'
  BY <1>2, AloneKept
<1>7. ScreenInv => LogHoldsLatest /\ LinesWhole
  BY <1>3, <1>4
<1> QED BY <1>5, <1>6, <1>7, PTL DEF LogSpec

-----------------------------------------------------------------------------
(* LogBuffer: its types, whatever overlaps                                 *)

\* The messages that are counted, and with those under way the messages put: two writers
\* that overlap may count both for one, never one for two.
PutsCounted ==
    /\ ~overlap => \A v, w \in LogWriters : ~Idle(v) /\ ~Idle(w) => v = w
    /\ \A u, v, w \in LogWriters : ~Idle(u) /\ ~Idle(v) /\ ~Idle(w) => u = v \/ u = w \/ v = w
    /\ logCount <= puts
    /\ \A w \in LogWriters : ~Idle(w) =>
          logCount + 1 <= puts /\ (writer[w].at = "storeCount" => writer[w].loaded + 1 <= puts)
    /\ \A v, w \in LogWriters : v # w /\ ~Idle(v) /\ ~Idle(w) =>
          logCount + 2 <= puts /\ (writer[w].at = "storeCount" => writer[w].loaded + 2 <= puts)

DisplayRecord ==
    /\ display \in [at : {"idle", "wptr", "print", "text"}, count : Message, lines : Seq(Entry),
                    todo : Seq(Slots), seen : Message]
    /\ display.at = "text" => display.todo # <<>> /\ display.lines # <<>>

LogTypeInv == LogTypeOK /\ DisplayRecord /\ PutsCounted

\* Places of the ring in a row, and the places that a refresh prints.
LEMMA SpanInRing ==
    ASSUME NEW from \in Slots, NEW to \in Slots \cup {from - 1}, from <= to + 1
    PROVE  Span(from, to) \in Seq(Slots)
<1>1. from \in Nat /\ to \in Int /\ to < LogSize /\ LogSize \in Nat
  BY LogAssumption DEF Slots
<1>2. to + 1 - from \in Nat /\ \A i \in 1..(to + 1 - from) : from + i - 1 \in Slots
  BY <1>1 DEF Slots
<1> QED BY <1>2 DEF Span

LEMMA EntriesInRing ==
    ASSUME NEW count \in Nat, NEW wptr \in Slots
    PROVE  Entries(count, wptr) \in Seq(Slots)
<1> DEFINE lines == Smaller(LogLines, count)
           start == IF count > lines THEN (wptr + LogSize - lines) % LogSize ELSE 0
           upTo  == IF wptr = 0 THEN <<>> ELSE Span(0, wptr - 1)
<1>1. LogSize \in Nat /\ LogSize > 0 /\ wptr \in Nat /\ wptr < LogSize
  BY LogAssumption DEF Slots
<1>2. lines \in Nat /\ lines < LogSize
  BY LogAssumption DEF Smaller
<1>3. start \in Slots
  <2>1. wptr + LogSize - lines \in Nat
    BY <1>1, <1>2
  <2> HIDE DEF lines
  <2> QED BY <1>1, <2>1, SlotIsInRing DEF Slots
<1>4. upTo \in Seq(Slots)
  <2>1. CASE wptr # 0
    <3>1. 0 \in Slots /\ wptr - 1 \in Slots /\ 0 <= (wptr - 1) + 1
      BY <1>1, <2>1 DEF Slots
    <3> QED BY <2>1, <3>1, SpanInRing
  <2> QED BY <2>1
<1>5. Entries(count, wptr) = IF start <= wptr /\ lines # LogSize
                             THEN IF start = wptr THEN <<>> ELSE Span(start, wptr - 1)
                             ELSE Span(start, LogSize - 1) \o upTo
  BY DEF Entries
<1> HIDE DEF lines, start, upTo
<1>6. CASE start <= wptr
  <2>1. CASE start # wptr
    <3>1. wptr - 1 \in Slots /\ start <= (wptr - 1) + 1
      BY <1>1, <1>3, <1>6, <2>1 DEF Slots
    <3> QED BY <1>2, <1>3, <1>5, <1>6, <2>1, <3>1, SpanInRing
  <2> QED BY <1>2, <1>5, <1>6, <2>1
<1>7. CASE ~(start <= wptr)
  <2>1. LogSize - 1 \in Slots /\ start <= (LogSize - 1) + 1
    BY <1>1, <1>3 DEF Slots
  <2>2. Span(start, LogSize - 1) \in Seq(Slots)
    BY <1>3, <2>1, SpanInRing
  <2> QED BY <1>4, <1>5, <1>7, <2>2
<1> QED BY <1>6, <1>7

\* A message that is put: there was one writer at most under way.
LEMMA PutCounts ==
    ASSUME LogTypeInv, NEW w \in LogWriters, Put(w)
    PROVE  LogTypeInv'
<1>1. /\ Idle(w) /\ ~overlap /\ puts < MaxPuts /\ puts' = puts + 1 /\ bufSem' = 0
      /\ writer' = [writer EXCEPT ![w] = [writer[w] EXCEPT !.at = "text", !.msg = puts + 1]]
      /\ overlap' = (overlap \/ \E v \in LogWriters : ~Idle(v))
      /\ UNCHANGED <<logWptr, logCount, logBuf, display, oldWptr, shown, missed>>
  BY DEF Put, displayVars
<1>2. puts \in Nat /\ logCount \in Nat /\ MaxPuts \in Nat /\ puts' \in Message
  BY <1>1, LogAssumption DEF LogTypeInv, LogTypeOK, Message
<1>3. overlap' \in BOOLEAN
  BY <1>1, Zenon
<1>4. writer[w] \in [at : WriterStep, msg : Message, loaded : Nat]
  BY DEF LogTypeInv, LogTypeOK, WriterStep
<1>5. writer' \in [LogWriters -> [at : WriterStep, msg : Message, loaded : Nat]]
  <2>1. [writer[w] EXCEPT !.at = "text", !.msg = puts + 1]
           \in [at : WriterStep, msg : Message, loaded : Nat]
    BY <1>1, <1>2, <1>4 DEF WriterStep
  <2> QED BY <1>1, <2>1 DEF LogTypeInv, LogTypeOK, WriterStep
<1>6. LogTypeOK'
  BY <1>1, <1>2, <1>3, <1>5 DEF LogTypeInv, LogTypeOK, WriterStep
<1>7. /\ writer'[w].at = "text" /\ \A v \in LogWriters : v # w => writer'[v] = writer[v]
      /\ \A v \in LogWriters : writer[v].loaded \in Nat
  BY <1>1, <1>4 DEF LogTypeInv, LogTypeOK
<1>8. /\ \A v \in LogWriters : v # w => (Idle(v)' <=> Idle(v))
      /\ ~Idle(w)'
  BY <1>7 DEF Idle
<1>9. \A u, v \in LogWriters : ~Idle(u) /\ ~Idle(v) => u = v
  BY <1>1 DEF LogTypeInv, PutsCounted
<1>10. \A v \in LogWriters : ~Idle(v) =>
          logCount + 1 <= puts /\ (writer[v].at = "storeCount" => writer[v].loaded + 1 <= puts)
  BY DEF LogTypeInv, PutsCounted
<1>11. PutsCounted'
  <2>1. ~overlap' => \A u, v \in LogWriters : ~Idle(u)' /\ ~Idle(v)' => u = v
    BY <1>1, <1>8
  <2>2. \A t, u, v \in LogWriters : ~Idle(t)' /\ ~Idle(u)' /\ ~Idle(v)' => t = u \/ t = v \/ u = v
    BY <1>8, <1>9
  <2>3. logCount' <= puts'
    BY <1>1, <1>2 DEF LogTypeInv, PutsCounted
  <2>4. \A v \in LogWriters : ~Idle(v)' =>
           logCount' + 1 <= puts' /\ (writer'[v].at = "storeCount" => writer'[v].loaded + 1 <= puts')
    <3>1. logCount <= puts
      BY DEF LogTypeInv, PutsCounted
    <3> QED BY <1>1, <1>2, <1>7, <1>8, <1>10, <3>1
  <2>5. ASSUME NEW u \in LogWriters, NEW v \in LogWriters, u # v, ~Idle(u)', ~Idle(v)'
        PROVE  logCount' + 2 <= puts' /\ (writer'[v].at = "storeCount" => writer'[v].loaded + 2 <= puts')
    <3>1. CASE u = w
      BY <1>1, <1>2, <1>7, <1>8, <1>10, <2>5, <3>1
    <3>2. CASE v = w
      BY <1>1, <1>2, <1>7, <1>8, <1>10, <2>5, <3>2
    <3>3. CASE u # w /\ v # w
      BY <1>8, <1>9, <2>5, <3>3
    <3> QED BY <3>1, <3>2, <3>3
  <2> QED BY <2>1, <2>2, <2>3, <2>4, <2>5 DEF PutsCounted, Idle
<1>12. DisplayRecord'
  BY <1>1 DEF LogTypeInv, DisplayRecord
<1> QED BY <1>6, <1>11, <1>12 DEF LogTypeInv

\* The steps of a writer but its last keep the counts.
LEMMA WriteCounts ==
    ASSUME LogTypeInv, NEW w \in LogWriters, Write(w)
    PROVE  PutsCounted'
<1>1. /\ UNCHANGED <<puts, overlap>> /\ ~Idle(w)
      /\ \A v \in LogWriters : v # w => writer'[v] = writer[v]
  BY DEF LogTypeInv, LogTypeOK, Write, WriteText, WriteMeta, LoadWptr, StoreWptr, Release,
         LoadCount, StoreCount, MoveTo, Idle
<1>2. /\ puts \in Nat /\ logCount \in Nat
      /\ writer \in [LogWriters -> [at : WriterStep, msg : Message, loaded : Nat]]
  BY DEF LogTypeInv, LogTypeOK, Message, WriterStep
<1>3. \A v \in LogWriters : ~Idle(v)' => ~Idle(v)
  BY <1>1 DEF Idle
<1>4. /\ logCount <= puts
      /\ \A v \in LogWriters : ~Idle(v) =>
          logCount + 1 <= puts /\ (writer[v].at = "storeCount" => writer[v].loaded + 1 <= puts)
      /\ \A u, v \in LogWriters : u # v /\ ~Idle(u) /\ ~Idle(v) =>
          logCount + 2 <= puts /\ (writer[v].at = "storeCount" => writer[v].loaded + 2 <= puts)
  BY DEF LogTypeInv, PutsCounted
<1>5. /\ ~overlap' => \A u, v \in LogWriters : ~Idle(u)' /\ ~Idle(v)' => u = v
      /\ \A t, u, v \in LogWriters : ~Idle(t)' /\ ~Idle(u)' /\ ~Idle(v)' => t = u \/ t = v \/ u = v
  BY <1>1, <1>3 DEF LogTypeInv, PutsCounted
<1>6. CASE StoreCount(w)
  <2>1. /\ writer[w].at = "storeCount" /\ logCount' = writer[w].loaded + 1 /\ Idle(w)'
        /\ writer[w].loaded \in Nat
    BY <1>2, <1>6 DEF StoreCount, Resting, Idle
  <2>2. logCount' <= puts'
    BY <1>1, <1>4, <2>1
  <2>3. \A v \in LogWriters : ~Idle(v)' =>
           logCount' + 1 <= puts' /\ (writer'[v].at = "storeCount" => writer'[v].loaded + 1 <= puts')
    BY <1>1, <1>2, <1>3, <1>4, <2>1
  <2>4. ASSUME NEW u \in LogWriters, NEW v \in LogWriters, u # v, ~Idle(u)', ~Idle(v)'
        PROVE  FALSE
    <3>1. u # w /\ v # w
      BY <2>1, <2>4
    <3>2. ~Idle(u) /\ ~Idle(v)
      BY <1>3, <2>4
    <3> QED BY <1>1, <2>4, <3>1, <3>2 DEF LogTypeInv, PutsCounted
  <2> QED BY <1>5, <2>2, <2>3, <2>4 DEF PutsCounted, Idle
<1>7. CASE LoadCount(w)
  <2>1. writer'[w].at = "storeCount" /\ writer'[w].loaded = logCount /\ logCount' = logCount
    BY <1>2, <1>7 DEF LoadCount
  <2>2. \A v \in LogWriters : ~Idle(v)' =>
           logCount' + 1 <= puts' /\ (writer'[v].at = "storeCount" => writer'[v].loaded + 1 <= puts')
    BY <1>1, <1>2, <1>3, <1>4, <2>1
  <2>3. \A u, v \in LogWriters : u # v /\ ~Idle(u)' /\ ~Idle(v)' =>
           logCount' + 2 <= puts' /\ (writer'[v].at = "storeCount" => writer'[v].loaded + 2 <= puts')
    BY <1>1, <1>2, <1>3, <1>4, <2>1
  <2> QED BY <1>1, <1>4, <1>5, <2>1, <2>2, <2>3 DEF PutsCounted, Idle
<1>8. CASE WriteText(w) \/ WriteMeta(w) \/ LoadWptr(w) \/ StoreWptr(w) \/ Release(w)
  <2>1. writer'[w].at # "storeCount" /\ logCount' = logCount
    BY <1>2, <1>8 DEF WriteText, WriteMeta, LoadWptr, StoreWptr, Release, MoveTo, Resting
  <2>2. \A v \in LogWriters : ~Idle(v)' =>
           logCount' + 1 <= puts' /\ (writer'[v].at = "storeCount" => writer'[v].loaded + 1 <= puts')
    BY <1>1, <1>3, <1>4, <2>1
  <2>3. \A u, v \in LogWriters : u # v /\ ~Idle(u)' /\ ~Idle(v)' =>
           logCount' + 2 <= puts' /\ (writer'[v].at = "storeCount" => writer'[v].loaded + 2 <= puts')
    BY <1>1, <1>3, <1>4, <2>1
  <2> QED BY <1>1, <1>4, <1>5, <2>1, <2>2, <2>3 DEF PutsCounted, Idle
<1> QED BY <1>6, <1>7, <1>8 DEF Write

\* They keep the types.
LEMMA WriteTypes ==
    ASSUME LogTypeInv, NEW w \in LogWriters, Write(w)
    PROVE  LogTypeInv'
<1> DEFINE StepOf == [at : WriterStep, msg : Message, loaded : Nat]
<1>1. /\ UNCHANGED <<puts, overlap, display, oldWptr, shown, missed>>
      /\ bufSem' \in {bufSem, 1}
  BY DEF Write, WriteText, WriteMeta, LoadWptr, StoreWptr, Release, LoadCount, StoreCount,
         displayVars
<1>2. /\ writer[w] \in StepOf /\ writer \in [LogWriters -> StepOf]
      /\ logWptr \in Slots /\ logBuf \in [Slots -> Entry] /\ logCount \in Nat
  BY DEF LogTypeInv, LogTypeOK, WriterStep, Message
<1>3. writer' \in [LogWriters -> StepOf] /\ logWptr' \in Slots /\ logBuf' \in [Slots -> Entry]
      /\ logCount' \in Nat
  <2>1. CASE WriteText(w)
    <3>1. logBuf' = [logBuf EXCEPT ![logWptr] = [logBuf[logWptr] EXCEPT !.text = writer[w].msg]]
      BY <2>1 DEF WriteText
    <3>2. writer' = [writer EXCEPT ![w] = [writer[w] EXCEPT !.at = "meta"]]
          /\ UNCHANGED <<logWptr, logCount>>
      BY <2>1 DEF WriteText, MoveTo
    <3> QED BY <1>2, <3>1, <3>2 DEF Entry, WriterStep
  <2>2. CASE WriteMeta(w)
    <3>1. logBuf' = [logBuf EXCEPT ![logWptr] = [logBuf[logWptr] EXCEPT !.meta = writer[w].msg]]
      BY <2>2 DEF WriteMeta
    <3>2. writer' = [writer EXCEPT ![w] = [writer[w] EXCEPT !.at = "load"]]
          /\ UNCHANGED <<logWptr, logCount>>
      BY <2>2 DEF WriteMeta, MoveTo
    <3> QED BY <1>2, <3>1, <3>2 DEF Entry, WriterStep
  <2>3. CASE LoadWptr(w)
    <3>1. [at |-> "store", msg |-> 0, loaded |-> logWptr] \in StepOf
      BY <1>2, LogAssumption DEF WriterStep, Message, Slots
    <3> QED BY <1>2, <2>3, <3>1 DEF LoadWptr
  <2>4. CASE StoreWptr(w)
    <3>1. [Resting EXCEPT !.at = "release"] \in StepOf
      BY LogAssumption DEF Resting, WriterStep, Message
    <3>2. writer[w].loaded + 1 \in Nat
      BY <1>2
    <3>3. logWptr' \in Slots
      BY <2>4, <3>2, SlotIsInRing DEF StoreWptr
    <3> QED BY <1>2, <2>4, <3>1, <3>3 DEF StoreWptr
  <2>5. CASE Release(w)
    BY <1>2, <2>5 DEF Release, MoveTo, WriterStep
  <2>6. CASE LoadCount(w)
    <3>1. writer' = [writer EXCEPT ![w] =
                        [writer[w] EXCEPT !.at = "storeCount", !.loaded = logCount]]
      BY <2>6 DEF LoadCount
    <3>2. [writer[w] EXCEPT !.at = "storeCount", !.loaded = logCount] \in StepOf
      BY <1>2 DEF WriterStep
    <3> QED BY <1>2, <2>6, <3>1, <3>2 DEF LoadCount
  <2>7. CASE StoreCount(w)
    <3>1. Resting \in StepOf
      BY LogAssumption DEF Resting, WriterStep, Message
    <3> QED BY <1>2, <2>7, <3>1 DEF StoreCount
  <2> QED BY <2>1, <2>2, <2>3, <2>4, <2>5, <2>6, <2>7 DEF Write
<1>4. PutsCounted'
  BY WriteCounts
<1>5. puts' \in Message /\ logCount' \in Message
  <2>1. puts' \in 0..MaxPuts /\ MaxPuts \in Nat /\ logCount' <= puts'
    BY <1>1, <1>4, LogAssumption DEF LogTypeInv, LogTypeOK, Message, PutsCounted
  <2> QED BY <1>3, <2>1 DEF Message
<1>6. LogTypeOK'
  BY <1>1, <1>3, <1>5 DEF LogTypeInv, LogTypeOK, WriterStep
<1>7. DisplayRecord'
  BY <1>1 DEF LogTypeInv, DisplayRecord
<1> QED BY <1>4, <1>6, <1>7 DEF LogTypeInv

\* So does the display, whatever it reads between two steps of the writers.
LEMMA DisplayTypesKept ==
    ASSUME LogTypeInv, Display
    PROVE  LogTypeInv'
<1> DEFINE Records == [at : {"idle", "wptr", "print", "text"}, count : Message, lines : Seq(Entry),
                      todo : Seq(Slots), seen : Message]
           WordsSeen == display'.at = "text" => display'.todo # <<>> /\ display'.lines # <<>>
<1>1. /\ UNCHANGED <<logWptr, logCount, logBuf, writer, puts, overlap>>
      /\ bufSem' \in {bufSem, 0, 1}
  BY DEF Display, ReadCount, ReadWptr, GetMeta, GetText, Printed
<1>2. /\ display \in Records /\ 0 \in Message /\ logCount \in Message /\ logWptr \in Slots
      /\ logBuf \in [Slots -> Entry] /\ oldWptr \in Slots /\ shown \in Seq(Entry)
      /\ missed \in BOOLEAN /\ Message \subseteq Nat
  BY LogAssumption DEF LogTypeInv, LogTypeOK, DisplayRecord, Message
<1>3. Passed \in Message
  <2>1. puts \in 0..MaxPuts /\ logCount \in Nat /\ MaxPuts \in Nat
    BY LogAssumption DEF LogTypeInv, LogTypeOK, Message
  <2>2. (\E w \in LogWriters : writer[w].at \in {"text", "meta", "load", "store"}) => puts >= 1
    BY <2>1 DEF LogTypeInv, PutsCounted, Idle
  <2> QED BY <2>1, <2>2 DEF Passed, Message
<1>4. ASSUME ReadCount
      PROVE  /\ display' \in Records /\ WordsSeen
             /\ oldWptr' \in Slots /\ shown' \in Seq(Entry) /\ missed' \in BOOLEAN
  BY <1>2, <1>4 DEF ReadCount
<1>5. ASSUME NEW repaint \in BOOLEAN, ReadWptr(repaint)
      PROVE  /\ display' \in Records /\ WordsSeen
             /\ oldWptr' \in Slots /\ shown' \in Seq(Entry) /\ missed' \in BOOLEAN
  <2>1. Entries(display.count, logWptr) \in Seq(Slots)
    BY <1>2, EntriesInRing
  <2>2. CASE repaint \/ oldWptr # logWptr
    <3>1. /\ display' = [at |-> "print", count |-> 0, lines |-> <<>>,
                         todo |-> Entries(display.count, logWptr), seen |-> Passed]
          /\ oldWptr' = logWptr /\ shown' = shown /\ missed' = (display.count + 1 < Passed)
      BY <1>5, <2>2 DEF ReadWptr
    <3> QED BY <1>2, <1>3, <2>1, <3>1
  <2>3. CASE ~(repaint \/ oldWptr # logWptr)
    <3>1. /\ display' = [display EXCEPT !.at = "idle", !.count = 0]
          /\ oldWptr' = oldWptr /\ shown' = shown /\ missed' = (missed \/ Passed # display.seen)
      BY <1>5, <2>3 DEF ReadWptr
    <3>2. missed' \in BOOLEAN
      BY <3>1, Zenon
    <3> QED BY <1>2, <3>1, <3>2
  <2> QED BY <2>2, <2>3
<1>6. ASSUME GetMeta
      PROVE  /\ display' \in Records /\ WordsSeen
             /\ oldWptr' \in Slots /\ shown' \in Seq(Entry) /\ missed' \in BOOLEAN
  <2> DEFINE new == [text |-> 0, meta |-> logBuf[Head(display.todo)].meta]
             lines == Append(display.lines, new)
  <2>1. /\ display.todo # <<>> /\ display.todo \in Seq(Slots) /\ display.lines \in Seq(Entry)
        /\ display' = [display EXCEPT !.at = "text", !.lines = lines]
        /\ UNCHANGED <<oldWptr, shown, missed>>
    BY <1>2, <1>6 DEF GetMeta
  <2>2. new \in Entry
    <3>1. Head(display.todo) \in Slots
      BY <2>1
    <3> QED BY <1>2, <3>1 DEF Entry
  <2> HIDE DEF new
  <2>3. lines \in Seq(Entry) /\ lines # <<>>
    BY <2>1, <2>2
  <2> HIDE DEF lines
  <2> QED BY <1>2, <2>1, <2>3
<1>7. ASSUME GetText
      PROVE  /\ display' \in Records /\ WordsSeen
             /\ oldWptr' \in Slots /\ shown' \in Seq(Entry) /\ missed' \in BOOLEAN
  <2> DEFINE n == Len(display.lines)
             text == logBuf[Head(display.todo)].text
             lines == [display.lines EXCEPT ![n] = [display.lines[n] EXCEPT !.text = text]]
             todo == Tail(display.todo)
  <2>1. /\ display.at = "text" /\ UNCHANGED <<oldWptr, shown, missed>>
        /\ display' = [display EXCEPT !.at = "print", !.todo = todo, !.lines = lines]
    BY <1>7 DEF GetText
  <2>2. /\ display.todo # <<>> /\ display.lines # <<>>
        /\ display.todo \in Seq(Slots) /\ display.lines \in Seq(Entry)
    BY <1>2, <2>1 DEF LogTypeInv, DisplayRecord
  <2>3. todo \in Seq(Slots) /\ Head(display.todo) \in Slots
    BY <2>2
  <2>4. text \in Message
    BY <1>2, <2>3 DEF Entry
  <2>5. n \in 1..Len(display.lines) /\ display.lines[n] \in Entry
    BY <2>2
  <2> HIDE DEF text, n
  <2>6. lines \in Seq(Entry)
    BY <2>2, <2>4, <2>5 DEF Entry
  <2> HIDE DEF lines, todo
  <2> QED BY <1>2, <2>1, <2>3, <2>6
<1>8. ASSUME Printed
      PROVE  /\ display' \in Records /\ WordsSeen
             /\ oldWptr' \in Slots /\ shown' \in Seq(Entry) /\ missed' \in BOOLEAN
  <2>1. /\ display.at = "print" /\ UNCHANGED <<oldWptr, missed>> /\ shown' = display.lines
        /\ display' = [display EXCEPT !.at = "idle", !.count = 0, !.lines = <<>>]
    BY <1>8 DEF Printed
  <2>2. <<>> \in Seq(Entry)
    OBVIOUS
  <2> QED BY <1>2, <2>1, <2>2
<1>9. LogTypeOK' /\ DisplayRecord'
  <2>1. /\ display' \in Records /\ WordsSeen
        /\ oldWptr' \in Slots /\ shown' \in Seq(Entry) /\ missed' \in BOOLEAN
    BY <1>4, <1>5, <1>6, <1>7, <1>8 DEF Display
  <2>2. /\ display'.at \in {"idle", "wptr", "print", "text"}
        /\ display'.count \in Message /\ display'.seen \in Message
        /\ display'.lines \in Seq(Entry) /\ display'.todo \in Seq(Slots)
    BY <2>1
  <2> QED BY <1>1, <2>1, <2>2 DEF LogTypeInv, LogTypeOK, DisplayRecord
<1>10. PutsCounted'
  BY <1>1 DEF LogTypeInv, PutsCounted, Idle
<1> QED BY <1>9, <1>10 DEF LogTypeInv

\* Type correctness of the log, whoever writes into it at once: its pointer stays in the
\* ring, and it counts no more messages than were put.
THEOREM LogTypeCorrect == LogSpec => []LogTypeOK
<1>1. ASSUME LogInit PROVE LogTypeInv
  <2>1. LogTypeOK
    <3>1. 0 \in Slots /\ 0 \in Message /\ 0 \in Nat
      BY LogAssumption DEF Slots, Message
    <3>2. <<>> \in Seq(Entry) /\ <<>> \in Seq(Slots)
      OBVIOUS
    <3>3. /\ logBuf \in [Slots -> Entry]
          /\ writer \in [LogWriters -> [at : WriterStep, msg : Message, loaded : Nat]]
      BY <1>1, <3>1 DEF LogInit, Entry, Resting, WriterStep
    <3> QED BY <1>1, <3>1, <3>2, <3>3 DEF LogInit, LogTypeOK, WriterStep
  <2>2. DisplayRecord
    BY <1>1, LogAssumption DEF LogInit, DisplayRecord, Message
  <2>3. PutsCounted
    BY <1>1 DEF LogInit, PutsCounted, Idle, Resting
  <2> QED BY <2>1, <2>2, <2>3 DEF LogTypeInv
<1>2. ASSUME LogTypeInv, [LogNext]_logVars PROVE LogTypeInv'
  <2>1. CASE UNCHANGED logVars
    BY <1>2, <2>1 DEF logVars, LogTypeInv, LogTypeOK, DisplayRecord, PutsCounted, Idle
  <2> QED BY <1>2, <2>1, PutCounts, WriteTypes, DisplayTypesKept DEF LogNext
<1>3. LogTypeInv => LogTypeOK
  BY DEF LogTypeInv
<1> QED BY <1>1, <1>2, <1>3, PTL DEF LogSpec

-----------------------------------------------------------------------------
(* The serial console                                                      *)

\* A character that covers the register still has its place in the queue, unless the
\* place was given up early; the display task then cannot be past osMessagePut.
TtyInv ==
    /\ TtyTypeOK
    /\ tdr = "covered" => ttyQueue /\ ttyPc \in {"idle", "put"}
    /\ ttyPc \in {"enable", "write"} => early \/ ttyQueue
    /\ ttyPc \in {"idle", "put"} => ~early
    /\ ttyPc # "enable" /\ ttyPc # "put" /\ ttyQueue => txie
    /\ FullMeansServed
    /\ OnlyExposedLost

LEMMA TtyInvariant == TtySpec => []TtyInv
<1> USE DEF TtyInv, TtyTypeOK, DataRegister, FullMeansServed, OnlyExposedLost
<1>1. TtyInit => TtyInv
  BY DEF TtyInit
<1>2. TtyInv /\ [TtyNext]_ttyVars => TtyInv'
  <2> SUFFICES ASSUME TtyInv, [TtyNext]_ttyVars PROVE TtyInv'
    OBVIOUS
  <2> USE DEF TtyMove, TxInterrupt
  <2>1. CASE PutChar
    BY <2>1 DEF PutChar
  <2>2. CASE PutToken
    BY <2>2 DEF PutToken
  <2>3. CASE EnableTxe
    BY <2>3 DEF EnableTxe
  <2>4. CASE TransmitData
    BY <2>4 DEF TransmitData
  <2>5. CASE TxeCallback
    BY <2>5 DEF TxeCallback
  <2>6. CASE DebugSendChar
    BY <2>6 DEF DebugSendChar
  <2>7. CASE Shift
    BY <2>7 DEF Shift
  <2>8. CASE UNCHANGED ttyVars
    BY <2>8 DEF ttyVars
  <2>9. QED
    BY <2>1, <2>2, <2>3, <2>4, <2>5, <2>6, <2>7, <2>8 DEF TtyNext, EnqueueChar
<1>3. QED
  BY <1>1, <1>2, PTL DEF TtySpec

\* Type correctness of the serial transmission.
THEOREM TtyTypeCorrect == TtySpec => []TtyTypeOK
BY TtyInvariant, PTL DEF TtyInv

\* No character of the display is overwritten but one that an interrupt between
\* EnableIT_TXE and TransmitData8 has exposed, and a full queue is always served.
THEOREM NoCharacterLost == TtySpec => [](OnlyExposedLost /\ FullMeansServed)
BY TtyInvariant, PTL DEF TtyInv

\* The screen is not that of the page which display_page_contents remembers.
Astray == screen.mixed \/ screen.page # oldMode

\* The flag of a repaint is set while the screen is astray, until the display has read
\* it; from then on the display is bound to clear the screen.
ScreenInv ==
    /\ ScreenTypeOK
    /\ drawer.at = "idle" => drawer.kind = "reset"
    /\ Astray => CASE drawer.at = "idle" -> "repaint" \in flags
                   [] drawer.at \in {"load", "clear"} ->
                        CASE drawer.kind = "reset" -> "repaint" \in flags
                          [] drawer.kind = "repaint" /\ drawer.at = "load" -> "repaint" \in flags
                          [] OTHER -> drawer.kind = "repaint" /\ drawer.hit
                   [] drawer.at \in {"footer", "page"} -> drawer.kind # "refresh"
                   [] OTHER -> drawer.hit
    /\ drawer.at = "draw" /\ oldMode # displayMode => "repaint" \in flags

\* The invariant at the start, and in every step of the display and of the other tasks.
LEMMA ScreenBegins == ScreenInit => ScreenInv
BY ScreenAssumption DEF ScreenInit, DrawerRests, ScreenInv, ScreenTypeOK, Astray, Kinds

LEMMA ScreenKept ==
    ASSUME ScreenInv, [ScreenNext]_screenVars
    PROVE  ScreenInv'
<1> USE DEF ScreenInv, ScreenTypeOK, Astray, Kinds, DrawerMoves, DrawerRests
<1>1. ASSUME NEW page \in Pages, ChoosePage(page) PROVE ScreenInv'
  BY <1>1 DEF ChoosePage
<1>2. ASSUME NEW kind \in Kinds, ScheduleDisplay(kind) PROVE ScreenInv'
  BY <1>2 DEF ScheduleDisplay
<1>3. ASSUME NEW due \in SUBSET Kinds, DisplayRuns(due) PROVE ScreenInv'
  BY <1>3 DEF DisplayRuns
<1>4. CASE LoadFlag
  <2>1. /\ drawer.at = "load" /\ drawer'.at = "clear"
        /\ drawer'.kind = drawer.kind /\ (drawer'.hit <=> drawer.kind \in flags)
        /\ drawer' \in [at : {"clear"}, kind : Kinds, hit : BOOLEAN]
    <3>1. PICK set \in BOOLEAN : set <=> drawer.kind \in flags
      OBVIOUS
    <3>2. drawer.at = "load" /\ drawer' = [drawer EXCEPT !.at = "clear", !.hit = set]
      BY <1>4, <3>1, Zenon DEF LoadFlag
    <3>3. QED
      BY <3>1, <3>2
  <2>2. UNCHANGED <<displayMode, flags, oldMode, screen>>
    BY <1>4 DEF LoadFlag
  <2>3. ScreenTypeOK'
    BY <2>1, <2>2
  <2>4. CASE drawer.kind = "reset"
    BY <2>1, <2>2, <2>3, <2>4
  <2>5. CASE drawer.kind = "repaint"
    BY <2>1, <2>2, <2>3, <2>5
  <2>6. CASE drawer.kind = "refresh"
    BY <2>1, <2>2, <2>3, <2>6
  <2>7. QED
    BY <2>4, <2>5, <2>6
<1>5. CASE ClearFlag
  <2>1. /\ drawer.at = "clear" /\ flags' = flags \ {drawer.kind}
        /\ UNCHANGED <<displayMode, oldMode, screen>>
    BY <1>5 DEF ClearFlag
  <2>2. CASE drawer.hit
    <3>1. drawer' = [drawer EXCEPT !.at = "footer"]
      BY <1>5, <2>2 DEF ClearFlag
    <3>2. QED
      BY <2>1, <2>2, <3>1
  <2>3. CASE ~drawer.hit /\ drawer.kind = "reset"
    <3>1. drawer' = [drawer EXCEPT !.at = "load", !.kind = "repaint"]
      BY <1>5, <2>3 DEF ClearFlag, KindAfter
    <3>2. QED
      BY <2>1, <2>3, <3>1
  <2>4. CASE ~drawer.hit /\ drawer.kind = "repaint"
    <3>1. drawer' = [drawer EXCEPT !.at = "load", !.kind = "refresh"]
      BY <1>5, <2>4 DEF ClearFlag, KindAfter
    <3>2. QED
      BY <2>1, <2>4, <3>1
  <2>5. CASE ~drawer.hit /\ drawer.kind = "refresh"
    <3>1. drawer' = DrawerRests
      BY <1>5, <2>5 DEF ClearFlag
    <3>2. QED
      BY <2>1, <2>5, <3>1
  <2>6. QED
    BY <2>2, <2>3, <2>4, <2>5
<1>6. CASE Footer
  BY <1>6 DEF Footer
<1>7. CASE Page
  BY <1>7 DEF Page
<1>8. CASE Draw
  BY <1>8 DEF Draw
<1>9. CASE UNCHANGED screenVars
  BY <1>9 DEF screenVars
<1>10. QED
  BY <1>1, <1>2, <1>3, <1>4, <1>5, <1>6, <1>7, <1>8, <1>9 DEF ScreenNext, DisplayTask

\* Type correctness of the display, for any set of pages.
THEOREM ScreenTypeCorrect == ScreenSpec => []ScreenTypeOK
BY ScreenBegins, ScreenKept, PTL DEF ScreenSpec, ScreenInv

\* At rest the invariant says that what is astray is known.
LEMMA WrongScreenFound == ScreenInv => WrongIsKnown
BY DEF ScreenInv, Astray, WrongIsKnown

\* Whenever the display rests and the screen is wrong, the display will find out by
\* itself, for any set of pages.
THEOREM WrongScreenIsKnown == ScreenSpec => []WrongIsKnown
BY ScreenBegins, ScreenKept, WrongScreenFound, PTL DEF ScreenSpec

-----------------------------------------------------------------------------
(* Cli                                                                     *)

\* Where the command line is in a sequence, and the characters that lead it on.
Contexts == {"none", "esc", "O", "[", "size"}
At(c) ==
    /\ c = "none" <=> ~esc
    /\ c = "esc"  => escbuf = <<>>
    /\ c = "O"    => escbuf = <<"O">>
    /\ c = "["    => escbuf = <<"[">>
    /\ c = "size" => \E size \in Reported : escbuf = <<"[", size>>

Moves ==
    {<<"none", "p", "none">>, <<"none", " ", "none">>, <<"none", "esc", "esc">>,
     <<"esc", "O", "O">>, <<"O", "P", "none">>, <<"esc", "[", "[">>, <<"[", "C", "none">>,
     <<"size", "R", "none">>} \cup {<<"[", size, "size">> : size \in Reported}

\* What is left of a sequence from there on.
Rests(c) ==
    CASE c = "none" -> {<<>>, <<"p">>, <<" ">>, <<"esc", "O", "P">>, <<"esc", "[", "C">>}
                          \cup {<<"esc", "[", size, "R">> : size \in Reported}
      [] c = "esc"  -> {<<"O", "P">>, <<"[", "C">>} \cup {<<"[", size, "R">> : size \in Reported}
      [] c = "O"    -> {<<"P">>}
      [] c = "["    -> {<<"C">>} \cup {<<size, "R">> : size \in Reported}
      [] c = "size" -> {<<"R">>}

\* Unless a character was lost, what is on the line completes what has arrived, ...
InSequence ==
    \E d \in Contexts :
        /\ line \in Rests(d)
        /\ ttyrx = <<>> => At(d)
        /\ ttyrx # <<>> => \E c \in Contexts : At(c) /\ <<c, ttyrx[1], d>> \in Moves

\* ... and the keys have had their effect but for those that are under way.
PageAfter(keys, page) == IF keys # <<>> /\ keys[Len(keys)] = "C" THEN NextPage[page] ELSE page
PowerAfter(keys, power) == IF keys = <<"p">> THEN ~power ELSE power

InStepWithKeys ==
    /\ InSequence
    /\ wanted.mode = PageAfter(line, PageAfter(ttyrx, displayMode))
    /\ wanted.power = PowerAfter(line, PowerAfter(ttyrx, powerKey))

CliInv == ScreenTypeOK /\ CliTypeOK /\ (wanted # Unknown => InStepWithKeys)

\* Sequences of at most four characters, and how they grow.
LEMMA ShortSequences ==
    ASSUME NEW a, NEW b, NEW c, NEW d
    PROVE  /\ Head(<<a>>) = a /\ Tail(<<a>>) = <<>> /\ Len(<<a>>) = 1
           /\ Head(<<a, b>>) = a /\ Tail(<<a, b>>) = <<b>> /\ Len(<<a, b>>) = 2
           /\ Head(<<a, b, c>>) = a /\ Tail(<<a, b, c>>) = <<b, c>> /\ Len(<<a, b, c>>) = 3
           /\ Head(<<a, b, c, d>>) = a /\ Tail(<<a, b, c, d>>) = <<b, c, d>>
           /\ Len(<<a, b, c, d>>) = 4
OBVIOUS

LEMMA SequenceGrows ==
    ASSUME NEW a, NEW b, NEW c
    PROVE  /\ Append(<<>>, a) = <<a>> /\ Append(<<a>>, b) = <<a, b>>
           /\ Append(<<a, b>>, c) = <<a, b, c>>
<1>1. Append(<<>>, a) = <<a>>
  OBVIOUS
<1>2. Append(<<a>>, b) = <<a, b>>
  <2>1. Append(<<a>>, b) = [i \in 1..2 |-> IF i = 2 THEN b ELSE <<a>>[i]]
    OBVIOUS
  <2>2. Append(<<a>>, b) = [i \in 1..2 |-> Append(<<a>>, b)[i]]
    BY <2>1
  <2>3. <<a, b>> = [i \in 1..2 |-> <<a, b>>[i]]
    OBVIOUS
  <2>4. \A i \in 1..2 : Append(<<a>>, b)[i] = <<a, b>>[i]
    BY <2>1
  <2> QED BY <2>2, <2>3, <2>4
<1>3. Append(<<a, b>>, c) = <<a, b, c>>
  <2>1. Append(<<a, b>>, c) = [i \in 1..3 |-> IF i = 3 THEN c ELSE <<a, b>>[i]]
    OBVIOUS
  <2>2. Append(<<a, b>>, c) = [i \in 1..3 |-> Append(<<a, b>>, c)[i]]
    BY <2>1
  <2>3. <<a, b, c>> = [i \in 1..3 |-> <<a, b, c>>[i]]
    OBVIOUS
  <2>4. \A i \in 1..3 : Append(<<a, b>>, c)[i] = <<a, b, c>>[i]
    BY <2>1
  <2> QED BY <2>2, <2>3, <2>4
<1> QED BY <1>1, <1>2, <1>3

\* The keys and the characters that they send.
LEMMA KeySequences ==
    /\ Keys = {"p", "F1", "right", "ESC", "space"}
    /\ \A key \in Keys : Sent[key] \in Seq(Chars)
    /\ Sent["p"] = <<"p">> /\ Sent["F1"] = <<"esc", "O", "P">>
    /\ Sent["right"] = <<"esc", "[", "C">> /\ Sent["space"] = <<" ">> /\ Sent["ESC"] = <<"esc">>
<1>1. Keys = {"p", "F1", "right", "ESC", "space"}
  BY DEF Keys, Sent
<1>2. /\ Sent["p"] = <<"p">> /\ Sent["F1"] = <<"esc", "O", "P">>
      /\ Sent["right"] = <<"esc", "[", "C">> /\ Sent["space"] = <<" ">> /\ Sent["ESC"] = <<"esc">>
  BY DEF Sent
<1>3. \A ch \in Letters : ch \in Chars
  BY DEF Chars
<1>4. {"p", "esc", "O", "P", "[", "C", " "} \subseteq Letters
  BY DEF Letters
<1>5. /\ \A a \in Chars : <<a>> \in Seq(Chars)
      /\ \A a, b, c \in Chars : <<a, b, c>> \in Seq(Chars)
  OBVIOUS
<1> QED BY <1>1, <1>2, <1>3, <1>4, <1>5

ScreenTypes == ScreenTypeOK /\ CliTypeOK

\* The flags of the display.
LEMMA ScheduleTypes ==
    ASSUME ScreenTypeOK, NEW kind \in Kinds, ScheduleDisplay(kind)
    PROVE  ScreenTypeOK'
BY DEF ScreenTypeOK, ScheduleDisplay

\* Every step of the terminal and its line stays in the types.
LEMMA LineTypes ==
    ASSUME ScreenTypes, (\E key \in Keys : Press(key)) \/ Terminal
    PROVE  ScreenTypes'
<1> USE DEF ScreenTypes
<1>1. ASSUME NEW key \in Keys, Press(key) PROVE ScreenTypes'
  <2>1. /\ strokes' = strokes + 1 /\ strokes < MaxStrokes /\ line' = Sent[key]
        /\ UNCHANGED <<asked, termSize, lost, ttyrx, esc, escbuf, powerKey, newSize, screenSize,
                       sizeSet, displayMode, flags, drawer, oldMode, screen>>
    BY <1>1 DEF Press, sizeVars, screenVars
  <2>2. wanted' \in [mode : Pages, power : BOOLEAN] \cup {Unknown}
    <3>1. CASE key = "ESC" \/ wanted = Unknown
      BY <1>1, <3>1 DEF Press
    <3>2. CASE ~(key = "ESC" \/ wanted = Unknown)
      <4>1. wanted \in [mode : Pages, power : BOOLEAN]
        BY <3>2 DEF CliTypeOK
      <4>2. PICK m \in Pages, w \in BOOLEAN : wanted = [mode |-> m, power |-> w]
        BY <4>1
      <4>3. NextPage[m] \in Pages
        BY CliAssumption
      <4>4. wanted' = CASE key = "right" -> [wanted EXCEPT !.mode = NextPage[@]]
                        [] key = "p"     -> [wanted EXCEPT !.power = ~@]
                        [] OTHER         -> wanted
        BY <1>1, <3>2 DEF Press
      <4>5. CASE key = "right"
        BY <4>2, <4>3, <4>4, <4>5
      <4>6. CASE key = "p"
        <5>1. wanted' = [mode |-> m, power |-> ~w]
          BY <4>2, <4>4, <4>6, Zenon
        <5> QED BY <5>1, Zenon
      <4>7. CASE key # "right" /\ key # "p"
        BY <4>1, <4>4, <4>7
      <4> QED BY <4>5, <4>6, <4>7
    <3> QED BY <3>1, <3>2
  <2>3. strokes' \in 0..MaxStrokes
    BY <2>1, CliAssumption DEF CliTypeOK
  <2>4. line' \in Seq(Chars)
    BY <2>1, KeySequences
  <2> QED BY <2>1, <2>2, <2>3, <2>4 DEF CliTypeOK, ScreenTypeOK
<1>2. ASSUME Report PROVE ScreenTypes'
  <2>1. termSize \in Reported /\ Garbled \in Reported
    BY DEF CliTypeOK, Reported
  <2>2. \A size \in Reported : <<"esc", "[", size, "R">> \in Seq(Chars)
    <3>1. "esc" \in Chars /\ "[" \in Chars /\ "R" \in Chars /\ Reported \subseteq Chars
      BY DEF Chars, Letters
    <3> QED BY <3>1
  <2>3. line' \in Seq(Chars)
    BY <1>2, <2>1, <2>2 DEF Report
  <2>4. asked' \in 0..2 /\ lost' \in 0..MaxLost
    BY <1>2, CliAssumption DEF Report, CliTypeOK
  <2> QED BY <1>2, <2>3, <2>4 DEF Report, CliTypeOK, ScreenTypeOK, sizeVars, screenVars
<1>3. ASSUME ReceiveChar PROVE ScreenTypes'
  <2>1. line # <<>> /\ line \in Seq(Chars) /\ line' = Tail(line)
    BY <1>3 DEF ReceiveChar, CliTypeOK
  <2>2. Head(line) \in Chars /\ line' \in Seq(Chars)
    BY <2>1
  <2>3. <<Head(line)>> \in Seq(Chars) /\ Len(<<Head(line)>>) = 1
    BY <2>2
  <2>4. Len(ttyrx') <= 1 /\ ttyrx' \in Seq(Chars)
    <3>1. CASE ttyrx = <<>>
      <4>1. ttyrx' = <<Head(line)>>
        BY <1>3, <3>1 DEF ReceiveChar
      <4> QED BY <2>3, <4>1
    <3>2. CASE ttyrx # <<>>
      BY <1>3, <3>2 DEF ReceiveChar, CliTypeOK
    <3> QED BY <3>1, <3>2
  <2>5. lost' \in 0..MaxLost
    BY <1>3, CliAssumption DEF ReceiveChar, CliTypeOK
  <2>6. wanted' \in [mode : Pages, power : BOOLEAN] \cup {Unknown}
    BY <1>3 DEF ReceiveChar, CliTypeOK
  <2> QED BY <1>3, <2>2, <2>4, <2>5, <2>6 DEF ReceiveChar, CliTypeOK, ScreenTypeOK, sizeVars, screenVars
<1> QED BY <1>1, <1>2, <1>3 DEF Terminal

\* So does every step of the command line and of what stands for the display.
LEMMA TaskTypes ==
    ASSUME ScreenTypes, CliTask \/ DisplayAsks \/ DisplayTimer
    PROVE  ScreenTypes'
<1> USE DEF ScreenTypes
<1>1. ASSUME DisplayAsks PROVE ScreenTypes'
  BY <1>1 DEF DisplayAsks, CliTypeOK, ScreenTypeOK, sizeVars, drawVars
<1>2. ASSUME DisplayTimer PROVE ScreenTypes'
  <2>1. ScreenTypeOK'
    BY <1>2, ScheduleTypes DEF DisplayTimer, Kinds
  <2> QED BY <1>2, <2>1 DEF DisplayTimer, CliTypeOK, lineVars, sizeVars
<1>3. ASSUME CliTask PROVE ScreenTypes'
  <2> DEFINE ch == Head(ttyrx)
             Rest == /\ esc' \in BOOLEAN /\ escbuf' \in Seq(Chars) /\ Len(escbuf') <= EscLimit
                     /\ powerKey' \in BOOLEAN
                     /\ newSize' \in Reported \cup {NoSize} /\ screenSize' \in Reported
                     /\ sizeSet' \in BOOLEAN
  <2>1. ch \in Chars /\ ttyrx' = <<>> /\ UNCHANGED lineVars
    BY <1>3 DEF CliTask, CliTypeOK
  <2>2. SUFFICES ScreenTypeOK' /\ Rest
    <3>1. line' \in Seq(Chars) /\ asked' \in 0..2 /\ termSize' \in Sizes /\ lost' \in 0..MaxLost
      BY <2>1 DEF lineVars, CliTypeOK
    <3>2. strokes' \in 0..MaxStrokes /\ wanted' \in [mode : Pages, power : BOOLEAN] \cup {Unknown}
      BY <2>1 DEF lineVars, CliTypeOK
    <3>3. Len(ttyrx') <= 1 /\ ttyrx' \in Seq(Chars)
      BY <2>1
    <3> QED BY <3>1, <3>2, <3>3 DEF CliTypeOK
  <2>3. EscLimit \in Nat /\ <<>> \in Seq(Chars) /\ Len(<<>>) <= EscLimit
    BY CliAssumption
  <2> HIDE DEF ch
  <2>4. CASE Escape(TRUE, <<>>) /\ UNCHANGED <<powerKey, sizeVars, screenVars>>
    BY <2>3, <2>4 DEF Escape, CliTypeOK, ScreenTypeOK, sizeVars, screenVars
  <2>5. CASE HandleKey(ch)
    <3>1. ScreenTypeOK'
      <4>1. CASE ch \in {"p", "P"}
        BY <2>5, <4>1, ScheduleTypes DEF HandleKey, Kinds
      <4>2. CASE ch = " "
        BY <2>5, <4>2, ScheduleTypes DEF HandleKey, Kinds
      <4>3. CASE ch \notin {"p", "P", " "}
        BY <2>5, <4>3 DEF HandleKey, ScreenTypeOK, screenVars
      <4> QED BY <4>1, <4>2, <4>3
    <3>2. powerKey' \in BOOLEAN
      BY <2>5 DEF HandleKey, CliTypeOK
    <3> QED BY <2>5, <3>1, <3>2 DEF HandleKey, CliTypeOK, sizeVars
  <2>6. CASE HandleEscapeChar(ch)
    <3> DEFINE seq == Append(escbuf, ch)
    <3>1. escbuf \in Seq(Chars) /\ Len(escbuf) <= EscLimit /\ Len(escbuf) \in Nat
      BY DEF CliTypeOK
    <3>2. seq \in Seq(Chars) /\ Len(seq) = Len(escbuf) + 1
      BY <2>1, <3>1
    <3> HIDE DEF seq
    <3>3. CASE Len(escbuf) >= EscLimit
      BY <2>6, <3>3 DEF HandleEscapeChar, Escape, CliTypeOK, ScreenTypeOK, sizeVars, screenVars
    <3>4. CASE Len(escbuf) < EscLimit /\ Continues(seq)
      <4>1. Escape(TRUE, seq) /\ UNCHANGED <<powerKey, sizeVars, screenVars>>
        <5>1. ~(Len(escbuf) >= EscLimit)
          BY <2>3, <3>1, <3>4
        <5> QED BY <2>6, <3>4, <5>1, Zenon DEF HandleEscapeChar, seq
      <4>2. Len(seq) <= EscLimit
        BY <2>3, <3>1, <3>2, <3>4
      <4> QED BY <3>2, <4>1, <4>2 DEF Escape, CliTypeOK, ScreenTypeOK, sizeVars, screenVars
    <3>5. CASE Len(escbuf) < EscLimit /\ ~Continues(seq)
      <4>1. Escape(FALSE, <<>>) /\ HandleEscapeSeq(seq)
        <5>1. ~(Len(escbuf) >= EscLimit)
          BY <2>3, <3>1, <3>5
        <5> QED BY <2>6, <3>5, <5>1, Zenon DEF HandleEscapeChar, seq
      <4>2. UNCHANGED powerKey
        BY <4>1 DEF HandleEscapeSeq
      <4>3. CASE IsReport(seq)
        <5>1. TakeSize(seq[2]) /\ seq[2] \in Reported
          <6>1. seq # <<"[", "C">>
            BY <4>3, ShortSequences DEF IsReport
          <6> QED BY <4>1, <4>3, <6>1 DEF HandleEscapeSeq, IsReport
        <5>2. newSize' \in Reported /\ screenSize' \in Reported /\ sizeSet' \in BOOLEAN
          BY <5>1 DEF TakeSize, CliTypeOK
        <5>3. ScreenTypeOK'
          <6>1. CASE UNCHANGED screenVars
            BY <6>1 DEF ScreenTypeOK, screenVars
          <6>2. CASE ScheduleDisplay("repaint")
            BY <6>2, ScheduleTypes DEF Kinds
          <6> QED BY <5>1, <6>1, <6>2 DEF TakeSize
        <5> QED BY <2>3, <4>1, <4>2, <5>2, <5>3 DEF Escape, CliTypeOK
      <4>4. CASE seq = <<"[", "C">>
        <5>1. ~IsReport(seq)
          BY <4>4, ShortSequences DEF IsReport
        <5>2. ChoosePage(NextPage[displayMode]) /\ UNCHANGED sizeVars
          BY <4>1, <4>4, <5>1 DEF HandleEscapeSeq
        <5>3. ScreenTypeOK'
          BY <5>2, CliAssumption DEF ChoosePage, ScreenTypeOK, Kinds
        <5> QED BY <2>3, <4>1, <4>2, <5>2, <5>3 DEF Escape, CliTypeOK, sizeVars
      <4>5. CASE ~IsReport(seq) /\ seq # <<"[", "C">>
        <5>1. UNCHANGED <<sizeVars, screenVars>>
          BY <4>1, <4>5 DEF HandleEscapeSeq
        <5> QED BY <2>3, <4>1, <4>2, <5>1 DEF Escape, CliTypeOK, ScreenTypeOK, sizeVars, screenVars
      <4>6. QED BY <4>3, <4>4, <4>5
    <3> QED BY <2>3, <3>1, <3>3, <3>4, <3>5
  <2> QED BY <1>3, <2>4, <2>5, <2>6 DEF CliTask, ch
<1> QED BY <1>1, <1>2, <1>3

\* Every character on the line leads on, and takes its effect with it.
LEMMA LineLeadsOn ==
    ASSUME NEW d \in Contexts, NEW keys \in Rests(d), keys # <<>>,
           NEW page, NEW power
    PROVE  /\ \E e \in Contexts : <<d, Head(keys), e>> \in Moves /\ Tail(keys) \in Rests(e)
           /\ PageAfter(keys, page) = PageAfter(Tail(keys), PageAfter(<<Head(keys)>>, page))
           /\ PowerAfter(keys, power) = PowerAfter(Tail(keys), PowerAfter(<<Head(keys)>>, power))
<1> DEFINE Leads(e) == e \in Contexts /\ <<d, Head(keys), e>> \in Moves /\ Tail(keys) \in Rests(e)
           Last(k)  == k # <<>> /\ k[Len(k)] = "C"
           Effects  == /\ Last(keys) <=> (Last(Tail(keys)) \/ Last(<<Head(keys)>>))
                       /\ ~(Last(Tail(keys)) /\ Last(<<Head(keys)>>))
                       /\ keys = <<"p">> <=> (Tail(keys) = <<"p">> \/ <<Head(keys)>> = <<"p">>)
                       /\ ~(Tail(keys) = <<"p">> /\ <<Head(keys)>> = <<"p">>)
<1>1. \A size \in Reported : size # "C" /\ size # "p" /\ size # "R"
  BY CliAssumption DEF Letters
<1>2. ASSUME NEW ch, keys = <<ch>> PROVE Effects
  BY <1>2, ShortSequences
<1>3. ASSUME NEW a, NEW b, keys = <<a, b>>, a # "C", a # "p", b # "p" PROVE Effects
  BY <1>3, ShortSequences
<1>4. ASSUME NEW a, NEW b, NEW c, keys = <<a, b, c>>, a # "C", a # "p" PROVE Effects
  BY <1>4, ShortSequences
<1>5. ASSUME NEW size \in Reported, keys = <<"esc", "[", size, "R">> PROVE Effects
  BY <1>5, ShortSequences
<1>6. /\ Rests("none") = {<<>>, <<"p">>, <<" ">>, <<"esc", "O", "P">>, <<"esc", "[", "C">>}
                             \cup {<<"esc", "[", size, "R">> : size \in Reported}
      /\ Rests("esc") = {<<"O", "P">>, <<"[", "C">>} \cup {<<"[", size, "R">> : size \in Reported}
      /\ Rests("O") = {<<"P">>}
      /\ Rests("[") = {<<"C">>} \cup {<<size, "R">> : size \in Reported}
      /\ Rests("size") = {<<"R">>}
  BY DEF Rests
<1>7. {"none", "esc", "O", "[", "size"} = Contexts
  BY DEF Contexts
<1>8. /\ <<"none", "p", "none">> \in Moves /\ <<"none", " ", "none">> \in Moves
       /\ <<"none", "esc", "esc">> \in Moves /\ <<"esc", "O", "O">> \in Moves
       /\ <<"O", "P", "none">> \in Moves /\ <<"esc", "[", "[">> \in Moves
       /\ <<"[", "C", "none">> \in Moves /\ <<"size", "R", "none">> \in Moves
       /\ \A size \in Reported : <<"[", size, "size">> \in Moves
  BY DEF Moves
<1> SUFFICES Effects /\ \E e \in Contexts : Leads(e)
  BY DEF PageAfter, PowerAfter
<1> HIDE DEF Effects
<1>9. CASE d = "none"
  <2>1. ASSUME NEW ch \in {"p", " "}, keys = <<ch>> PROVE Effects /\ \E e \in Contexts : Leads(e)
    <3>1. Head(keys) = ch /\ Tail(keys) = <<>>
      BY <2>1, ShortSequences
    <3>2. Leads("none")
      BY <1>6, <1>7, <1>9, <1>8, <3>1
    <3> QED BY <1>2, <1>7, <2>1, <3>2
  <2>2. ASSUME NEW a, NEW b, keys = <<"esc", a, b>>, <<a, b>> \in {<<"O", "P">>, <<"[", "C">>}
        PROVE  Effects /\ \E e \in Contexts : Leads(e)
    <3>1. Head(keys) = "esc" /\ Tail(keys) = <<a, b>>
      BY <2>2, ShortSequences
    <3>2. Leads("esc")
      BY <1>6, <1>7, <1>9, <1>8, <2>2, <3>1
    <3>3. Effects
      BY <1>4, <2>2
    <3> QED BY <1>7, <3>2, <3>3
  <2>3. ASSUME NEW size \in Reported, keys = <<"esc", "[", size, "R">>
        PROVE  Effects /\ \E e \in Contexts : Leads(e)
    <3>1. Head(keys) = "esc" /\ Tail(keys) = <<"[", size, "R">>
      BY <2>3, ShortSequences
    <3>2. Leads("esc")
      BY <1>6, <1>7, <1>9, <1>8, <3>1
    <3> QED BY <1>5, <1>7, <2>3, <3>2
  <2> QED BY <1>6, <1>9, <2>1, <2>2, <2>3
<1>10. CASE d = "esc"
  <2>1. CASE keys = <<"O", "P">>
    <3>1. Leads("O")
      BY <1>6, <1>7, <1>10, <1>8, <2>1, ShortSequences
    <3> QED BY <1>3, <1>7, <2>1, <3>1
  <2>2. CASE keys = <<"[", "C">>
    <3>1. Leads("[")
      BY <1>6, <1>7, <1>10, <1>8, <2>2, ShortSequences
    <3> QED BY <1>3, <1>7, <2>2, <3>1
  <2>3. ASSUME NEW size \in Reported, keys = <<"[", size, "R">>
        PROVE  Effects /\ \E e \in Contexts : Leads(e)
    <3>1. Head(keys) = "[" /\ Tail(keys) = <<size, "R">>
      BY <2>3, ShortSequences
    <3>2. Leads("[")
      BY <1>6, <1>7, <1>10, <1>8, <3>1
    <3> QED BY <1>4, <1>7, <2>3, <3>2
  <2> QED BY <1>6, <1>10, <2>1, <2>2, <2>3
<1>11. CASE d = "O" \/ d = "size"
  <2>1. \E ch \in {"P", "R"} : keys = <<ch>> /\ <<d, ch, "none">> \in Moves
    BY <1>6, <1>11, <1>8
  <2>2. PICK ch \in {"P", "R"} : keys = <<ch>> /\ <<d, ch, "none">> \in Moves
    BY <2>1
  <2>3. Head(keys) = ch /\ Tail(keys) = <<>>
    BY <2>2
  <2>4. Leads("none")
    BY <1>6, <1>7, <2>2, <2>3
  <2> QED BY <1>2, <1>7, <2>2, <2>4
<1>12. CASE d = "["
  <2>1. CASE keys = <<"C">>
    <3>1. Leads("none")
      BY <1>6, <1>7, <1>12, <1>8, <2>1, ShortSequences
    <3> QED BY <1>2, <1>7, <2>1, <3>1
  <2>2. ASSUME NEW size \in Reported, keys = <<size, "R">>
        PROVE  Effects /\ \E e \in Contexts : Leads(e)
    <3>1. Head(keys) = size /\ Tail(keys) = <<"R">>
      BY <2>2, ShortSequences
    <3>2. Leads("size")
      BY <1>6, <1>7, <1>12, <1>8, <3>1
    <3> QED BY <1>1, <1>3, <1>7, <2>2, <3>2
  <2> QED BY <1>6, <1>12, <2>1, <2>2
<1> QED BY <1>7, <1>9, <1>10, <1>11, <1>12

\* The command line follows, and the character has its effect.
LEMMA CliFollows ==
    ASSUME CliTypeOK, CliTask, NEW c \in Contexts, NEW d \in Contexts, At(c),
           ttyrx # <<>>, <<c, ttyrx[1], d>> \in Moves
    PROVE  /\ ttyrx' = <<>> /\ At(d)'
           /\ displayMode' = PageAfter(ttyrx, displayMode)
           /\ powerKey' = PowerAfter(ttyrx, powerKey)
<1> DEFINE ch == ttyrx[1]
           Effects(page, power) == displayMode' = page /\ powerKey' = power
<1>1. ttyrx = <<ch>> /\ Head(ttyrx) = ch /\ ttyrx' = <<>>
  <2>1. ttyrx \in Seq(Chars) /\ Len(ttyrx) <= 1 /\ ttyrx' = <<>>
    BY DEF CliTypeOK, CliTask
  <2> DEFINE n == Len(ttyrx)
  <2>2. n = 1
    <3>1. n \in Nat /\ n # 0 /\ n <= 1
      BY <2>1
    <3> HIDE DEF n
    <3> QED BY <3>1
  <2> QED BY <2>1, <2>2
<1>2. /\ \A page : PageAfter(ttyrx, page) = IF ch = "C" THEN NextPage[page] ELSE page
      /\ \A power : PowerAfter(ttyrx, power) = IF ch = "p" THEN ~power ELSE power
  BY <1>1, ShortSequences DEF PageAfter, PowerAfter
<1> HIDE DEF ch
<1>3. /\ ch = "esc" => Escape(TRUE, <<>>) /\ UNCHANGED <<powerKey, sizeVars, screenVars>>
      /\ ch # "esc" /\ esc => HandleEscapeChar(ch)
      /\ ch # "esc" /\ ~esc => HandleKey(ch)
  BY <1>1 DEF CliTask
<1>4. \A size \in Reported : size \notin Letters
  BY CliAssumption
<1>5. EscLimit \in Nat /\ EscLimit > 3
  BY CliAssumption
<1>6. CASE c = "none"
  <2>1. ~esc
    BY <1>6 DEF At
  <2>2. (ch \in {"p", " "} /\ d = "none") \/ (ch = "esc" /\ d = "esc")
    BY <1>6 DEF Moves, ch
  <2>3. CASE ch = "p"
    BY <1>1, <1>2, <1>3, <2>1, <2>2, <2>3 DEF HandleKey, ScheduleDisplay, At
  <2>4. CASE ch = " "
    <3>1. ScheduleDisplay("reset") /\ UNCHANGED <<powerKey, esc>>
      BY <1>3, <2>1, <2>4 DEF HandleKey
    <3> QED BY <1>1, <1>2, <2>1, <2>2, <2>4, <3>1 DEF ScheduleDisplay, At
  <2>5. CASE ch = "esc"
    BY <1>1, <1>2, <1>3, <2>1, <2>2, <2>5 DEF Escape, screenVars, At
  <2> QED BY <2>2, <2>3, <2>4, <2>5
<1>7. ASSUME esc, Len(escbuf) \in 0..2, ch # "esc"
      PROVE  LET seq == Append(escbuf, ch)
             IN  /\ Continues(seq) => /\ esc' = TRUE /\ escbuf' = seq
                                      /\ UNCHANGED <<powerKey, displayMode>>
                 /\ ~Continues(seq) => esc' = FALSE /\ HandleEscapeSeq(seq)
  <2>1. ~(Len(escbuf) >= EscLimit)
    BY <1>5, <1>7
  <2>2. HandleEscapeChar(ch)
    BY <1>3, <1>7
  <2>3. LET seq == Append(escbuf, ch)
        IN  IF Continues(seq) THEN Escape(TRUE, seq) /\ UNCHANGED <<powerKey, sizeVars, screenVars>>
            ELSE Escape(FALSE, <<>>) /\ HandleEscapeSeq(seq)
    BY <2>1, <2>2, Zenon DEF HandleEscapeChar
  <2> QED BY <2>3 DEF Escape, screenVars
<1>8. CASE c = "esc"
  <2>1. esc /\ escbuf = <<>> /\ Append(<<>>, ch) = <<ch>> /\ Len(<<>>) = 0
    BY <1>8, SequenceGrows DEF At
  <2>2. ch \in {"O", "["} /\ d = ch
    BY <1>8 DEF Moves, ch
  <2>3. Continues(<<ch>>)
    BY <2>2, ShortSequences DEF Continues
  <2>4. esc' = TRUE /\ escbuf' = <<ch>> /\ UNCHANGED <<powerKey, displayMode>>
    <3>1. Append(escbuf, ch) = <<ch>> /\ Len(escbuf) \in 0..2 /\ ch # "esc"
      BY <2>1, <2>2
    <3> QED BY <1>7, <2>1, <2>3, <3>1, Zenon
  <2> QED BY <1>1, <1>2, <2>2, <2>4 DEF At
<1>9. CASE c = "O"
  <2>1. esc /\ escbuf = <<"O">> /\ Len(<<"O">>) = 1 /\ Append(<<"O">>, ch) = <<"O", ch>>
    BY <1>9, SequenceGrows DEF At
  <2>2. ch = "P" /\ d = "none"
    BY <1>9 DEF Moves, ch
  <2>3. ~Continues(<<"O", ch>>)
    BY <1>4, <2>2 DEF Continues, Letters
  <2>4. esc' = FALSE /\ HandleEscapeSeq(<<"O", ch>>)
    <3>1. Append(escbuf, ch) = <<"O", ch>> /\ Len(escbuf) \in 0..2 /\ ch # "esc"
      BY <2>1, <2>2
    <3> QED BY <1>7, <2>1, <2>3, <3>1, Zenon
  <2>5. ~IsReport(<<"O", ch>>) /\ <<"O", ch>> # <<"[", "C">>
    BY DEF IsReport
  <2>6. UNCHANGED <<powerKey, displayMode>>
    BY <2>4, <2>5 DEF HandleEscapeSeq, screenVars
  <2> QED BY <1>1, <1>2, <2>2, <2>4, <2>6 DEF At
<1>10. CASE c = "["
  <2>1. esc /\ escbuf = <<"[">> /\ Len(<<"[">>) = 1 /\ Append(<<"[">>, ch) = <<"[", ch>>
    BY <1>10, SequenceGrows DEF At
  <2>2. (ch = "C" /\ d = "none") \/ (ch \in Reported /\ d = "size")
    BY <1>10 DEF Moves, ch
  <2>3. CASE ch = "C" /\ d = "none"
    <3>1. ~Continues(<<"[", ch>>)
      BY <1>4, <2>3 DEF Continues, Letters
    <3>2. esc' = FALSE /\ HandleEscapeSeq(<<"[", ch>>)
      <4>1. Append(escbuf, ch) = <<"[", ch>> /\ Len(escbuf) \in 0..2 /\ ch # "esc"
        BY <2>1, <2>3
      <4> QED BY <1>7, <2>1, <3>1, <4>1, Zenon
    <3>3. ~IsReport(<<"[", ch>>)
      BY DEF IsReport
    <3>4. ChoosePage(NextPage[displayMode]) /\ UNCHANGED powerKey
      BY <2>3, <3>2, <3>3 DEF HandleEscapeSeq
    <3> QED BY <1>1, <1>2, <2>3, <3>2, <3>4 DEF At, ChoosePage
  <2>4. CASE ch \in Reported /\ d = "size"
    <3>1. Continues(<<"[", ch>>) /\ ch \notin {"esc", "C", "p"}
      BY <1>4, <2>4 DEF Continues, Letters
    <3>2. esc' = TRUE /\ escbuf' = <<"[", ch>> /\ UNCHANGED <<powerKey, displayMode>>
      <4>1. Append(escbuf, ch) = <<"[", ch>> /\ Len(escbuf) \in 0..2 /\ ch # "esc"
        BY <2>1, <3>1
      <4> QED BY <1>7, <2>1, <3>1, <4>1, Zenon
    <3> QED BY <1>1, <1>2, <2>4, <3>1, <3>2 DEF At
  <2> QED BY <2>2, <2>3, <2>4
<1>11. CASE c = "size"
  <2>1. PICK size \in Reported : escbuf = <<"[", size>>
    BY <1>11 DEF At
  <2>2. /\ esc /\ Len(<<"[", size>>) = 2
        /\ Append(<<"[", size>>, ch) = <<"[", size, ch>>
    BY <1>11, SequenceGrows DEF At
  <2>3. ch = "R" /\ d = "none"
    BY <1>11 DEF Moves, ch
  <2>4. ~Continues(<<"[", size, ch>>)
    BY <1>4, <2>3 DEF Continues, Letters
  <2>5. esc' = FALSE /\ HandleEscapeSeq(<<"[", size, ch>>)
    <3>1. Append(escbuf, ch) = <<"[", size, ch>> /\ Len(escbuf) \in 0..2 /\ ch # "esc"
      BY <2>1, <2>2, <2>3
    <3> QED BY <1>7, <2>2, <2>4, <3>1, Zenon
  <2>6. IsReport(<<"[", size, ch>>) /\ <<"[", size, ch>> # <<"[", "C">>
    BY <2>3 DEF IsReport
  <2>7. TakeSize(<<"[", size, ch>>[2]) /\ UNCHANGED powerKey
    BY <2>5, <2>6 DEF HandleEscapeSeq
  <2>8. UNCHANGED displayMode
    BY <2>7 DEF TakeSize, ScheduleDisplay, screenVars
  <2> QED BY <1>1, <1>2, <2>3, <2>5, <2>7, <2>8 DEF At
<1> QED BY <1>6, <1>8, <1>9, <1>10, <1>11 DEF Contexts

\* A key joins what is under way.
LEMMA KeyPressed ==
    ASSUME CliInv, NEW key \in Keys, Press(key), wanted' # Unknown
    PROVE  InStepWithKeys'
<1>1. /\ line = <<>> /\ line' = Sent[key] /\ key # "ESC" /\ wanted # Unknown
      /\ UNCHANGED <<ttyrx, esc, escbuf, displayMode, powerKey>>
      /\ wanted' = CASE key = "right" -> [wanted EXCEPT !.mode = NextPage[@]]
                     [] key = "p"     -> [wanted EXCEPT !.power = ~@]
                     [] OTHER         -> wanted
  BY DEF Press, screenVars
<1>2. /\ InSequence /\ wanted.mode = PageAfter(ttyrx, displayMode)
      /\ wanted.power = PowerAfter(ttyrx, powerKey)
  <2>1. /\ \A page : PageAfter(<<>>, page) = page
        /\ \A power : PowerAfter(<<>>, power) = power
    BY DEF PageAfter, PowerAfter
  <2> QED BY <1>1, <2>1 DEF CliInv, InStepWithKeys
<1>3. PICK m \in Pages, w \in BOOLEAN : wanted = [mode |-> m, power |-> w]
  BY <1>1 DEF CliInv, CliTypeOK
<1>4. InSequence'
  <2>1. line \in Rests("none") /\ line' \in Rests("none")
    BY <1>1, KeySequences DEF Rests
  <2>2. PICK d \in Contexts :
            /\ line \in Rests(d)
            /\ ttyrx = <<>> => At(d)
            /\ ttyrx # <<>> => \E c \in Contexts : At(c) /\ <<c, ttyrx[1], d>> \in Moves
    BY <1>2 DEF InSequence
  <2>3. d = "none"
    BY <1>1, <2>2 DEF Rests, Contexts
  <2>4. \A c \in Contexts : At(c)' <=> At(c)
    BY <1>1 DEF At
  <2> QED BY <1>1, <2>1, <2>2, <2>3, <2>4 DEF InSequence
<1>5. wanted'.mode = PageAfter(line', m)
  <2>1. CASE key = "right"
    <3>1. wanted'.mode = NextPage[m]
      BY <1>1, <1>3, <2>1
    <3>2. line' = <<"esc", "[", "C">>
      BY <1>1, <2>1, KeySequences
    <3>3. line' # <<>> /\ line'[Len(line')] = "C"
      BY <3>2
    <3> QED BY <3>1, <3>3 DEF PageAfter
  <2>2. CASE key # "right"
    <3>1. wanted'.mode = m
      BY <1>1, <1>3, <2>2
    <3>2. line' = <<"p">> \/ line' = <<"esc", "O", "P">> \/ line' = <<" ">>
      BY <1>1, <2>2, KeySequences
    <3>3. /\ <<"p">>[Len(<<"p">>)] = "p" /\ <<" ">>[Len(<<" ">>)] = " "
          /\ <<"esc", "O", "P">>[Len(<<"esc", "O", "P">>)] = "P"
      OBVIOUS
    <3>4. line'[Len(line')] # "C"
      BY <3>2, <3>3
    <3> QED BY <3>1, <3>4 DEF PageAfter
  <2> QED BY <2>1, <2>2
<1>6. wanted'.power = PowerAfter(line', w)
  <2>1. CASE key = "p"
    <3>1. wanted' = [mode |-> m, power |-> ~w]
      BY <1>1, <1>3, <2>1, Zenon
    <3>2. line' = <<"p">>
      BY <1>1, <2>1, KeySequences
    <3>3. wanted'.power = ~w
      BY <3>1, Zenon
    <3> QED BY <3>2, <3>3, Zenon DEF PowerAfter
  <2>2. CASE key # "p"
    <3>1. wanted'.power = w
      BY <1>1, <1>3, <2>2
    <3>2. line' = <<"esc", "O", "P">> \/ line' = <<"esc", "[", "C">> \/ line' = <<" ">>
      BY <1>1, <2>2, KeySequences
    <3>3. /\ <<"esc", "O", "P">> # <<"p">> /\ <<"esc", "[", "C">> # <<"p">>
          /\ <<" ">> # <<"p">>
      OBVIOUS
    <3>4. line' # <<"p">>
      BY <3>2, <3>3
    <3> QED BY <3>1, <3>4 DEF PowerAfter
  <2> QED BY <2>1, <2>2
<1> QED BY <1>1, <1>2, <1>3, <1>4, <1>5, <1>6 DEF InStepWithKeys

\* A report of the terminal is one more sequence.
LEMMA ReportSent ==
    ASSUME CliInv, Report, wanted' # Unknown
    PROVE  InStepWithKeys'
<1>1. /\ line = <<>> /\ wanted # Unknown
      /\ UNCHANGED <<wanted, ttyrx, esc, escbuf, displayMode, powerKey>>
  BY DEF Report, screenVars
<1>2. PICK size \in Reported : line' = <<"esc", "[", size, "R">>
  BY DEF Report, CliInv, CliTypeOK, Reported
<1>3. /\ \A page : PageAfter(line', page) = page
      /\ \A power : PowerAfter(line', power) = power
  BY <1>2 DEF PageAfter, PowerAfter
<1>4. /\ \A page : PageAfter(<<>>, page) = page
      /\ \A power : PowerAfter(<<>>, power) = power
  BY DEF PageAfter, PowerAfter
<1>5. InStepWithKeys
  BY <1>1 DEF CliInv
<1>6. InSequence'
  <2>1. line' \in Rests("none")
    BY <1>2 DEF Rests
  <2>2. PICK d \in Contexts :
            /\ line \in Rests(d)
            /\ ttyrx = <<>> => At(d)
            /\ ttyrx # <<>> => \E c \in Contexts : At(c) /\ <<c, ttyrx[1], d>> \in Moves
    BY <1>5 DEF InStepWithKeys, InSequence
  <2>3. d = "none"
    BY <1>1, <2>2 DEF Rests, Contexts
  <2>4. \A c \in Contexts : At(c)' <=> At(c)
    BY <1>1 DEF At
  <2> QED BY <1>1, <2>1, <2>2, <2>3, <2>4 DEF InSequence
<1> QED BY <1>1, <1>3, <1>4, <1>5, <1>6 DEF InStepWithKeys

\* A character arrives in an empty queue.
LEMMA CharReceived ==
    ASSUME CliInv, ReceiveChar, wanted' # Unknown
    PROVE  InStepWithKeys'
<1>1. /\ line # <<>> /\ line' = Tail(line) /\ ttyrx = <<>> /\ ttyrx' = <<Head(line)>>
      /\ wanted # Unknown /\ UNCHANGED <<wanted, esc, escbuf, displayMode, powerKey>>
  BY DEF ReceiveChar, screenVars
<1>2. InStepWithKeys
  BY <1>1 DEF CliInv
<1>3. PICK d \in Contexts : line \in Rests(d) /\ At(d)
  BY <1>1, <1>2 DEF InStepWithKeys, InSequence
<1>4. /\ \A page : PageAfter(ttyrx, page) = page
      /\ \A power : PowerAfter(ttyrx, power) = power
  BY <1>1 DEF PageAfter, PowerAfter
<1>5. \E e \in Contexts : <<d, Head(line), e>> \in Moves /\ Tail(line) \in Rests(e)
  BY <1>1, <1>3, LineLeadsOn
<1>6. /\ PageAfter(line, displayMode) = PageAfter(line', PageAfter(ttyrx', displayMode'))
      /\ PowerAfter(line, powerKey) = PowerAfter(line', PowerAfter(ttyrx', powerKey'))
  BY <1>1, <1>3, LineLeadsOn
<1>7. InSequence'
  <2>1. ttyrx'[1] = Head(line) /\ ttyrx' # <<>>
    BY <1>1
  <2>2. At(d)'
    BY <1>1, <1>3 DEF At
  <2> QED BY <1>1, <1>5, <2>1, <2>2 DEF InSequence
<1> QED BY <1>1, <1>2, <1>4, <1>6, <1>7 DEF InStepWithKeys

\* The command line takes it.
LEMMA CharTaken ==
    ASSUME CliInv, CliTask, wanted' # Unknown
    PROVE  InStepWithKeys'
<1>1. ttyrx # <<>> /\ wanted # Unknown /\ UNCHANGED <<line, wanted>>
  BY DEF CliTask, lineVars
<1>2. InStepWithKeys
  BY <1>1 DEF CliInv
<1>3. PICK d \in Contexts, c \in Contexts :
          line \in Rests(d) /\ At(c) /\ <<c, ttyrx[1], d>> \in Moves
  BY <1>1, <1>2 DEF InStepWithKeys, InSequence
<1>4. /\ ttyrx' = <<>> /\ At(d)'
      /\ displayMode' = PageAfter(ttyrx, displayMode)
      /\ powerKey' = PowerAfter(ttyrx, powerKey)
  BY <1>1, <1>3, CliFollows DEF CliInv
<1>5. /\ \A page : PageAfter(ttyrx', page) = page
      /\ \A power : PowerAfter(ttyrx', power) = power
  BY <1>4 DEF PageAfter, PowerAfter
<1>6. InSequence'
  BY <1>1, <1>3, <1>4 DEF InSequence
<1> QED BY <1>1, <1>2, <1>4, <1>5, <1>6 DEF InStepWithKeys

\* At the start, and in every step.
LEMMA CliBegins ==
    ASSUME CliInit
    PROVE  CliInv
<1>1. ScreenTypeOK
  BY ScreenAssumption DEF CliInit, ScreenInit, ScreenTypeOK, Kinds, DrawerRests
<1>2. CliTypeOK
  <2>1. <<>> \in Seq(Chars) /\ Len(<<>>) = 0
    OBVIOUS
  <2>2. 0 \in 0..2 /\ 0 \in 0..MaxLost /\ 0 \in 0..MaxStrokes /\ 0 <= EscLimit
    BY CliAssumption
  <2>3. wanted \in [mode : Pages, power : BOOLEAN]
    BY ScreenAssumption DEF CliInit
  <2>4. /\ termSize \in Sizes /\ screenSize \in Reported /\ newSize = NoSize
        /\ esc \in BOOLEAN /\ powerKey \in BOOLEAN /\ sizeSet \in BOOLEAN
    BY CliAssumption DEF CliInit, Reported
  <2> QED BY <2>1, <2>2, <2>3, <2>4 DEF CliInit, CliTypeOK
<1>3. InStepWithKeys
  <2>1. line \in Rests("none") /\ At("none") /\ "none" \in Contexts
    BY DEF CliInit, Rests, At, Contexts
  <2>2. InSequence
    BY <2>1 DEF CliInit, InSequence
  <2> QED BY <2>2 DEF CliInit, ScreenInit, InStepWithKeys, PageAfter, PowerAfter
<1> QED BY <1>1, <1>2, <1>3 DEF CliInv

LEMMA CliKept ==
    ASSUME CliInv, [CliNext]_<<cliVars, drawVars>>
    PROVE  CliInv'
<1>1. ScreenTypes'
  <2>1. CASE UNCHANGED <<cliVars, drawVars>>
    BY <2>1 DEF CliInv, ScreenTypes, ScreenTypeOK, CliTypeOK, cliVars, drawVars, lineVars, sizeVars
  <2> QED BY <2>1, LineTypes, TaskTypes DEF CliInv, CliNext, ScreenTypes
<1>2. ASSUME wanted' # Unknown PROVE InStepWithKeys'
  <2>1. CASE DisplayAsks \/ DisplayTimer \/ UNCHANGED <<cliVars, drawVars>>
    <3>1. UNCHANGED <<line, wanted, ttyrx, esc, escbuf, displayMode, powerKey>>
      BY <2>1 DEF DisplayAsks, DisplayTimer, ScheduleDisplay, cliVars, lineVars
    <3>2. \A c \in Contexts : At(c)' <=> At(c)
      BY <3>1 DEF At
    <3>3. InStepWithKeys
      BY <1>2, <3>1 DEF CliInv
    <3>4. InSequence'
      BY <3>1, <3>2, <3>3 DEF InStepWithKeys, InSequence
    <3> QED BY <3>1, <3>3, <3>4 DEF InStepWithKeys, PageAfter, PowerAfter
  <2> QED BY <1>2, <2>1, KeyPressed, ReportSent, CharReceived, CharTaken DEF CliNext, Terminal
<1> QED BY <1>1, <1>2 DEF CliInv, ScreenTypes

\* With nothing under way the page and the power are those of the keys.
LEMMA KeysAreHonoured == CliInv => KeysHonoured
BY DEF CliInv, InStepWithKeys, KeysHonoured, PageAfter, PowerAfter

LEMMA CliInvariant == CliSpec => []CliInv
BY CliBegins, CliKept, PTL DEF CliSpec

\* Type correctness of the command line and its terminal, for any pages, sizes and keys.
THEOREM CliTypeCorrect == CliSpec => []CliTypeOK
BY CliInvariant, PTL DEF CliInv

\* Each key has its effect once, whenever it comes and whatever the terminal reports in
\* between: for any number of pages, sizes and keys.
THEOREM EachKeyOnce == CliSpec => []KeysHonoured
BY CliInvariant, KeysAreHonoured, PTL

-----------------------------------------------------------------------------
(* All that tasks and interrupts share                                     *)

SharedNext == I2cMaster \/ I2cSlave \/ Logs \/ Network \/ Console

\* In the run of all units each that has its own variables behaves as it does alone.
LEMMA SharedRunsAlone ==
    SharedInit /\ [][SharedNext]_sharedVars
        => Spec /\ SlaveSpec /\ LogSpec /\ EthSpec /\ RxSpec /\ TxSpec /\ TtySpec
<1>1. SharedInit => /\ Init /\ SlaveInit /\ LogInit /\ EthInit /\ RxInit /\ TxInit
                    /\ TtyInit
  BY DEF SharedInit
<1>2. ASSUME [SharedNext]_sharedVars
      PROVE  /\ [Next]_vars /\ [SlaveNext]_slaveVars /\ [LogNext]_logVars
             /\ [EthNext]_ethVars /\ [RxNext]_rxVars /\ [TxNext]_txVars /\ [TtyNext]_ttyVars
  <2>1. CASE I2cMaster
    <3>1. /\ Next \/ UNCHANGED vars
          /\ UNCHANGED <<unit, slaveVars, logVars, ethVars, rxVars, txVars, consoleVars>>
      BY <2>1, Zenon DEF I2cMaster
    <3>2. UNCHANGED ttyVars
      BY <3>1 DEF consoleVars
    <3> QED BY <3>1, <3>2, Zenon
  <2>2. CASE I2cSlave
    <3>1. UNCHANGED ttyVars
      BY <2>2 DEF I2cSlave, consoleVars
    <3> QED BY <2>2, <3>1, Zenon DEF I2cSlave
  <2>3. CASE Logs
    <3>1. UNCHANGED ttyVars
      BY <2>3 DEF Logs, consoleVars
    <3> QED BY <2>3, <3>1, Zenon DEF Logs
  <2>4. CASE Network
    <3>1. UNCHANGED ttyVars
      BY <2>4 DEF Network, Link, Receive, Send, consoleVars
    <3> QED BY <2>4, <3>1, Zenon DEF Network, Link, Receive, Send
  <2>5. CASE Console
    <3>1. UNCHANGED elsewhere /\ (TtyNext \/ UNCHANGED ttyVars)
      BY <2>5 DEF Console, Prints, Draws, Keyboard
    <3> QED BY <3>1, Zenon DEF elsewhere
  <2>6. CASE UNCHANGED sharedVars
    BY <2>6 DEF sharedVars, consoleVars
  <2> QED BY <1>2, <2>1, <2>2, <2>3, <2>4, <2>5, <2>6 DEF SharedNext
<1> QED BY <1>1, <1>2, PTL DEF Spec, SlaveSpec, LogSpec, EthSpec, RxSpec, TxSpec, TtySpec

\* The display and the command line share their flags and the page: each is in step with
\* its own environment when it is the one that runs.
ConsoleInv ==
    /\ ScreenTypeOK /\ CliTypeOK
    /\ unit = "screen" => ScreenInv
    /\ unit = "keys" => CliInv

LEMMA ConsoleInvariant == SharedInit /\ [][SharedNext]_sharedVars => []ConsoleInv
<1>1. ASSUME SharedInit PROVE ConsoleInv
  <2>1. CliInit
    BY <1>1 DEF SharedInit
  <2>2. CliInv
    BY <2>1, CliBegins
  <2>3. ScreenInv
    BY <2>1, ScreenBegins DEF CliInit
  <2> QED BY <2>2, <2>3 DEF ConsoleInv, CliInv
<1>2. ASSUME ConsoleInv, [SharedNext]_sharedVars PROVE ConsoleInv'
  <2>1. CASE Draws
    <3>1. unit = "screen" /\ unit' = unit /\ ScreenNext /\ UNCHANGED keyVars
      BY <2>1 DEF Draws, elsewhere
    <3>2. ScreenInv'
      BY <1>2, <3>1, ScreenKept DEF ConsoleInv
    <3>3. CliTypeOK'
      BY <1>2, <3>1 DEF ConsoleInv, CliTypeOK, keyVars, lineVars, sizeVars
    <3> QED BY <3>1, <3>2, <3>3 DEF ConsoleInv, ScreenInv
  <2>2. CASE Keyboard
    <3>1. unit = "keys" /\ unit' = unit /\ CliNext
      BY <2>2 DEF Keyboard, elsewhere
    <3>2. CliInv'
      BY <1>2, <3>1, CliKept DEF ConsoleInv
    <3> QED BY <3>1, <3>2 DEF ConsoleInv, CliInv
  <2>3. CASE I2cMaster \/ I2cSlave \/ Logs \/ Network \/ Prints \/ UNCHANGED sharedVars
    <3>1. UNCHANGED <<unit, keyVars, screenVars>>
      BY <2>3 DEF I2cMaster, I2cSlave, Logs, Network, Link, Receive, Send, Prints, elsewhere,
                  consoleVars, sharedVars
    <3>2. UNCHANGED <<cliVars, drawVars>>
      BY <3>1 DEF keyVars, screenVars, cliVars, drawVars
    <3>3. ScreenTypeOK' /\ (ScreenInv => ScreenInv')
      BY <1>2, <3>1, ScreenKept DEF ConsoleInv, ScreenTypeOK, screenVars
    <3>4. CliTypeOK' /\ (CliInv => CliInv')
      <4>1. CliTypeOK'
        BY <1>2, <3>1 DEF ConsoleInv, CliTypeOK, keyVars, lineVars, sizeVars
      <4> QED BY <3>2, <4>1, CliKept
    <3> QED BY <1>2, <3>1, <3>3, <3>4 DEF ConsoleInv
  <2> QED BY <1>2, <2>1, <2>2, <2>3 DEF SharedNext, Console
<1> QED BY <1>1, <1>2, PTL

\* The run adds fairness to them.
LEMMA SharedSteps == SharedSpec => SharedInit /\ [][SharedNext]_sharedVars
BY PTL DEF SharedSpec, SharedNext

\* Every variable that tasks and interrupts share stays in its type, for all values of the
\* constants.
THEOREM SharedTypesCorrect == SharedSpec => []SharedTypesOK
<1>1. /\ TypeOK /\ SlaveTypeOK /\ LogTypeOK /\ EthTypeOK /\ RxTypeOK /\ TxTypeOK /\ TtyTypeOK
      /\ ConsoleInv
      => SharedTypesOK
  BY DEF SharedTypesOK, ConsoleInv
<1> QED BY <1>1, SharedSteps, SharedRunsAlone, ConsoleInvariant, TypeCorrect, SlaveTypeCorrect,
           LogTypeCorrect, LinkTypeCorrect, RxTypeCorrect, TxTypeCorrect, TtyTypeCorrect, PTL

\* What one task hands to another is not lost or mixed up, whatever comes in between, for
\* rings, pages, sizes and registers of any number.
THEOREM NothingLostOrMixed == SharedSpec => []SharedKeep
<1>1. ConsoleInv => /\ unit = "screen" => WrongIsKnown
                    /\ unit = "keys" => KeysHonoured
  BY WrongScreenFound, KeysAreHonoured DEF ConsoleInv
<1>2. /\ LogHoldsLatest /\ LinesWhole /\ OnlyExposedLost /\ FullMeansServed
      /\ ConsoleInv /\ ReadsArriveWhole /\ LinkIsShown
      => SharedKeep
  BY <1>1 DEF SharedKeep
<1> QED BY <1>2, SharedSteps, SharedRunsAlone, ConsoleInvariant, LinesAreWhole, NoCharacterLost,
           ReadsAreWhole, LinkAgrees, PTL

\* No step of the run puts a torn word into the scratch memory of the slave, or ends a
\* series of announcements.
THEOREM SharedStepsAreSafe == SharedSpec => SharedStepsKeep
<1>1. WordsArriveWhole /\ NoSeriesEnds => SharedStepsKeep
  BY DEF SharedStepsKeep
<1> QED BY <1>1, SharedSteps, SharedRunsAlone, WritesAreWhole, SeriesGoOn, PTL

\* The I2C master and the two directions of the network keep their promises in that run
\* as they do alone.
THEOREM BusAndNetworkKeepTheirPromises ==
    SharedSpec => [](/\ TrueMeansDone /\ NoStrayTransfer /\ ReadyWhenLocked
                     /\ ChainsBounded /\ FramesReceived /\ FramesSent)
BY SharedSteps, SharedRunsAlone, CompletionsMatch, BuffersAreLeftAlone, AssertionHolds,
   AnnouncementsBounded, FramesAreReceived, OthersUnharmed, PTL
=============================================================================
