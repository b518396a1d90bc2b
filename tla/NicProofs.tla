----------------------------- MODULE NicProofs -----------------------------
(***************************************************************************)
(* Proofs about Nics, for rings of any length that the drivers accept, a   *)
(* region of any size and reset counters of any value: the cards reach     *)
(* only memory that was allocated for it as long as no register was        *)
(* written during a reset, which i10e.c never does, and i10e.c polls       *)
(* exactly what was received.                                              *)
(***************************************************************************)
EXTENDS Nics, SequenceTheorems, TLAPS

-----------------------------------------------------------------------------
\* Where things are in memory: each allocation by its number.

I10ePlaces ==
  {"vfio", "reset", "wait_reset", "rx_ring", "rx_buffers", "rx_head", "rx_clear", "rx_len",
   "rx_on", "rx_wait", "rx_enable", "tx_ring", "tx_queue", "tx_head", "tx_clear", "tx_len",
   "tx_on", "tx_wait", "send", "send_tail", "wait_dd", "poll_head", "poll_tail", "done"}

X710Places ==
  {"vfio", "queues", "queue_rx", "buffers", "corer", "clear", "clear_tx", "arq_base",
   "arq_len", "atq_base", "atq_len", "arq_tail", "space", "command", "atq_tail", "wait_dd",
   "done"}

\* The descriptors of ring r, the buffer of receive descriptor k, and the
\* frame that i10e.c sends.
RingAt(r) ==
  IF program = "i10e" THEN (IF r = "rx" THEN 1 ELSE RingLen + 2) ELSE (IF r = "rx" THEN 2 ELSE 1)
BufferAt(k) == IF program = "i10e" THEN k + 2 ELSE k + 3
FrameAt == RingLen + 3

\* The address of ring r.
BaseOf(r) == Iova(mem[RingAt(r)].addr)

BufferSize == IF program = "i10e" THEN 2048 ELSE 128

\* How much has been allocated, by where the program is.
Allocated ==
  IF at \in {"vfio", "reset", "wait_reset", "rx_ring", "queues"} THEN 0
  ELSE IF at = "rx_buffers" THEN i + 1
  ELSE IF at = "queue_rx" THEN 1
  ELSE IF at = "buffers" THEN i + 2
  ELSE IF at \in {"rx_head", "rx_clear", "rx_len", "rx_on", "rx_wait", "rx_enable", "tx_ring"}
         THEN RingLen + 1
  ELSE IF \/ program = "x710"
          \/ at \in {"tx_queue", "tx_head", "tx_clear", "tx_len", "tx_on", "tx_wait", "send"}
         THEN RingLen + 2
  ELSE RingLen + 3

-----------------------------------------------------------------------------
\* The invariant.

PlaceInv == at \in IF program = "i10e" THEN I10ePlaces ELSE X710Places

\* Allocations follow each other up to the address top.
Stacked(s, top) ==
  /\ \A n \in 1..Len(s) : s[n].size > 0 /\ s[n].addr + s[n].size <= top
  /\ \A m, n \in 1..Len(s) : m < n => s[m].addr + s[m].size <= s[n].addr

MemInv ==
  /\ Len(mem) = Allocated
  /\ next <= DmaSize
  /\ Stacked(mem, next)

SizeInv == \A r \in Rings : RingAt(r) <= Len(mem) => mem[RingAt(r)].size = RingLen * DescSize

\* What is in the descriptors the program has prepared.
DescInv ==
  /\ \A k \in Slots : BufferAt(k) <= Len(mem) =>
       /\ desc["rx"][k].ready
       /\ desc["rx"][k].buf = Iova(mem[BufferAt(k)].addr)
       /\ desc["rx"][k].size = BufferSize /\ mem[BufferAt(k)].size = BufferSize
  /\ program = "i10e" /\ FrameAt <= Len(mem) =>
       /\ desc["tx"][0].ready
       /\ desc["tx"][0].buf = Iova(mem[FrameAt].addr)
       /\ desc["tx"][0].size = 64 /\ mem[FrameAt].size = 128
  /\ program = "x710" =>
       /\ desc["tx"][0].buf = -1
       /\ at \in {"atq_tail", "wait_dd", "done"} => desc["tx"][0].ready

\* Ring r is set up as the program goes on: not yet, or its base is known, or
\* also its length, its state is one of states and its tail this.
Untouched(r) == ring[r] = Off

Based(r) ==
  /\ ring[r].base = BaseOf(r) /\ ring[r].len = 0
  /\ ring[r].state = "off" /\ ring[r].tail = 0

SetTo(r, states, tail) ==
  /\ ring[r].base = BaseOf(r) /\ ring[r].len = RingLen
  /\ ring[r].state \in states
  /\ ring[r].tail = tail

RxInv ==
  IF program = "i10e"
  THEN IF at \in {"vfio", "reset", "wait_reset", "rx_ring", "rx_buffers"} THEN Untouched("rx")
       ELSE IF at \in {"rx_head", "rx_clear", "rx_len"} THEN Based("rx")
       ELSE IF at = "rx_on" THEN SetTo("rx", {"off"}, 0)
       ELSE IF at = "rx_wait" THEN SetTo("rx", {"asked", "on"}, 0)
       ELSE SetTo("rx", {"on"}, RingLen - 1)
  ELSE IF at \in {"vfio", "queues", "queue_rx", "buffers", "corer", "clear", "clear_tx", "arq_base"}
         THEN Untouched("rx")
       ELSE IF at = "arq_len" THEN Based("rx")
       ELSE IF at \in {"atq_base", "atq_len", "arq_tail"} THEN SetTo("rx", {"on", "failed"}, 0)
       ELSE SetTo("rx", {"on", "failed"}, Posted)

TxInv ==
  IF program = "i10e"
  THEN IF at \in {"tx_head", "tx_clear", "tx_len"} THEN Based("tx")
       ELSE IF at = "tx_on" THEN SetTo("tx", {"off"}, 0)
       ELSE IF at = "tx_wait" THEN SetTo("tx", {"asked", "on"}, 0)
       ELSE IF at \in {"send", "send_tail"} THEN SetTo("tx", {"on"}, 0)
       ELSE IF at \in {"wait_dd", "poll_head", "poll_tail", "done"} THEN SetTo("tx", {"on"}, 1)
       ELSE Untouched("tx")
  ELSE IF at = "atq_len" THEN Based("tx")
       ELSE IF at \in {"arq_tail", "space", "command", "atq_tail"} THEN SetTo("tx", {"on", "failed"}, 0)
       ELSE IF at \in {"wait_dd", "done"} THEN SetTo("tx", {"on", "failed"}, 1)
       ELSE Untouched("tx")

\* The card never wraps around, and resets only while the program waits, or
\* when x710.c has seen the end of a reset that is not over.
CardInv ==
  /\ \A r \in Rings : ring[r].head <= ring[r].tail
  /\ reset # 0 => at \in {"wait_reset", "corer"} \/ (program = "x710" /\ at = "clear")

\* What i10e.c finds received.
PollInv ==
  program = "i10e" =>
    /\ \A k \in Slots : desc["rx"][k].full <=> k < ring["rx"].head
    /\ at = "poll_tail" => i \in Slots /\ due = {k \in Slots : k < i}

IndInv ==
  /\ TypeOK /\ PlaceInv
  /\ alive => MemInv /\ SizeInv /\ DescInv /\ RxInv /\ TxInv /\ CardInv /\ PollInv
  /\ PollExact /\ (program = "i10e" /\ at = "done" => alive)

\* What x710.c has written during a reset is not there: beyond that only
\* what the types ask for is known.
SetPlaces ==
  {"clear_tx", "arq_base", "arq_len", "atq_base", "atq_len", "arq_tail", "space", "command",
   "atq_tail", "wait_dd", "done"}

LostInv ==
  /\ NicTypeOK /\ program = "x710" /\ lost
  /\ at \in SetPlaces /\ Len(mem) = RingLen + 2

NicInv == IF lost THEN LostInv ELSE IndInv

-----------------------------------------------------------------------------
\* Lemmas.

LEMMA Numbers ==
  /\ RingLen \in Nat /\ RingLen >= 8 /\ DmaSize \in Nat
  /\ 0 \in Slots /\ RingLen - 1 \in Slots /\ Posted \in Slots /\ 1 \in Slots
  /\ \A k \in Slots : k \in Nat /\ k < RingLen
  /\ 0 \notin ResetValues /\ ResetValues \subseteq Int
  /\ "rx" \in Rings /\ "tx" \in Rings
<1>1. RingLen \in Nat /\ RingLen > 0 /\ RingLen % 8 = 0
  BY NicAssumption
<1>2. RingLen >= 8
  BY <1>1
<1>3. QED
  BY <1>1, <1>2, NicAssumption, PostedAssumption DEF Slots, Rings

LEMMA Remainders ==
  ASSUME NEW a \in Int, 0 - RingLen < a, a < RingLen
  PROVE  a % RingLen = IF a >= 0 THEN a ELSE a + RingLen
BY Numbers

LEMMA AfterValue ==
  /\ \A k \in Slots : After(k) \in Slots
  /\ \A k \in Slots : k < RingLen - 1 => After(k) = k + 1
  /\ After(RingLen - 1) = 0
<1>1. ASSUME NEW k \in Slots, k < RingLen - 1 PROVE After(k) = k + 1 /\ k + 1 \in Slots
  BY <1>1, Numbers, Remainders DEF After, Slots
<1>2. After(RingLen - 1) = 0
  BY Numbers DEF After
<1>3. \A k \in Slots : k < RingLen - 1 \/ k = RingLen - 1
  BY Numbers DEF Slots
<1>4. QED
  BY <1>1, <1>2, <1>3, Numbers

LEMMA OwnedBetween ==
  ASSUME NEW r \in Rings, ring[r].head \in Slots, ring[r].tail \in Slots,
         ring[r].head <= ring[r].tail, NEW k \in Owned(r)
  PROVE  k \in Slots /\ ring[r].head <= k /\ k < ring[r].tail
<1>1. PICK h \in Slots, t \in Slots : h = ring[r].head /\ t = ring[r].tail /\ h <= t
  OBVIOUS
<1>2. k \in Slots /\ (k - h) % RingLen < (t - h) % RingLen
  BY <1>1 DEF Owned
<1>3. h \in Int /\ t \in Int /\ k \in Int /\ k - h \in Int /\ t - h \in Int
  BY <1>2, Numbers
<1>4. (t - h) % RingLen = t - h
  BY <1>1, <1>3, Numbers, Remainders
<1>5. (k - h) % RingLen = IF k - h >= 0 THEN k - h ELSE k - h + RingLen
  BY <1>2, <1>3, Numbers, Remainders
<1>6. QED
  BY <1>1, <1>2, <1>3, <1>4, <1>5, Numbers

LEMMA RoundUpBounds ==
  ASSUME NEW a \in Nat, NEW unit \in {1, 64, 128}
  PROVE  RoundUp(a, unit) \in Nat /\ a <= RoundUp(a, unit)
BY DEF RoundUp

LEMMA Offset == IovaOffset \in Nat /\ \A a, b \in Nat : Iova(a) \in Nat /\ (Iova(a) = Iova(b) => a = b)
BY DEF IovaOffset, Iova

LEMMA MemTypes ==
  ASSUME NicTypeOK
  PROVE  /\ program \in {"i10e", "x710"}
         /\ Len(mem) \in Nat /\ next \in Nat
         /\ \A n \in 1..Len(mem) : mem[n].addr \in Nat /\ mem[n].size \in Nat
<1>1. mem \in Seq([addr : Nat, size : Nat]) /\ next \in Nat /\ program \in {"i10e", "x710"}
  BY DEF NicTypeOK
<1>2. \A n \in 1..Len(mem) : mem[n] \in [addr : Nat, size : Nat]
  BY <1>1, ElementOfSeq
<1>3. QED
  BY <1>1, <1>2, LenProperties

LEMMA RegisterTypes ==
  ASSUME NicTypeOK, NEW r \in Rings
  PROVE  /\ ring[r] \in [base : Int, len : {0, RingLen}, head : Slots, tail : Slots,
                        state : {"off", "asked", "on", "failed"}]
         /\ ring[r].head \in Slots /\ ring[r].tail \in Slots
         /\ ring[r].head \in Nat /\ ring[r].tail \in Nat
BY Numbers DEF NicTypeOK

\* The invariant says enough of memory, rings and descriptors.

\* Allocations are in different places.
LEMMA AddressesDiffer ==
  ASSUME NicTypeOK, MemInv, NEW m \in 1..Len(mem), NEW n \in 1..Len(mem), m # n
  PROVE  /\ Apart(mem[m], mem[n])
         /\ Iova(mem[m].addr) # Iova(mem[n].addr)
         /\ mem[m].addr + mem[m].size <= DmaSize
<1>1. /\ mem[m].addr \in Nat /\ mem[m].size \in Nat /\ mem[n].addr \in Nat /\ mem[n].size \in Nat
      /\ mem[m].size > 0 /\ mem[n].size > 0
      /\ mem[m].addr + mem[m].size <= next /\ next <= DmaSize /\ next \in Nat
  BY MemTypes DEF MemInv, Stacked
<1>2. m < n \/ n < m
  OBVIOUS
<1>3. \/ mem[m].addr + mem[m].size <= mem[n].addr
      \/ mem[n].addr + mem[n].size <= mem[m].addr
  BY <1>2 DEF MemInv, Stacked
<1>4. mem[m].addr # mem[n].addr
  BY <1>1, <1>3
<1>5. Iova(mem[m].addr) # Iova(mem[n].addr)
  BY <1>1, <1>4, Offset
<1>6. mem[m].addr + mem[m].size <= DmaSize
  BY <1>1, Numbers
<1>7. QED
  BY <1>3, <1>5, <1>6 DEF Apart

\* Where the rings are, once they are anywhere.
LEMMA RingBase ==
  ASSUME IndInv, alive, NEW r \in Rings, ring[r].base # -1 \/ ring[r].state = "on"
  PROVE  /\ RingAt(r) \in 1..Len(mem)
         /\ ring[r].base = Iova(mem[RingAt(r)].addr)
<1>1. /\ TypeOK /\ PlaceInv /\ RxInv /\ TxInv /\ Len(mem) = Allocated
      /\ i \in Nat /\ Len(mem) \in Nat
  BY LenProperties DEF IndInv, MemInv, TypeOK, NicTypeOK
<1>2. ~Untouched(r)
  BY DEF Untouched, Off
<1>3. CASE r = "rx"
  <2>1. ring["rx"].base = Iova(mem[RingAt("rx")].addr)
    BY <1>1, <1>2, <1>3 DEF RxInv, Based, SetTo, BaseOf
  <2>2. RingAt("rx") <= Allocated
    BY <1>1, <1>2, <1>3, Numbers DEF RxInv, RingAt, Allocated, PlaceInv, I10ePlaces, X710Places
  <2>3. QED
    BY <1>1, <1>3, <2>1, <2>2 DEF RingAt
<1>4. CASE r = "tx"
  <2>1. ring["tx"].base = Iova(mem[RingAt("tx")].addr)
    BY <1>1, <1>2, <1>4 DEF TxInv, Based, SetTo, BaseOf
  <2>2. RingAt("tx") <= Allocated /\ RingAt("tx") >= 1
    BY <1>1, <1>2, <1>4, Numbers DEF TxInv, RingAt, Allocated, PlaceInv, I10ePlaces, X710Places
  <2>3. RingAt("tx") \in Nat
    BY Numbers DEF RingAt
  <2>4. QED
    BY <1>1, <1>4, <2>1, <2>2, <2>3
<1>5. QED
  BY <1>3, <1>4 DEF Rings

\* A queue is on only with its length.
LEMMA RingLength ==
  ASSUME IndInv, alive, NEW r \in Rings, ring[r].state = "on"
  PROVE  ring[r].len = RingLen
<1>1. TypeOK /\ PlaceInv /\ RxInv /\ TxInv
  BY DEF IndInv
<1>2. ~Untouched(r) /\ ~Based(r)
  BY DEF Untouched, Off, Based
<1>3. CASE r = "rx"
  BY <1>1, <1>2, <1>3 DEF RxInv, SetTo
<1>4. CASE r = "tx"
  BY <1>1, <1>2, <1>4 DEF TxInv, SetTo
<1>5. QED
  BY <1>3, <1>4 DEF Rings

\* What the card owns of the receive ring has been prepared, with a buffer.
LEMMA OwnedRx ==
  ASSUME IndInv, alive, NEW k \in Owned("rx")
  PROVE  /\ k \in Slots /\ BufferAt(k) \in 1..Len(mem)
         /\ desc["rx"][k].ready
         /\ desc["rx"][k].buf = Iova(mem[BufferAt(k)].addr)
         /\ desc["rx"][k].size = mem[BufferAt(k)].size
<1>1. /\ NicTypeOK /\ PlaceInv /\ RxInv /\ DescInv /\ CardInv /\ Len(mem) = Allocated
      /\ i \in Nat /\ Len(mem) \in Nat
  BY LenProperties DEF IndInv, MemInv, TypeOK, NicTypeOK
<1>2. k \in Slots /\ ring["rx"].head <= k /\ k < ring["rx"].tail
  BY <1>1, Numbers, RegisterTypes, OwnedBetween DEF CardInv
<1>3. ring["rx"].tail > 0
  BY <1>1, <1>2, Numbers, RegisterTypes
<1>4. Allocated >= BufferAt(RingLen - 1)
  BY <1>1, <1>3, Numbers
  DEF RxInv, Untouched, Off, Based, SetTo, Allocated, BufferAt, PlaceInv, I10ePlaces, X710Places
<1>5. BufferAt(k) \in Nat /\ 1 <= BufferAt(k) /\ BufferAt(k) <= BufferAt(RingLen - 1)
  BY <1>2, Numbers DEF BufferAt
<1>6. BufferAt(k) <= Len(mem) /\ BufferAt(k) \in 1..Len(mem)
  BY <1>1, <1>4, <1>5, Numbers DEF BufferAt
<1>7. QED
  BY <1>1, <1>2, <1>6 DEF DescInv

\* Of the transmit ring it owns the first descriptor at most.
LEMMA OwnedTx ==
  ASSUME IndInv, alive, NEW k \in Owned("tx")
  PROVE  /\ k = 0 /\ desc["tx"][0].ready
         /\ \/ desc["tx"][0].buf = -1
            \/ /\ program = "i10e" /\ FrameAt \in 1..Len(mem)
               /\ desc["tx"][0].buf = Iova(mem[FrameAt].addr)
               /\ desc["tx"][0].size <= mem[FrameAt].size
<1>1. /\ NicTypeOK /\ PlaceInv /\ TxInv /\ DescInv /\ CardInv /\ Len(mem) = Allocated
      /\ i \in Nat /\ Len(mem) \in Nat
  BY LenProperties DEF IndInv, MemInv, TypeOK, NicTypeOK
<1>2. k \in Slots /\ ring["tx"].head <= k /\ k < ring["tx"].tail /\ ring["tx"].tail \in Slots
  BY <1>1, Numbers, RegisterTypes, OwnedBetween DEF CardInv
<1>3. ring["tx"].tail > 0
  BY <1>1, <1>2, Numbers, RegisterTypes
<1>4. /\ ring["tx"].tail = 1 /\ program \in {"i10e", "x710"}
      /\ program = "i10e" => at \in {"wait_dd", "poll_head", "poll_tail", "done"}
      /\ program = "x710" => at \in {"wait_dd", "done"}
  BY <1>1, <1>3, MemTypes DEF TxInv, Untouched, Off, Based, SetTo
<1>5. program = "i10e" => Allocated = FrameAt
  BY <1>4 DEF Allocated, FrameAt
<1>6. k = 0
  BY <1>2, <1>4, Numbers
<1>7. FrameAt \in Nat /\ FrameAt >= 1
  BY Numbers DEF FrameAt
<1>8. QED
  BY <1>1, <1>4, <1>5, <1>6, <1>7 DEF DescInv

LEMMA Safe == IndInv => DmaSafe
<1> SUFFICES ASSUME IndInv, alive PROVE DmaSafe
  BY DEF DmaSafe
<1>1. /\ NicTypeOK /\ MemInv /\ SizeInv /\ Len(mem) \in Nat
  BY LenProperties DEF IndInv, TypeOK, NicTypeOK
<1>2. \A m, n \in 1..Len(mem) : m # n => Apart(mem[m], mem[n])
  BY <1>1, AddressesDiffer
<1>3. \A n \in 1..Len(mem) : mem[n].addr + mem[n].size <= DmaSize
  <2> TAKE n \in 1..Len(mem)
  <2>1. mem[n].addr \in Nat /\ mem[n].size \in Nat /\ next \in Nat
    BY <1>1, MemTypes
  <2>2. QED
    BY <1>1, <2>1, Numbers DEF MemInv, Stacked
<1>4. ASSUME NEW r \in Rings, ring[r].state = "on"
      PROVE  /\ ring[r].len = RingLen /\ Backed(ring[r].base, RingLen * DescSize)
             /\ \A q \in Rings \ {r} : ring[q].state = "on" => ring[q].base # ring[r].base
  <2>1. RingAt(r) \in 1..Len(mem) /\ ring[r].base = Iova(mem[RingAt(r)].addr)
    BY <1>4, RingBase
  <2>2. mem[RingAt(r)].size = RingLen * DescSize
    BY <1>1, <2>1 DEF SizeInv
  <2>3. mem[RingAt(r)].size \in Nat
    BY <1>1, <2>1, MemTypes
  <2>4. Backed(ring[r].base, RingLen * DescSize)
    BY <2>1, <2>2, <2>3 DEF Backed
  <2>5. ASSUME NEW q \in Rings \ {r}, ring[q].state = "on"
        PROVE  ring[q].base # ring[r].base
    <3>1. RingAt(q) \in 1..Len(mem) /\ ring[q].base = Iova(mem[RingAt(q)].addr)
      BY <2>5, RingBase
    <3>2. RingAt(q) # RingAt(r)
      BY Numbers DEF RingAt, Rings
    <3>3. QED
      BY <1>1, <2>1, <3>1, <3>2, AddressesDiffer
  <2>6. QED
    BY <1>4, <2>4, <2>5, RingLength
<1>5. ASSUME NEW n \in 1..Len(mem), \A q \in Rings : RingAt(q) # n
      PROVE  \A q \in Rings : Iova(mem[n].addr) # ring[q].base
  <2> TAKE q \in Rings
  <2>1. mem[n].addr \in Nat
    BY <1>1, MemTypes
  <2>2. CASE ring[q].base = -1
    BY <2>1, <2>2, Offset
  <2>3. CASE ring[q].base # -1
    BY <1>1, <1>5, <2>3, RingBase, AddressesDiffer
  <2>4. QED
    BY <2>2, <2>3
<1>6. ASSUME NEW k \in Owned("rx")
      PROVE  /\ desc["rx"][k].ready
             /\ Backed(desc["rx"][k].buf, desc["rx"][k].size)
             /\ \A q \in Rings : desc["rx"][k].buf # ring[q].base
             /\ \A l \in Owned("rx") : desc["rx"][k].buf = desc["rx"][l].buf => k = l
  <2>1. /\ k \in Slots /\ BufferAt(k) \in 1..Len(mem) /\ desc["rx"][k].ready
        /\ desc["rx"][k].buf = Iova(mem[BufferAt(k)].addr)
        /\ desc["rx"][k].size = mem[BufferAt(k)].size
    BY OwnedRx
  <2>2. mem[BufferAt(k)].size \in Nat
    BY <1>1, <2>1, MemTypes
  <2>3. Backed(desc["rx"][k].buf, desc["rx"][k].size)
    BY <2>1, <2>2 DEF Backed
  <2>4. \A q \in Rings : RingAt(q) # BufferAt(k)
    BY <2>1, Numbers DEF RingAt, BufferAt, Rings
  <2>5. \A q \in Rings : desc["rx"][k].buf # ring[q].base
    BY <1>5, <2>1, <2>4
  <2>6. ASSUME NEW l \in Owned("rx"), desc["rx"][k].buf = desc["rx"][l].buf
        PROVE  k = l
    <3>1. /\ l \in Slots /\ BufferAt(l) \in 1..Len(mem)
          /\ desc["rx"][l].buf = Iova(mem[BufferAt(l)].addr)
      BY OwnedRx
    <3>2. BufferAt(k) = BufferAt(l)
      BY <1>1, <2>1, <2>6, <3>1, AddressesDiffer
    <3>3. QED
      BY <2>1, <3>1, <3>2, Numbers DEF BufferAt
  <2>7. QED
    BY <2>1, <2>3, <2>5, <2>6
<1>7. ASSUME NEW k \in Owned("tx")
      PROVE  /\ k = 0 /\ desc["tx"][k].ready
             /\ desc["tx"][k].buf >= 0 =>
                  /\ Backed(desc["tx"][k].buf, desc["tx"][k].size)
                  /\ \A q \in Rings : desc["tx"][k].buf # ring[q].base
  <2>1. /\ k = 0 /\ desc["tx"][0].ready
        /\ \/ desc["tx"][0].buf = -1
           \/ /\ program = "i10e" /\ FrameAt \in 1..Len(mem)
              /\ desc["tx"][0].buf = Iova(mem[FrameAt].addr)
              /\ desc["tx"][0].size <= mem[FrameAt].size
    BY OwnedTx
  <2>2. CASE desc["tx"][0].buf = -1
    BY <2>1, <2>2
  <2>3. CASE desc["tx"][0].buf # -1
    <3>1. \A q \in Rings : RingAt(q) # FrameAt
      BY <2>1, <2>3, Numbers DEF RingAt, FrameAt
    <3>2. QED
      BY <1>5, <2>1, <2>3, <3>1 DEF Backed
  <2>4. QED
    BY <2>2, <2>3
<1>8. \A r \in Rings : r = "rx" \/ r = "tx"
  BY DEF Rings
<1>9. \A r \in Rings : \A k \in Owned(r) :
        /\ desc[r][k].ready
        /\ desc[r][k].buf >= 0 =>
             /\ Backed(desc[r][k].buf, desc[r][k].size)
             /\ \A q \in Rings : desc[r][k].buf # ring[q].base
             /\ \A l \in Owned(r) : desc[r][k].buf = desc[r][l].buf => k = l
  <2> TAKE r \in Rings
  <2>1. CASE r = "rx"
    BY <1>6, <2>1
  <2>2. CASE r = "tx"
    BY <1>7, <2>2
  <2>3. QED
    BY <1>8, <2>1, <2>2
<1>10. QED
  BY <1>2, <1>3, <1>4, <1>9 DEF DmaSafe

-----------------------------------------------------------------------------
\* Steps in general.

Descriptors == [buf : Int, size : Nat, ready : BOOLEAN, full : BOOLEAN]
QueueRegisters ==
  [base : Int, len : {0, RingLen}, head : Slots, tail : Slots,
   state : {"off", "asked", "on", "failed"}]

LEMMA NicsInit == Init => IndInv
<1> SUFFICES ASSUME Init PROVE IndInv
  OBVIOUS
<1>1. /\ program \in {"i10e", "x710"} /\ alive /\ at = "vfio" /\ i = 0
      /\ next = 0 /\ mem = <<>> /\ reset = 0 /\ lost = FALSE
      /\ desc = [r \in Rings |-> [k \in Slots |-> Empty]]
      /\ ring = [r \in Rings |-> Off]
      /\ alive = TRUE /\ receive = FALSE /\ due = {} /\ polled = {}
  BY DEF Init, I10eInit, X710Init, NicInit
<1>2. Empty \in Descriptors /\ Off \in QueueRegisters
  BY Numbers DEF Empty, Off, Descriptors, QueueRegisters
<1>3. TypeOK /\ PlaceInv
  <2>1. desc \in [Rings -> [Slots -> Descriptors]] /\ ring \in [Rings -> QueueRegisters]
    BY <1>1, <1>2
  <2>2. mem \in Seq([addr : Nat, size : Nat]) /\ i \in 0..RingLen
    BY <1>1, Numbers, EmptySeq
  <2>3. NicTypeOK
    BY <1>1, <2>1, <2>2 DEF NicTypeOK, Descriptors, QueueRegisters
  <2>4. QED
    BY <1>1, <2>3 DEF TypeOK, Places, PlaceInv, I10ePlaces, X710Places
<1>4. MemInv
  <2>1. Len(mem) = 0 /\ 1..Len(mem) = {}
    BY <1>1, EmptySeq
  <2>2. Allocated = 0 /\ next <= DmaSize
    BY <1>1, Numbers DEF Allocated
  <2>3. Stacked(mem, next)
    BY <2>1 DEF Stacked
  <2>4. QED
    BY <2>1, <2>2, <2>3 DEF MemInv
<1>5. SizeInv /\ DescInv
  <2>1. Len(mem) = 0
    BY <1>1, EmptySeq
  <2>2. /\ \A r \in Rings : ~(RingAt(r) <= Len(mem))
        /\ ~(FrameAt <= Len(mem))
        /\ \A k \in Slots : ~(BufferAt(k) <= Len(mem))
    BY <2>1, Numbers DEF RingAt, BufferAt, FrameAt
  <2>3. desc["tx"][0].buf = -1
    BY <1>1, Numbers DEF Empty
  <2>4. SizeInv
    BY <2>2 DEF SizeInv
  <2>5. DescInv
    <3>1. ~(program = "i10e" /\ FrameAt <= Len(mem))
      BY <2>2
    <3>2. at \notin {"atq_tail", "wait_dd", "done"}
      BY <1>1
    <3>3. QED
      BY <2>2, <2>3, <3>1, <3>2, Zenon DEF DescInv
  <2>6. QED
    BY <2>4, <2>5
<1>6. RxInv /\ TxInv
  BY <1>1, Numbers DEF RxInv, TxInv, Untouched
<1>7. CardInv /\ PollInv /\ PollExact
  BY <1>1, Numbers DEF CardInv, PollInv, PollExact, Off, Empty
<1>8. QED
  BY <1>1, <1>3, <1>4, <1>5, <1>6, <1>7 DEF IndInv

\* A descriptor is written.
Written(r, k, d) ==
  /\ desc' \in [Rings -> [Slots -> Descriptors]]
  /\ desc'[r][k] = d
  /\ \A l \in Slots \ {k} : desc'[r][l] = desc[r][l]
  /\ \A q \in Rings \ {r} : desc'[q] = desc[q]

LEMMA DescWritten ==
  ASSUME NEW r \in Rings, NEW k \in Slots, NEW d \in Descriptors, NicTypeOK,
         desc' = [desc EXCEPT ![r][k] = d]
  PROVE  Written(r, k, d)
BY DEF NicTypeOK, Descriptors, Written

\* The registers of a queue are written.
LEMMA RingWritten ==
  ASSUME NicTypeOK, NEW r \in Rings, NEW registers \in QueueRegisters, Write(r, registers)
  PROVE  /\ ring' \in [Rings -> QueueRegisters]
         /\ \A q \in Rings \ {r} : ring'[q] = ring[q]
         /\ reset = 0 => ring'[r] = registers /\ lost' = lost
         /\ lost' \in BOOLEAN /\ lost' = (lost \/ reset # 0)
BY DEF NicTypeOK, QueueRegisters, Write

\* What was allocated stays where it is.
LEMMA MemKept ==
  ASSUME UNCHANGED <<program, next, mem>>
  PROVE  /\ \A r \in Rings : RingAt(r)' = RingAt(r) /\ BaseOf(r)' = BaseOf(r)
         /\ MemInv /\ Allocated' = Allocated => MemInv'
         /\ SizeInv => SizeInv'
BY DEF RingAt, BaseOf, Iova, IovaOffset, MemInv, SizeInv, DescSize

\* Steps that leave memory alone.
LEMMA Keeps ==
  ASSUME IndInv, alive, UNCHANGED <<program, alive, memVars>>, NicTypeOK', PlaceInv',
         Allocated' = Allocated,
         program = "x710" /\ at' \in {"atq_tail", "wait_dd", "done"} =>
           at \in {"atq_tail", "wait_dd", "done"},
         RxInv', TxInv', CardInv', PollInv', PollExact'
  PROVE  IndInv'
<1>1. TypeOK'
  BY DEF TypeOK, PlaceInv, Places, I10ePlaces, X710Places
<1>2. MemInv' /\ SizeInv'
  BY MemKept DEF IndInv, memVars
<1>3. DescInv'
  BY DEF IndInv, DescInv, memVars, BufferAt, FrameAt, BufferSize, Iova, IovaOffset
<1>4. QED
  BY <1>1, <1>2, <1>3 DEF IndInv

LEMMA Stacks ==
  ASSUME NEW s \in Seq([addr : Nat, size : Nat]), NEW top \in Nat, Stacked(s, top),
         NEW a \in Nat, NEW z \in Nat \ {0}, top <= a
  PROVE  Stacked(Append(s, [addr |-> a, size |-> z]), a + z)
<1>1. PICK t, l :
        /\ t = Append(s, [addr |-> a, size |-> z])
        /\ l \in Nat /\ l = Len(s) /\ Len(t) = l + 1
        /\ \A n \in 1..l : t[n] = s[n]
        /\ t[l + 1] = [addr |-> a, size |-> z]
  <2>1. PICK e \in [addr : Nat, size : Nat] : e = [addr |-> a, size |-> z]
    <3>1. [addr |-> a, size |-> z] \in [addr : Nat, size : Nat]
      OBVIOUS
    <3>2. QED
      BY <3>1, Zenon
  <2>2. /\ Len(s) \in Nat /\ Len(Append(s, e)) = Len(s) + 1
        /\ \A n \in 1..Len(s) : Append(s, e)[n] = s[n]
        /\ Append(s, e)[Len(s) + 1] = e
    BY <2>1, AppendProperties, LenProperties
  <2>3. QED
    BY <2>1, <2>2, Zenon
<1>2. \A n \in 1..l : s[n].addr \in Nat /\ s[n].size \in Nat
  <2>1. \A n \in 1..l : s[n] \in [addr : Nat, size : Nat]
    BY <1>1, ElementOfSeq
  <2>2. QED
    BY <2>1
<1>3. /\ \A n \in 1..l : s[n].size > 0 /\ s[n].addr + s[n].size <= top
      /\ \A m, n \in 1..l : m < n => s[m].addr + s[m].size <= s[n].addr
  BY <1>1 DEF Stacked
<1>4. \A n \in 1..(l + 1) : n \in 1..l \/ n = l + 1
  BY <1>1
<1>5. \A n \in 1..l : t[n].size > 0 /\ t[n].addr + t[n].size <= a /\ a <= a + z
  <2> TAKE n \in 1..l
  <2>1. t[n] = s[n] /\ s[n].size > 0 /\ s[n].addr + s[n].size <= top
    BY <1>1, <1>3, Zenon
  <2>2. s[n].addr \in Nat /\ s[n].size \in Nat
    BY <1>2, Zenon
  <2>3. \A x, y \in Nat : x + y <= top => x + y <= a
    OBVIOUS
  <2>4. a <= a + z
    OBVIOUS
  <2>5. QED
    BY <2>1, <2>2, <2>3, <2>4, Zenon
<1>6. \A n \in 1..(l + 1) : t[n].size > 0 /\ t[n].addr + t[n].size <= a + z
  <2> TAKE n \in 1..(l + 1)
  <2>1. CASE n \in 1..l
    <3>1. t[n].addr \in Nat /\ t[n].size \in Nat
      BY <1>1, <1>2, <2>1
    <3>2. QED
      BY <1>5, <2>1, <3>1
  <2>2. CASE n = l + 1
    BY <1>1, <2>2
  <2>3. QED
    BY <1>4, <2>1, <2>2
<1>7. \A m, n \in 1..(l + 1) : m < n => t[m].addr + t[m].size <= t[n].addr
  <2> TAKE m, n \in 1..(l + 1)
  <2> HAVE m < n
  <2>1. m \in 1..l
    BY <1>1
  <2>2. CASE n \in 1..l
    BY <1>1, <1>3, <2>1, <2>2
  <2>3. CASE n = l + 1
    BY <1>1, <1>5, <2>1, <2>3
  <2>4. QED
    BY <1>4, <2>2, <2>3
<1>8. QED
  BY <1>1, <1>6, <1>7 DEF Stacked

\* An allocation.
Grown(size, unit) ==
  /\ next' \in Nat /\ mem' \in Seq([addr : Nat, size : Nat]) /\ alive' \in BOOLEAN
  /\ Len(mem') = Len(mem) + 1 /\ Len(mem) \in Nat /\ Len(mem) = Allocated
  /\ \A n \in 1..Len(mem) : mem'[n] = mem[n]
  /\ mem'[Len(mem) + 1] = [addr |-> RoundUp(next, unit), size |-> size]
  /\ alive' => MemInv'
  /\ \A r \in Rings : RingAt(r)' = RingAt(r) /\ RingAt(r) \in Nat \ {0}
  /\ \A r \in Rings : RingAt(r) <= Len(mem) => BaseOf(r)' = BaseOf(r)

LEMMA Allocates ==
  ASSUME NEW size \in Nat \ {0}, NEW unit \in {1, 64, 128}, IndInv, alive,
         Allocate(size, unit), UNCHANGED program, Allocated' = Allocated + 1
  PROVE  Grown(size, unit)
<1>1. /\ NicTypeOK /\ MemInv /\ next \in Nat /\ mem \in Seq([addr : Nat, size : Nat])
      /\ Len(mem) \in Nat /\ Len(mem) = Allocated /\ DmaSize \in Nat
  <2>1. NicTypeOK /\ MemInv
    BY DEF IndInv, TypeOK
  <2>2. mem \in Seq([addr : Nat, size : Nat])
    BY <2>1 DEF NicTypeOK
  <2>3. QED
    BY <2>1, <2>2, MemTypes, Numbers, SMTT(30) DEF MemInv
<1>2. PICK a \in Nat : a = RoundUp(next, unit) /\ next <= a
  <2>1. RoundUp(next, unit) \in Nat /\ next <= RoundUp(next, unit)
    <3>1. next \in Nat
      BY <1>1
    <3>2. QED
      BY <3>1, RoundUpBounds, ZenonT(30)
  <2>2. QED
    BY <2>1, Zenon
<1>3. next' = a + size /\ mem' = Append(mem, [addr |-> a, size |-> size]) /\ alive' = (a + size <= DmaSize)
  BY <1>2 DEF Allocate
<1>4. [addr |-> a, size |-> size] \in [addr : Nat, size : Nat]
  OBVIOUS
<1>5. /\ mem' \in Seq([addr : Nat, size : Nat]) /\ Len(mem') = Len(mem) + 1
      /\ \A n \in 1..Len(mem) : mem'[n] = mem[n]
      /\ mem'[Len(mem) + 1] = [addr |-> a, size |-> size]
  BY <1>1, <1>3, <1>4, AppendProperties
<1>6. ASSUME alive' PROVE MemInv'
  <2>1. Len(mem') = Allocated' /\ next' <= DmaSize
    BY <1>1, <1>3, <1>5, <1>6
  <2>2. Stacked(mem', next')
    BY <1>1, <1>2, <1>3, Stacks DEF MemInv
  <2>3. QED
    BY <2>1, <2>2 DEF MemInv
<1>7. \A r \in Rings : RingAt(r)' = RingAt(r) /\ RingAt(r) \in Nat \ {0}
  BY Numbers DEF RingAt
<1>8. \A r \in Rings : RingAt(r) <= Len(mem) => BaseOf(r)' = BaseOf(r)
  <2> TAKE r \in Rings
  <2> HAVE RingAt(r) <= Len(mem)
  <2>1. mem'[RingAt(r)] = mem[RingAt(r)]
    BY <1>1, <1>5, <1>7
  <2>2. QED
    BY <1>7, <2>1 DEF BaseOf, Iova, IovaOffset
<1>9. QED
  BY <1>1, <1>2, <1>3, <1>5, <1>6, <1>7, <1>8 DEF Grown

-----------------------------------------------------------------------------
\* The steps of i10e.c.

\* Steps that write neither memory nor the registers of the queues.
LEMMA I10eMoves ==
  ASSUME IndInv, program = "i10e",
         ResetCard \/ ResetDone \/ RxEnable \/ TxEnabled \/ Sent \/ ReadHead \/ Poll
  PROVE  IndInv'
<1>1. alive /\ UNCHANGED <<program, alive, memVars, ring>>
  BY DEF ResetCard, ResetDone, RxEnable, TxEnabled, Sent, ReadHead, Poll, Goes, memVars, cardVars
<1>2. /\ NicTypeOK /\ PlaceInv /\ RxInv /\ TxInv /\ CardInv /\ PollInv
      /\ ring["rx"].head \in Slots /\ ring["rx"].tail \in Slots
  BY <1>1, Numbers, RegisterTypes DEF IndInv, TypeOK
<1>3. \A k \in Slots : k \in 0..RingLen
  BY Numbers DEF Slots
<1>4. /\ \A r \in Rings : RingAt(r)' = RingAt(r) /\ BaseOf(r)' = BaseOf(r)
  BY <1>1, MemKept DEF memVars
<1>5. /\ desc' = desc /\ ring' = ring /\ mem' = mem /\ next' = next /\ program' = program
      /\ alive' = alive /\ program = "i10e" /\ alive
  BY <1>1 DEF memVars
<1>6. CASE ResetCard
  <2>1. /\ at = "reset" /\ at' = "wait_reset" /\ reset' \in ResetValues
        /\ UNCHANGED <<i, due, polled, lost, receive>>
    BY <1>6 DEF ResetCard, Goes
  <2>2. NicTypeOK' /\ PlaceInv' /\ Allocated' = Allocated
    BY <1>2, <1>5, <2>1 DEF NicTypeOK, PlaceInv, I10ePlaces, Allocated
  <2>3. RxInv' /\ TxInv' /\ CardInv' /\ PollInv' /\ PollExact'
    BY <1>2, <1>5, <2>1 DEF RxInv, TxInv, Untouched, CardInv, PollInv, PollExact
  <2>4. QED
    BY <1>1, <1>5, <2>2, <2>3, Keeps
<1>7. CASE ResetDone
  <2>1. /\ at = "wait_reset" /\ at' = "rx_ring" /\ reset = 0
        /\ UNCHANGED <<i, due, polled, reset, lost, receive>>
    BY <1>7 DEF ResetDone, Goes, cardVars
  <2>2. NicTypeOK' /\ PlaceInv' /\ Allocated' = Allocated
    BY <1>2, <1>5, <2>1 DEF NicTypeOK, PlaceInv, I10ePlaces, Allocated
  <2>3. RxInv' /\ TxInv' /\ CardInv' /\ PollInv' /\ PollExact'
    BY <1>2, <1>5, <2>1 DEF RxInv, TxInv, Untouched, CardInv, PollInv, PollExact
  <2>4. QED
    BY <1>1, <1>5, <2>2, <2>3, Keeps
<1>8. CASE RxEnable
  <2>1. /\ at = "rx_enable" /\ at' = "tx_ring" /\ receive' = TRUE
        /\ UNCHANGED <<i, due, polled, reset, lost>>
    BY <1>8 DEF RxEnable, Goes
  <2>2. NicTypeOK' /\ PlaceInv' /\ Allocated' = Allocated
    BY <1>2, <1>5, <2>1 DEF NicTypeOK, PlaceInv, I10ePlaces, Allocated
  <2>3. RxInv' /\ TxInv' /\ CardInv' /\ PollInv' /\ PollExact'
    BY <1>2, <1>4, <1>5, <2>1, Numbers
    DEF RxInv, TxInv, Untouched, Based, SetTo, CardInv, PollInv, PollExact
  <2>4. QED
    BY <1>1, <1>5, <2>2, <2>3, Keeps
<1>9. CASE TxEnabled
  <2>1. /\ at = "tx_wait" /\ at' = "send" /\ ring["tx"].state = "on"
        /\ UNCHANGED <<i, due, polled, reset, lost, receive>>
    BY <1>9 DEF TxEnabled, Goes, cardVars
  <2>2. NicTypeOK' /\ PlaceInv' /\ Allocated' = Allocated
    BY <1>2, <1>5, <2>1 DEF NicTypeOK, PlaceInv, I10ePlaces, Allocated
  <2>3. RxInv' /\ TxInv' /\ CardInv' /\ PollInv' /\ PollExact'
    BY <1>2, <1>4, <1>5, <2>1, Numbers
    DEF RxInv, TxInv, Untouched, Based, SetTo, CardInv, PollInv, PollExact
  <2>4. QED
    BY <1>1, <1>5, <2>2, <2>3, Keeps
<1>10. CASE Sent
  <2>1. /\ at = "wait_dd" /\ at' = "poll_head"
        /\ UNCHANGED <<i, due, polled, reset, lost, receive>>
    BY <1>10 DEF Sent, Goes, cardVars
  <2>2. NicTypeOK' /\ PlaceInv' /\ Allocated' = Allocated
    BY <1>2, <1>5, <2>1 DEF NicTypeOK, PlaceInv, I10ePlaces, Allocated
  <2>3. RxInv' /\ TxInv' /\ CardInv' /\ PollInv' /\ PollExact'
    BY <1>2, <1>4, <1>5, <2>1, Numbers
    DEF RxInv, TxInv, Untouched, Based, SetTo, CardInv, PollInv, PollExact
  <2>4. QED
    BY <1>1, <1>5, <2>2, <2>3, Keeps
<1>11. CASE ReadHead
  <2>1. /\ at = "poll_head" /\ at' = "poll_tail" /\ i' = ring["rx"].head
        /\ due' = {k \in Slots : desc["rx"][k].full}
        /\ UNCHANGED <<polled, reset, lost, receive>>
    BY <1>11 DEF ReadHead, Goes, cardVars
  <2>2. due' = {k \in Slots : k < i'} /\ due' \in SUBSET Slots /\ i' \in Slots /\ i' \in 0..RingLen
    BY <1>2, <1>3, <1>5, <2>1 DEF PollInv
  <2>3. NicTypeOK' /\ PlaceInv' /\ Allocated' = Allocated
    BY <1>2, <1>5, <2>1, <2>2 DEF NicTypeOK, PlaceInv, I10ePlaces, Allocated
  <2>4. RxInv' /\ TxInv' /\ CardInv' /\ PollInv' /\ PollExact'
    BY <1>2, <1>4, <1>5, <2>1, <2>2, Numbers
    DEF RxInv, TxInv, Untouched, Based, SetTo, CardInv, PollInv, PollExact
  <2>5. QED
    BY <1>1, <1>5, <2>3, <2>4, Keeps
<1>12. CASE Poll
  <2>1. /\ at = "poll_tail" /\ at' = "done" /\ polled' = PollFrom(After(ring["rx"].tail))
        /\ UNCHANGED <<i, due, reset, lost, receive>>
    BY <1>12 DEF Poll, Goes, cardVars
  <2>2. After(ring["rx"].tail) = 0
    BY <1>2, <2>1, AfterValue, program = "i10e" DEF RxInv, SetTo
  <2>3. polled' = due' /\ polled' \in SUBSET Slots
    <3>1. i \in Slots /\ due = {k \in Slots : k < i} /\ i \in Nat /\ i < RingLen
      BY <1>2, <2>1, Numbers, program = "i10e" DEF PollInv
    <3>2. PollFrom(0) = {k \in Slots : k < i}
      BY <3>1, Numbers DEF PollFrom, Slots
    <3>3. QED
      BY <2>1, <2>2, <3>1, <3>2
  <2>4. NicTypeOK' /\ PlaceInv' /\ Allocated' = Allocated
    BY <1>2, <1>5, <2>1, <2>3 DEF NicTypeOK, PlaceInv, I10ePlaces, Allocated
  <2>5. RxInv' /\ TxInv' /\ CardInv' /\ PollInv' /\ PollExact'
    BY <1>2, <1>4, <1>5, <2>1, <2>3, Numbers
    DEF RxInv, TxInv, Untouched, Based, SetTo, CardInv, PollInv, PollExact
  <2>6. QED
    BY <1>1, <1>5, <2>4, <2>5, Keeps
<1>13. QED
  BY <1>6, <1>7, <1>8, <1>9, <1>10, <1>11, <1>12

\* Steps that write the registers of a queue, which does not reset then.
LEMMA I10eQueues ==
  /\ RxQueue =>
       /\ i = RingLen
       /\ \/ Registers("rx_buffers", "rx_head", "rx", [ring["rx"] EXCEPT !.base = Iova(mem[1].addr)])
          \/ Registers("rx_head", "rx_clear", "rx", [ring["rx"] EXCEPT !.head = 0])
          \/ Registers("rx_clear", "rx_len", "rx", [ring["rx"] EXCEPT !.tail = 0])
          \/ Registers("rx_len", "rx_on", "rx", [ring["rx"] EXCEPT !.len = RingLen])
          \/ Registers("rx_on", "rx_wait", "rx", [ring["rx"] EXCEPT !.state = "asked"])
  /\ TxQueue =>
       \/ Registers("tx_queue", "tx_head", "tx", [ring["tx"] EXCEPT !.base = Iova(mem[Len(mem)].addr)])
       \/ Registers("tx_head", "tx_clear", "tx", [ring["tx"] EXCEPT !.head = 0])
       \/ Registers("tx_clear", "tx_len", "tx", [ring["tx"] EXCEPT !.tail = 0])
       \/ Registers("tx_len", "tx_on", "tx", [ring["tx"] EXCEPT !.len = RingLen])
       \/ Registers("tx_on", "tx_wait", "tx", [ring["tx"] EXCEPT !.state = "asked"])
BY DEF RxQueue, TxQueue, SetUpQueue

I10eWriting == RxQueue \/ RxTail \/ TxQueue \/ SendTail

LEMMA I10eWritesAt ==
  ASSUME I10eWriting
  PROVE  /\ alive /\ UNCHANGED <<program, alive, i, due, polled, memVars, reset, receive>>
         /\ at \in {"rx_buffers", "rx_head", "rx_clear", "rx_len", "rx_on", "rx_wait",
                   "tx_queue", "tx_head", "tx_clear", "tx_len", "tx_on", "send_tail"}
         /\ at = "rx_buffers" => i = RingLen
         /\ \E r \in Rings : \E registers : Write(r, registers)
<1>1. ASSUME NEW from, NEW to, NEW r \in Rings, NEW registers, Registers(from, to, r, registers)
      PROVE  /\ alive /\ at = from /\ Write(r, registers)
             /\ UNCHANGED <<program, alive, i, due, polled, memVars, reset, receive>>
  BY <1>1 DEF Registers, Write, Goes
<1>2. CASE RxQueue
  <2>1. PICK from \in {"rx_buffers", "rx_head", "rx_clear", "rx_len", "rx_on"} :
          \E to, registers : Registers(from, to, "rx", registers)
    BY <1>2, I10eQueues, Zenon
  <2>2. i = RingLen /\ "rx" \in Rings
    BY <1>2, I10eQueues DEF Rings
  <2>3. QED
    BY <1>1, <2>1, <2>2
<1>3. CASE TxQueue
  <2>1. PICK from \in {"tx_queue", "tx_head", "tx_clear", "tx_len", "tx_on"} :
          \E to, registers : Registers(from, to, "tx", registers)
    BY <1>3, I10eQueues, Zenon
  <2>2. "tx" \in Rings
    BY DEF Rings
  <2>3. QED
    BY <1>1, <2>1, <2>2
<1>4. CASE RxTail
  BY <1>1, <1>4 DEF RxTail, Rings
<1>5. CASE SendTail
  BY <1>1, <1>5 DEF SendTail, Rings
<1>6. QED
  BY <1>2, <1>3, <1>4, <1>5 DEF I10eWriting

LEMMA I10eWrites ==
  ASSUME IndInv, program = "i10e", I10eWriting
  PROVE  IndInv' /\ reset = 0
<1>1. /\ alive /\ UNCHANGED <<program, alive, i, due, polled, memVars, reset, receive>>
      /\ at \in {"rx_buffers", "rx_head", "rx_clear", "rx_len", "rx_on", "rx_wait",
                "tx_queue", "tx_head", "tx_clear", "tx_len", "tx_on", "send_tail"}
      /\ at = "rx_buffers" => i = RingLen
  BY I10eWritesAt
<1>2. /\ NicTypeOK /\ PlaceInv /\ RxInv /\ TxInv /\ CardInv /\ PollInv /\ PollExact
      /\ Len(mem) = Allocated
      /\ \A r \in Rings : /\ ring[r] \in QueueRegisters
                          /\ ring[r].head \in Nat /\ ring[r].tail \in Nat
  BY <1>1, Numbers, RegisterTypes DEF IndInv, TypeOK, QueueRegisters, MemInv
<1>3. /\ \A r \in Rings : RingAt(r)' = RingAt(r) /\ BaseOf(r)' = BaseOf(r)
      /\ "rx" \in Rings /\ "tx" \in Rings
      /\ 0 \in Slots /\ 1 \in Slots /\ RingLen - 1 \in Slots /\ RingLen - 1 \in Nat
  BY <1>1, MemKept, Numbers DEF memVars
<1>4. /\ desc' = desc /\ mem' = mem /\ next' = next /\ program' = program
      /\ alive' = alive /\ program = "i10e" /\ alive /\ reset = 0
      /\ UNCHANGED <<i, due, polled, reset, receive>>
  BY <1>1, <1>2 DEF memVars, CardInv
<1>5. /\ at = "rx_buffers" => Iova(mem[1].addr) = BaseOf("rx") /\ BaseOf("rx") \in Int
      /\ at = "tx_queue" => Iova(mem[Len(mem)].addr) = BaseOf("tx") /\ BaseOf("tx") \in Int
  <2>1. CASE at = "rx_buffers"
    <3>1. Allocated = RingLen + 1
      BY <1>1, <1>4, <2>1, Numbers DEF Allocated
    <3>2. 1 \in 1..Len(mem)
      BY <1>2, <3>1, Numbers
    <3>3. mem[1].addr \in Nat
      BY <1>2, <3>2, MemTypes
    <3>4. QED
      BY <1>4, <2>1, <3>3, Offset DEF BaseOf, RingAt
  <2>2. CASE at = "tx_queue"
    <3>1. Allocated = RingLen + 2
      BY <1>4, <2>2, Numbers DEF Allocated
    <3>2. Len(mem) = RingLen + 2 /\ RingLen + 2 \in 1..Len(mem)
      BY <1>2, <3>1, Numbers
    <3>3. mem[RingLen + 2].addr \in Nat
      BY <1>2, <3>2, MemTypes
    <3>4. QED
      BY <1>4, <2>2, <3>2, <3>3, Offset DEF BaseOf, RingAt
  <2>3. QED
    BY <2>1, <2>2
<1>6. ASSUME NEW r \in Rings, NEW registers \in QueueRegisters, Write(r, registers),
             PlaceInv', Allocated' = Allocated, at' \notin {"poll_tail", "done"},
             registers.head = ring[r].head
      PROVE  /\ ring'[r] = registers
             /\ \A q \in Rings \ {r} : ring'[q] = ring[q]
             /\ RxInv' /\ TxInv' /\ registers.head <= registers.tail => IndInv'
  <2>1. /\ ring' \in [Rings -> QueueRegisters] /\ ring'[r] = registers
        /\ \A q \in Rings \ {r} : ring'[q] = ring[q]
    BY <1>2, <1>4, <1>6, RingWritten
  <2>2. NicTypeOK'
    BY <1>2, <1>4, <1>6, <2>1, RingWritten DEF NicTypeOK, QueueRegisters
  <2>3. ring'["rx"].head = ring["rx"].head
    BY <1>3, <1>6, <2>1
  <2>4. PollInv' /\ PollExact'
    BY <1>2, <1>4, <1>6, <2>3 DEF PollInv, PollExact
  <2>5. ASSUME registers.head <= registers.tail PROVE CardInv'
    BY <1>2, <1>4, <2>1, <2>5 DEF CardInv
  <2>6. QED
    BY <1>1, <1>4, <1>6, <2>1, <2>2, <2>4, <2>5, Keeps
<1>7. /\ ring["rx"].head <= ring["rx"].tail /\ ring["tx"].head <= ring["tx"].tail
  BY <1>2, <1>3 DEF CardInv
<1>8. CASE Registers("rx_buffers", "rx_head", "rx", [ring["rx"] EXCEPT !.base = Iova(mem[1].addr)])
  <2> DEFINE registers == [ring["rx"] EXCEPT !.base = Iova(mem[1].addr)]
  <2>1. at = "rx_buffers" /\ at' = "rx_head" /\ Write("rx", registers)
    BY <1>8 DEF Registers, Goes
  <2>2. PlaceInv' /\ Allocated' = Allocated /\ at' \notin {"poll_tail", "done"}
    BY <1>1, <1>2, <1>4, <2>1, Numbers DEF PlaceInv, I10ePlaces, Allocated
  <2>3. ring["rx"].tail = 0 /\ ring["rx"].head = 0
    BY <1>2, <1>3, <1>4, <1>7, <2>1, Numbers DEF RxInv, TxInv, Untouched, Off, Based, SetTo
  <2>4. /\ registers \in QueueRegisters
        /\ registers.base = BaseOf("rx")
        /\ registers.len = ring["rx"].len
        /\ registers.head = ring["rx"].head
        /\ registers.tail = ring["rx"].tail
        /\ registers.state = ring["rx"].state
    BY <1>2, <1>3, <1>5, <2>1 DEF QueueRegisters
  <2> HIDE DEF registers
  <2>5. registers.head = ring["rx"].head /\ registers.head <= registers.tail
    BY <1>2, <1>3, <1>7, <2>3, <2>4, Numbers
  <2>6. /\ ring'["rx"] = registers /\ ring'["tx"] = ring["tx"]
        /\ RxInv' /\ TxInv' => IndInv'
    BY <1>3, <1>6, <2>1, <2>2, <2>4, <2>5
  <2>7. RxInv' /\ TxInv'
    BY <1>2, <1>3, <1>4, <2>1, <2>3, <2>4, <2>6 DEF RxInv, TxInv, Untouched, Off, Based, SetTo
  <2>8. QED
    BY <1>4, <2>6, <2>7
<1>9. CASE Registers("rx_head", "rx_clear", "rx", [ring["rx"] EXCEPT !.head = 0])
  <2> DEFINE registers == [ring["rx"] EXCEPT !.head = 0]
  <2>1. at = "rx_head" /\ at' = "rx_clear" /\ Write("rx", registers)
    BY <1>9 DEF Registers, Goes
  <2>2. PlaceInv' /\ Allocated' = Allocated /\ at' \notin {"poll_tail", "done"}
    BY <1>1, <1>2, <1>4, <2>1, Numbers DEF PlaceInv, I10ePlaces, Allocated
  <2>3. ring["rx"].tail = 0 /\ ring["rx"].head = 0
    BY <1>2, <1>3, <1>4, <1>7, <2>1, Numbers DEF RxInv, TxInv, Untouched, Off, Based, SetTo
  <2>4. /\ registers \in QueueRegisters
        /\ registers.base = ring["rx"].base
        /\ registers.len = ring["rx"].len
        /\ registers.head = 0
        /\ registers.tail = ring["rx"].tail
        /\ registers.state = ring["rx"].state
    BY <1>2, <1>3, <1>5, <2>1 DEF QueueRegisters
  <2> HIDE DEF registers
  <2>5. registers.head = ring["rx"].head /\ registers.head <= registers.tail
    BY <1>2, <1>3, <1>7, <2>3, <2>4, Numbers
  <2>6. /\ ring'["rx"] = registers /\ ring'["tx"] = ring["tx"]
        /\ RxInv' /\ TxInv' => IndInv'
    BY <1>3, <1>6, <2>1, <2>2, <2>4, <2>5
  <2>7. RxInv' /\ TxInv'
    BY <1>2, <1>3, <1>4, <2>1, <2>3, <2>4, <2>6 DEF RxInv, TxInv, Untouched, Off, Based, SetTo
  <2>8. QED
    BY <1>4, <2>6, <2>7
<1>10. CASE Registers("rx_clear", "rx_len", "rx", [ring["rx"] EXCEPT !.tail = 0])
  <2> DEFINE registers == [ring["rx"] EXCEPT !.tail = 0]
  <2>1. at = "rx_clear" /\ at' = "rx_len" /\ Write("rx", registers)
    BY <1>10 DEF Registers, Goes
  <2>2. PlaceInv' /\ Allocated' = Allocated /\ at' \notin {"poll_tail", "done"}
    BY <1>1, <1>2, <1>4, <2>1, Numbers DEF PlaceInv, I10ePlaces, Allocated
  <2>3. ring["rx"].tail = 0 /\ ring["rx"].head = 0
    BY <1>2, <1>3, <1>4, <1>7, <2>1, Numbers DEF RxInv, TxInv, Untouched, Off, Based, SetTo
  <2>4. /\ registers \in QueueRegisters
        /\ registers.base = ring["rx"].base
        /\ registers.len = ring["rx"].len
        /\ registers.head = ring["rx"].head
        /\ registers.tail = 0
        /\ registers.state = ring["rx"].state
    BY <1>2, <1>3, <1>5, <2>1 DEF QueueRegisters
  <2> HIDE DEF registers
  <2>5. registers.head = ring["rx"].head /\ registers.head <= registers.tail
    BY <1>2, <1>3, <1>7, <2>3, <2>4, Numbers
  <2>6. /\ ring'["rx"] = registers /\ ring'["tx"] = ring["tx"]
        /\ RxInv' /\ TxInv' => IndInv'
    BY <1>3, <1>6, <2>1, <2>2, <2>4, <2>5
  <2>7. RxInv' /\ TxInv'
    BY <1>2, <1>3, <1>4, <2>1, <2>3, <2>4, <2>6 DEF RxInv, TxInv, Untouched, Off, Based, SetTo
  <2>8. QED
    BY <1>4, <2>6, <2>7
<1>11. CASE Registers("rx_len", "rx_on", "rx", [ring["rx"] EXCEPT !.len = RingLen])
  <2> DEFINE registers == [ring["rx"] EXCEPT !.len = RingLen]
  <2>1. at = "rx_len" /\ at' = "rx_on" /\ Write("rx", registers)
    BY <1>11 DEF Registers, Goes
  <2>2. PlaceInv' /\ Allocated' = Allocated /\ at' \notin {"poll_tail", "done"}
    BY <1>1, <1>2, <1>4, <2>1, Numbers DEF PlaceInv, I10ePlaces, Allocated
  <2>3. ring["rx"].tail = 0 /\ ring["rx"].head = 0
    BY <1>2, <1>3, <1>4, <1>7, <2>1, Numbers DEF RxInv, TxInv, Untouched, Off, Based, SetTo
  <2>4. /\ registers \in QueueRegisters
        /\ registers.base = ring["rx"].base
        /\ registers.len = RingLen
        /\ registers.head = ring["rx"].head
        /\ registers.tail = ring["rx"].tail
        /\ registers.state = ring["rx"].state
    BY <1>2, <1>3, <1>5, <2>1 DEF QueueRegisters
  <2> HIDE DEF registers
  <2>5. registers.head = ring["rx"].head /\ registers.head <= registers.tail
    BY <1>2, <1>3, <1>7, <2>3, <2>4, Numbers
  <2>6. /\ ring'["rx"] = registers /\ ring'["tx"] = ring["tx"]
        /\ RxInv' /\ TxInv' => IndInv'
    BY <1>3, <1>6, <2>1, <2>2, <2>4, <2>5
  <2>7. RxInv' /\ TxInv'
    BY <1>2, <1>3, <1>4, <2>1, <2>3, <2>4, <2>6 DEF RxInv, TxInv, Untouched, Off, Based, SetTo
  <2>8. QED
    BY <1>4, <2>6, <2>7
<1>12. CASE Registers("rx_on", "rx_wait", "rx", [ring["rx"] EXCEPT !.state = "asked"])
  <2> DEFINE registers == [ring["rx"] EXCEPT !.state = "asked"]
  <2>1. at = "rx_on" /\ at' = "rx_wait" /\ Write("rx", registers)
    BY <1>12 DEF Registers, Goes
  <2>2. PlaceInv' /\ Allocated' = Allocated /\ at' \notin {"poll_tail", "done"}
    BY <1>1, <1>2, <1>4, <2>1, Numbers DEF PlaceInv, I10ePlaces, Allocated
  <2>3. ring["rx"].tail = 0 /\ ring["rx"].head = 0
    BY <1>2, <1>3, <1>4, <1>7, <2>1, Numbers DEF RxInv, TxInv, Untouched, Off, Based, SetTo
  <2>4. /\ registers \in QueueRegisters
        /\ registers.base = ring["rx"].base
        /\ registers.len = ring["rx"].len
        /\ registers.head = ring["rx"].head
        /\ registers.tail = ring["rx"].tail
        /\ registers.state = "asked"
    BY <1>2, <1>3, <1>5, <2>1 DEF QueueRegisters
  <2> HIDE DEF registers
  <2>5. registers.head = ring["rx"].head /\ registers.head <= registers.tail
    BY <1>2, <1>3, <1>7, <2>3, <2>4, Numbers
  <2>6. /\ ring'["rx"] = registers /\ ring'["tx"] = ring["tx"]
        /\ RxInv' /\ TxInv' => IndInv'
    BY <1>3, <1>6, <2>1, <2>2, <2>4, <2>5
  <2>7. RxInv' /\ TxInv'
    BY <1>2, <1>3, <1>4, <2>1, <2>3, <2>4, <2>6 DEF RxInv, TxInv, Untouched, Off, Based, SetTo
  <2>8. QED
    BY <1>4, <2>6, <2>7
<1>13. CASE RxTail
  <2> DEFINE registers == [ring["rx"] EXCEPT !.tail = RingLen - 1]
  <2>1. at = "rx_wait" /\ at' = "rx_enable" /\ Write("rx", registers) /\ ring["rx"].state = "on"
    BY <1>13 DEF RxTail, Registers, Goes
  <2>2. PlaceInv' /\ Allocated' = Allocated /\ at' \notin {"poll_tail", "done"}
    BY <1>1, <1>2, <1>4, <2>1, Numbers DEF PlaceInv, I10ePlaces, Allocated
  <2>3. ring["rx"].tail = 0
    BY <1>2, <1>4, <2>1 DEF RxInv, TxInv, SetTo
  <2>4. /\ registers \in QueueRegisters
        /\ registers.base = ring["rx"].base
        /\ registers.len = ring["rx"].len
        /\ registers.head = ring["rx"].head
        /\ registers.tail = RingLen - 1
        /\ registers.state = ring["rx"].state
    BY <1>2, <1>3, <1>5, <2>1 DEF QueueRegisters
  <2> HIDE DEF registers
  <2>5. registers.head = ring["rx"].head /\ registers.head <= registers.tail
    BY <1>2, <1>3, <1>7, <2>3, <2>4, Numbers
  <2>6. /\ ring'["rx"] = registers /\ ring'["tx"] = ring["tx"]
        /\ RxInv' /\ TxInv' => IndInv'
    BY <1>3, <1>6, <2>1, <2>2, <2>4, <2>5
  <2>7. RxInv' /\ TxInv'
    BY <1>2, <1>3, <1>4, <2>1, <2>3, <2>4, <2>6 DEF RxInv, TxInv, Untouched, Off, Based, SetTo
  <2>8. QED
    BY <1>4, <2>6, <2>7
<1>14. CASE Registers("tx_queue", "tx_head", "tx", [ring["tx"] EXCEPT !.base = Iova(mem[Len(mem)].addr)])
  <2> DEFINE registers == [ring["tx"] EXCEPT !.base = Iova(mem[Len(mem)].addr)]
  <2>1. at = "tx_queue" /\ at' = "tx_head" /\ Write("tx", registers)
    BY <1>14 DEF Registers, Goes
  <2>2. PlaceInv' /\ Allocated' = Allocated /\ at' \notin {"poll_tail", "done"}
    BY <1>1, <1>2, <1>4, <2>1, Numbers DEF PlaceInv, I10ePlaces, Allocated
  <2>3. ring["tx"].tail = 0 /\ ring["tx"].head = 0
    BY <1>2, <1>3, <1>4, <1>7, <2>1, Numbers DEF RxInv, TxInv, Untouched, Off, Based, SetTo
  <2>4. /\ registers \in QueueRegisters
        /\ registers.base = BaseOf("tx")
        /\ registers.len = ring["tx"].len
        /\ registers.head = ring["tx"].head
        /\ registers.tail = ring["tx"].tail
        /\ registers.state = ring["tx"].state
    BY <1>2, <1>3, <1>5, <2>1 DEF QueueRegisters
  <2> HIDE DEF registers
  <2>5. registers.head = ring["tx"].head /\ registers.head <= registers.tail
    BY <1>2, <1>3, <1>7, <2>3, <2>4, Numbers
  <2>6. /\ ring'["tx"] = registers /\ ring'["rx"] = ring["rx"]
        /\ RxInv' /\ TxInv' => IndInv'
    BY <1>3, <1>6, <2>1, <2>2, <2>4, <2>5
  <2>7. RxInv' /\ TxInv'
    BY <1>2, <1>3, <1>4, <2>1, <2>3, <2>4, <2>6 DEF RxInv, TxInv, Untouched, Off, Based, SetTo
  <2>8. QED
    BY <1>4, <2>6, <2>7
<1>15. CASE Registers("tx_head", "tx_clear", "tx", [ring["tx"] EXCEPT !.head = 0])
  <2> DEFINE registers == [ring["tx"] EXCEPT !.head = 0]
  <2>1. at = "tx_head" /\ at' = "tx_clear" /\ Write("tx", registers)
    BY <1>15 DEF Registers, Goes
  <2>2. PlaceInv' /\ Allocated' = Allocated /\ at' \notin {"poll_tail", "done"}
    BY <1>1, <1>2, <1>4, <2>1, Numbers DEF PlaceInv, I10ePlaces, Allocated
  <2>3. ring["tx"].tail = 0 /\ ring["tx"].head = 0
    BY <1>2, <1>3, <1>4, <1>7, <2>1, Numbers DEF RxInv, TxInv, Untouched, Off, Based, SetTo
  <2>4. /\ registers \in QueueRegisters
        /\ registers.base = ring["tx"].base
        /\ registers.len = ring["tx"].len
        /\ registers.head = 0
        /\ registers.tail = ring["tx"].tail
        /\ registers.state = ring["tx"].state
    BY <1>2, <1>3, <1>5, <2>1 DEF QueueRegisters
  <2> HIDE DEF registers
  <2>5. registers.head = ring["tx"].head /\ registers.head <= registers.tail
    BY <1>2, <1>3, <1>7, <2>3, <2>4, Numbers
  <2>6. /\ ring'["tx"] = registers /\ ring'["rx"] = ring["rx"]
        /\ RxInv' /\ TxInv' => IndInv'
    BY <1>3, <1>6, <2>1, <2>2, <2>4, <2>5
  <2>7. RxInv' /\ TxInv'
    BY <1>2, <1>3, <1>4, <2>1, <2>3, <2>4, <2>6 DEF RxInv, TxInv, Untouched, Off, Based, SetTo
  <2>8. QED
    BY <1>4, <2>6, <2>7
<1>16. CASE Registers("tx_clear", "tx_len", "tx", [ring["tx"] EXCEPT !.tail = 0])
  <2> DEFINE registers == [ring["tx"] EXCEPT !.tail = 0]
  <2>1. at = "tx_clear" /\ at' = "tx_len" /\ Write("tx", registers)
    BY <1>16 DEF Registers, Goes
  <2>2. PlaceInv' /\ Allocated' = Allocated /\ at' \notin {"poll_tail", "done"}
    BY <1>1, <1>2, <1>4, <2>1, Numbers DEF PlaceInv, I10ePlaces, Allocated
  <2>3. ring["tx"].tail = 0 /\ ring["tx"].head = 0
    BY <1>2, <1>3, <1>4, <1>7, <2>1, Numbers DEF RxInv, TxInv, Untouched, Off, Based, SetTo
  <2>4. /\ registers \in QueueRegisters
        /\ registers.base = ring["tx"].base
        /\ registers.len = ring["tx"].len
        /\ registers.head = ring["tx"].head
        /\ registers.tail = 0
        /\ registers.state = ring["tx"].state
    BY <1>2, <1>3, <1>5, <2>1 DEF QueueRegisters
  <2> HIDE DEF registers
  <2>5. registers.head = ring["tx"].head /\ registers.head <= registers.tail
    BY <1>2, <1>3, <1>7, <2>3, <2>4, Numbers
  <2>6. /\ ring'["tx"] = registers /\ ring'["rx"] = ring["rx"]
        /\ RxInv' /\ TxInv' => IndInv'
    BY <1>3, <1>6, <2>1, <2>2, <2>4, <2>5
  <2>7. RxInv' /\ TxInv'
    BY <1>2, <1>3, <1>4, <2>1, <2>3, <2>4, <2>6 DEF RxInv, TxInv, Untouched, Off, Based, SetTo
  <2>8. QED
    BY <1>4, <2>6, <2>7
<1>17. CASE Registers("tx_len", "tx_on", "tx", [ring["tx"] EXCEPT !.len = RingLen])
  <2> DEFINE registers == [ring["tx"] EXCEPT !.len = RingLen]
  <2>1. at = "tx_len" /\ at' = "tx_on" /\ Write("tx", registers)
    BY <1>17 DEF Registers, Goes
  <2>2. PlaceInv' /\ Allocated' = Allocated /\ at' \notin {"poll_tail", "done"}
    BY <1>1, <1>2, <1>4, <2>1, Numbers DEF PlaceInv, I10ePlaces, Allocated
  <2>3. ring["tx"].tail = 0 /\ ring["tx"].head = 0
    BY <1>2, <1>3, <1>4, <1>7, <2>1, Numbers DEF RxInv, TxInv, Untouched, Off, Based, SetTo
  <2>4. /\ registers \in QueueRegisters
        /\ registers.base = ring["tx"].base
        /\ registers.len = RingLen
        /\ registers.head = ring["tx"].head
        /\ registers.tail = ring["tx"].tail
        /\ registers.state = ring["tx"].state
    BY <1>2, <1>3, <1>5, <2>1 DEF QueueRegisters
  <2> HIDE DEF registers
  <2>5. registers.head = ring["tx"].head /\ registers.head <= registers.tail
    BY <1>2, <1>3, <1>7, <2>3, <2>4, Numbers
  <2>6. /\ ring'["tx"] = registers /\ ring'["rx"] = ring["rx"]
        /\ RxInv' /\ TxInv' => IndInv'
    BY <1>3, <1>6, <2>1, <2>2, <2>4, <2>5
  <2>7. RxInv' /\ TxInv'
    BY <1>2, <1>3, <1>4, <2>1, <2>3, <2>4, <2>6 DEF RxInv, TxInv, Untouched, Off, Based, SetTo
  <2>8. QED
    BY <1>4, <2>6, <2>7
<1>18. CASE Registers("tx_on", "tx_wait", "tx", [ring["tx"] EXCEPT !.state = "asked"])
  <2> DEFINE registers == [ring["tx"] EXCEPT !.state = "asked"]
  <2>1. at = "tx_on" /\ at' = "tx_wait" /\ Write("tx", registers)
    BY <1>18 DEF Registers, Goes
  <2>2. PlaceInv' /\ Allocated' = Allocated /\ at' \notin {"poll_tail", "done"}
    BY <1>1, <1>2, <1>4, <2>1, Numbers DEF PlaceInv, I10ePlaces, Allocated
  <2>3. ring["tx"].tail = 0 /\ ring["tx"].head = 0
    BY <1>2, <1>3, <1>4, <1>7, <2>1, Numbers DEF RxInv, TxInv, Untouched, Off, Based, SetTo
  <2>4. /\ registers \in QueueRegisters
        /\ registers.base = ring["tx"].base
        /\ registers.len = ring["tx"].len
        /\ registers.head = ring["tx"].head
        /\ registers.tail = ring["tx"].tail
        /\ registers.state = "asked"
    BY <1>2, <1>3, <1>5, <2>1 DEF QueueRegisters
  <2> HIDE DEF registers
  <2>5. registers.head = ring["tx"].head /\ registers.head <= registers.tail
    BY <1>2, <1>3, <1>7, <2>3, <2>4, Numbers
  <2>6. /\ ring'["tx"] = registers /\ ring'["rx"] = ring["rx"]
        /\ RxInv' /\ TxInv' => IndInv'
    BY <1>3, <1>6, <2>1, <2>2, <2>4, <2>5
  <2>7. RxInv' /\ TxInv'
    BY <1>2, <1>3, <1>4, <2>1, <2>3, <2>4, <2>6 DEF RxInv, TxInv, Untouched, Off, Based, SetTo
  <2>8. QED
    BY <1>4, <2>6, <2>7
<1>19. CASE Registers("send_tail", "wait_dd", "tx", [ring["tx"] EXCEPT !.tail = 1])
  <2> DEFINE registers == [ring["tx"] EXCEPT !.tail = 1]
  <2>1. at = "send_tail" /\ at' = "wait_dd" /\ Write("tx", registers)
    BY <1>19 DEF Registers, Goes
  <2>2. PlaceInv' /\ Allocated' = Allocated /\ at' \notin {"poll_tail", "done"}
    BY <1>1, <1>2, <1>4, <2>1, Numbers DEF PlaceInv, I10ePlaces, Allocated
  <2>3. ring["tx"].tail = 0
    BY <1>2, <1>4, <2>1 DEF RxInv, TxInv, SetTo
  <2>4. /\ registers \in QueueRegisters
        /\ registers.base = ring["tx"].base
        /\ registers.len = ring["tx"].len
        /\ registers.head = ring["tx"].head
        /\ registers.tail = 1
        /\ registers.state = ring["tx"].state
    BY <1>2, <1>3, <1>5, <2>1 DEF QueueRegisters
  <2> HIDE DEF registers
  <2>5. registers.head = ring["tx"].head /\ registers.head <= registers.tail
    BY <1>2, <1>3, <1>7, <2>3, <2>4, Numbers
  <2>6. /\ ring'["tx"] = registers /\ ring'["rx"] = ring["rx"]
        /\ RxInv' /\ TxInv' => IndInv'
    BY <1>3, <1>6, <2>1, <2>2, <2>4, <2>5
  <2>7. RxInv' /\ TxInv'
    BY <1>2, <1>3, <1>4, <2>1, <2>3, <2>4, <2>6 DEF RxInv, TxInv, Untouched, Off, Based, SetTo
  <2>8. QED
    BY <1>4, <2>6, <2>7
<1>20. QED
  BY <1>8, <1>9, <1>10, <1>11, <1>12, <1>13, <1>14, <1>15, <1>16, <1>17, <1>18, <1>19, I10eQueues
  DEF I10eWriting, SendTail

\* A descriptor whose buffer is allocated stays prepared.
LEMMA BufferKept ==
  ASSUME IndInv, alive, UNCHANGED program, \A n \in 1..Len(mem) : mem'[n] = mem[n],
         NEW k \in Slots, BufferAt(k) <= Len(mem), desc'["rx"][k] = desc["rx"][k]
  PROVE  /\ desc'["rx"][k].ready
         /\ desc'["rx"][k].buf = Iova(mem[BufferAt(k)].addr)'
         /\ desc'["rx"][k].size = BufferSize' /\ mem'[BufferAt(k)].size = BufferSize'
<1>1. DescInv /\ k \in Nat /\ Len(mem) \in Nat
  BY Numbers, MemTypes DEF IndInv, TypeOK
<1>2. BufferAt(k) \in 1..Len(mem)
  BY <1>1 DEF BufferAt
<1>3. mem'[BufferAt(k)] = mem[BufferAt(k)] /\ BufferAt(k)' = BufferAt(k) /\ BufferSize' = BufferSize
  BY <1>2 DEF BufferAt, BufferSize
<1>4. Iova(mem[BufferAt(k)].addr)' = Iova(mem[BufferAt(k)].addr)
  BY <1>3 DEF Iova, IovaOffset
<1>5. QED
  BY <1>1, <1>3, <1>4 DEF DescInv

\* A descriptor with the buffer at a.
With(a, size) == [buf |-> Iova(a), size |-> size, ready |-> TRUE, full |-> FALSE]

Describes(r, k, d) == desc' = [desc EXCEPT ![r][k] = d]

LEMMA Prepares ==
  ASSUME NEW r \in Rings, NEW k \in Slots, NEW a \in Nat, NEW size \in Nat, IndInv,
         Describes(r, k, With(a, size))
  PROVE  Written(r, k, With(a, size))
<1>1. NicTypeOK /\ Iova(a) \in Int
  BY Offset DEF IndInv, TypeOK
<1>2. With(a, size) \in Descriptors
  BY <1>1 DEF Descriptors, With
<1>3. QED
  BY <1>1, <1>2, DescWritten DEF Describes

LEMMA I10eAllocates ==
  ASSUME IndInv, program = "i10e", RxRing \/ RxBuffer \/ TxRing \/ SendOne
  PROVE  IndInv'
<1>1. /\ alive /\ UNCHANGED <<program, due, polled, ring, reset, lost, receive>>
      /\ at \in {"rx_ring", "rx_buffers", "tx_ring", "send"}
  BY DEF RxRing, RxBuffer, TxRing, SendOne, Goes, cardVars
<1>2. /\ NicTypeOK /\ PlaceInv /\ RxInv /\ TxInv /\ CardInv /\ PollInv /\ PollExact
      /\ SizeInv /\ DescInv /\ desc \in [Rings -> [Slots -> Descriptors]] /\ i \in 0..RingLen
  BY <1>1 DEF IndInv, TypeOK, NicTypeOK, Descriptors
<1>3. /\ RingLen \in Nat /\ RingLen >= 8 /\ DmaSize \in Nat
      /\ "rx" \in Rings /\ "tx" \in Rings /\ 0 \in Slots
      /\ 16 * RingLen \in Nat \ {0} /\ 2048 \in Nat \ {0} /\ 128 \in Nat \ {0}
      /\ \A k \in Slots : k \in Nat /\ k < RingLen
  BY Numbers
<1>4. RingAt("rx") = 1 /\ RingAt("tx") = RingLen + 2 /\ FrameAt = RingLen + 3
      /\ DescSize = 16 /\ DescSize' = 16
      /\ RingAt("rx")' = 1 /\ RingAt("tx")' = RingLen + 2 /\ FrameAt' = RingLen + 3
      /\ \A k \in Slots : BufferAt(k) = k + 2 /\ BufferAt(k)' = k + 2
      /\ BufferSize = 2048 /\ BufferSize' = 2048
  BY <1>1, program = "i10e" DEF RingAt, FrameAt, DescSize, BufferAt, BufferSize
<1>5. ASSUME NicTypeOK', PlaceInv', at' # "done",
             alive' => MemInv' /\ SizeInv' /\ DescInv' /\ RxInv' /\ TxInv' /\ CardInv' /\ PollInv'
      PROVE  IndInv'
  <2>1. TypeOK'
    BY <1>5 DEF TypeOK, PlaceInv, Places, I10ePlaces, X710Places
  <2>2. PollExact'
    BY <1>5 DEF PollExact
  <2>3. QED
    BY <1>5, <2>1, <2>2 DEF IndInv
<1>6. CASE RxRing
  <2>1. /\ at = "rx_ring" /\ at' = "rx_buffers" /\ Allocate(16 * RingLen, 128)
        /\ i' = 0 /\ desc' = desc
    BY <1>6 DEF RxRing, Goes
  <2>2. PlaceInv' /\ Allocated = 0 /\ Allocated' = 1
    BY <1>1, <1>3, <2>1, program = "i10e" DEF PlaceInv, I10ePlaces, Allocated
  <2>3. /\ next' \in Nat /\ mem' \in Seq([addr : Nat, size : Nat]) /\ alive' \in BOOLEAN
        /\ Len(mem') = 1 /\ mem'[1].size = 16 * RingLen
        /\ alive' => MemInv'
    <3>1. Allocated' = Allocated + 1
      BY <2>2
    <3>2. Grown(16 * RingLen, 128)
      BY <1>1, <1>3, <2>1, <3>1, Allocates
    <3>3. Len(mem) = 0
      BY <2>2, <3>2 DEF Grown
    <3>4. QED
      BY <3>2, <3>3 DEF Grown
  <2>4. NicTypeOK'
    <3>1. /\ next' \in Nat /\ mem' \in Seq([addr : Nat, size : Nat]) /\ alive' \in BOOLEAN
          /\ i' \in 0..RingLen /\ desc' = desc
      BY <1>2, <1>3, <2>1, <2>3
    <3>2. QED
      BY <1>1, <1>2, <3>1 DEF NicTypeOK
  <2>5. SizeInv' /\ DescInv'
    <3>1. SizeInv'
      BY <1>3, <1>4, <2>3 DEF SizeInv, Rings
    <3>2. \A k \in Slots : ~(BufferAt(k)' <= Len(mem'))
      BY <1>3, <1>4, <2>3
    <3>3. ~(FrameAt' <= Len(mem'))
      BY <1>3, <1>4, <2>3
    <3>4. program' # "x710"
      BY <1>1, program = "i10e"
    <3>5. QED
      BY <3>1, <3>2, <3>3, <3>4 DEF DescInv
  <2>6. RxInv' /\ TxInv' /\ CardInv' /\ PollInv'
    BY <1>1, <1>2, <2>1 DEF RxInv, TxInv, Untouched, CardInv, PollInv
  <2>7. QED
    BY <1>5, <2>1, <2>2, <2>3, <2>4, <2>5, <2>6
<1>7. CASE RxBuffer
  <2>1. /\ at = "rx_buffers" /\ at' = "rx_buffers" /\ i < RingLen
        /\ Allocate(2048, 128) /\ i' = i + 1
        /\ Describes("rx", i, With(RoundUp(next, 128), 2048))
    BY <1>7 DEF RxBuffer, Goes, With, Describes
  <2>2. /\ PlaceInv' /\ Allocated = i + 1 /\ Allocated' = i + 2 /\ i \in Slots /\ i \in Nat
        /\ i + 1 \in 0..RingLen
    BY <1>1, <1>2, <1>3, <2>1, program = "i10e" DEF PlaceInv, I10ePlaces, Allocated, Slots
  <2>3. /\ next' \in Nat /\ mem' \in Seq([addr : Nat, size : Nat]) /\ alive' \in BOOLEAN
        /\ Len(mem) = i + 1 /\ Len(mem') = i + 2
        /\ \A n \in 1..Len(mem) : mem'[n] = mem[n]
        /\ mem'[i + 2] = [addr |-> RoundUp(next, 128), size |-> 2048]
        /\ alive' => MemInv'
    <3>1. Allocated' = Allocated + 1
      BY <2>2
    <3>2. Grown(2048, 128)
      BY <1>1, <1>3, <2>1, <3>1, Allocates
    <3>3. Len(mem) = i + 1 /\ i + 1 + 1 = i + 2
      BY <2>2, <3>2 DEF Grown
    <3>4. QED
      BY <3>2, <3>3 DEF Grown
  <2>4. RoundUp(next, 128) \in Nat
    BY <1>2, RoundUpBounds DEF NicTypeOK
  <2>5. /\ desc' \in [Rings -> [Slots -> Descriptors]]
        /\ desc'["rx"][i] = With(RoundUp(next, 128), 2048)
        /\ \A l \in Slots \ {i} : desc'["rx"][l] = desc["rx"][l]
        /\ desc'["tx"] = desc["tx"]
    <3>1. 2048 \in Nat
      OBVIOUS
    <3>2. Written("rx", i, With(RoundUp(next, 128), 2048))
      BY <1>3, <2>1, <2>2, <2>4, <3>1, Prepares
    <3>3. QED
      BY <1>3, <3>2 DEF Written, Rings
  <2>6. NicTypeOK'
    <3>1. /\ next' \in Nat /\ mem' \in Seq([addr : Nat, size : Nat]) /\ alive' \in BOOLEAN
          /\ i' \in 0..RingLen /\ desc' \in [Rings -> [Slots -> Descriptors]]
      BY <2>1, <2>2, <2>3, <2>5
    <3>2. QED
      BY <1>1, <1>2, <3>1 DEF NicTypeOK, Descriptors
  <2>7. SizeInv'
    <3>1. 1 \in 1..Len(mem) /\ 1 <= Len(mem) /\ ~(RingLen + 2 <= Len(mem'))
      <4>1. Len(mem) = i + 1 /\ Len(mem') = i + 2
        BY <2>3
      <4>2. QED
        BY <1>3, <2>1, <2>2, <4>1
    <3>2. mem'[1] = mem[1]
      BY <2>3, <3>1
    <3>3. QED
      BY <1>2, <1>3, <1>4, <3>1, <3>2 DEF SizeInv, Rings
  <2>8. DescInv'
    <3>1. ASSUME NEW k \in Slots, BufferAt(k)' <= Len(mem')
          PROVE  /\ desc'["rx"][k].ready
                 /\ desc'["rx"][k].buf = Iova(mem[BufferAt(k)].addr)'
                 /\ desc'["rx"][k].size = BufferSize' /\ mem'[BufferAt(k)'].size = BufferSize'
      <4>1. CASE k = i
        <5>1. BufferAt(k)' = i + 2 /\ mem'[BufferAt(k)'].addr = RoundUp(next, 128)
              /\ mem'[BufferAt(k)'].size = 2048
          BY <1>4, <2>3, <4>1
        <5>2. Iova(mem[BufferAt(k)].addr)' = Iova(RoundUp(next, 128))
          BY <1>1, <5>1 DEF Iova, IovaOffset
        <5>3. QED
          BY <1>4, <2>5, <4>1, <5>1, <5>2 DEF With
      <4>2. CASE k # i
        <5>1. BufferAt(k) <= Len(mem) /\ BufferAt(k)' = BufferAt(k)
          BY <1>3, <1>4, <2>2, <2>3, <3>1, <4>2
        <5>2. desc'["rx"][k] = desc["rx"][k]
          BY <2>5, <4>2
        <5>3. QED
          BY <1>1, <2>3, <5>1, <5>2, BufferKept, SMTT(30)
      <4>3. QED
        BY <4>1, <4>2
    <3>2. ~(FrameAt' <= Len(mem'))
      BY <1>3, <1>4, <2>1, <2>2, <2>3
    <3>3. program' # "x710"
      BY <1>1, program = "i10e"
    <3>4. QED
      BY <3>1, <3>2, <3>3 DEF DescInv
  <2>9. RxInv' /\ TxInv' /\ CardInv' /\ PollInv'
    <3>1. ring["rx"].head = 0
      BY <1>2, <1>3, <2>1, program = "i10e" DEF RxInv, Untouched, Off
    <3>2. \A k \in Slots : ~desc["rx"][k].full
      BY <1>2, <1>3, <3>1, program = "i10e" DEF PollInv
    <3>3. \A k \in Slots : ~desc'["rx"][k].full
      BY <2>2, <2>5, <3>2 DEF With
    <3>4. PollInv'
      BY <1>1, <1>3, <2>1, <3>1, <3>3 DEF PollInv
    <3>5. QED
      BY <1>1, <1>2, <2>1, <3>4 DEF RxInv, TxInv, Untouched, CardInv
  <2>10. QED
    BY <1>5, <2>1, <2>2, <2>3, <2>6, <2>7, <2>8, <2>9
<1>8. CASE TxRing
  <2>1. /\ at = "tx_ring" /\ at' = "tx_queue" /\ Allocate(16 * RingLen, 128)
        /\ i' = i /\ desc' = desc
    BY <1>8 DEF TxRing, Goes
  <2>2. PlaceInv' /\ Allocated = RingLen + 1 /\ Allocated' = RingLen + 2
    BY <1>1, <1>3, <2>1, program = "i10e" DEF PlaceInv, I10ePlaces, Allocated
  <2>3. /\ next' \in Nat /\ mem' \in Seq([addr : Nat, size : Nat]) /\ alive' \in BOOLEAN
        /\ Len(mem) = RingLen + 1 /\ Len(mem') = RingLen + 2
        /\ \A n \in 1..Len(mem) : mem'[n] = mem[n]
        /\ mem'[RingLen + 2].size = 16 * RingLen
        /\ alive' => MemInv'
        /\ \A r \in Rings : RingAt(r)' = RingAt(r)
        /\ \A r \in Rings : RingAt(r) <= Len(mem) => BaseOf(r)' = BaseOf(r)
    <3>1. Allocated' = Allocated + 1 /\ RingLen + 1 + 1 = RingLen + 2
      BY <1>3, <2>2
    <3>2. Grown(16 * RingLen, 128)
      BY <1>1, <1>3, <2>1, <3>1, Allocates
    <3>3. Len(mem) = RingLen + 1
      BY <2>2, <3>2 DEF Grown
    <3>4. QED
      BY <3>1, <3>2, <3>3 DEF Grown
  <2>4. NicTypeOK'
    <3>1. /\ next' \in Nat /\ mem' \in Seq([addr : Nat, size : Nat]) /\ alive' \in BOOLEAN
          /\ i' \in 0..RingLen /\ desc' = desc
      BY <1>2, <1>3, <2>1, <2>3
    <3>2. QED
      BY <1>1, <1>2, <3>1 DEF NicTypeOK
  <2>5. SizeInv'
    <3>1. 1 \in 1..Len(mem) /\ 1 <= Len(mem)
      BY <1>3, <2>3
    <3>2. mem'[1] = mem[1]
      BY <2>3, <3>1
    <3>3. QED
      BY <1>2, <1>3, <1>4, <2>3, <3>1, <3>2, SMTT(30) DEF SizeInv, Rings
  <2>6. DescInv'
    <3>1. ASSUME NEW k \in Slots, BufferAt(k)' <= Len(mem')
          PROVE  /\ desc'["rx"][k].ready
                 /\ desc'["rx"][k].buf = Iova(mem[BufferAt(k)].addr)'
                 /\ desc'["rx"][k].size = BufferSize' /\ mem'[BufferAt(k)'].size = BufferSize'
      <4>1. BufferAt(k) <= Len(mem) /\ BufferAt(k)' = BufferAt(k)
        BY <1>3, <1>4, <2>3
      <4>2. QED
        BY <1>1, <2>1, <2>3, <4>1, BufferKept
    <3>2. ~(FrameAt' <= Len(mem'))
      BY <1>3, <1>4, <2>3
    <3>3. program' # "x710"
      BY <1>1, program = "i10e"
    <3>4. QED
      BY <3>1, <3>2, <3>3 DEF DescInv
  <2>7. RxInv' /\ TxInv' /\ CardInv' /\ PollInv'
    <3>1. SetTo("rx", {"on"}, RingLen - 1)
      BY <1>2, <2>1, program = "i10e" DEF RxInv
    <3>2. SetTo("rx", {"on"}, RingLen - 1)'
      <4>1. RingAt("rx") <= Len(mem)
        BY <1>3, <1>4, <2>3
      <4>2. BaseOf("rx")' = BaseOf("rx")
        BY <1>3, <2>3, <4>1
      <4>3. QED
        BY <1>1, <3>1, <4>2 DEF SetTo
    <3>3. QED
      BY <1>1, <1>2, <2>1, <3>2 DEF RxInv, TxInv, Untouched, CardInv, PollInv
  <2>8. QED
    BY <1>5, <2>1, <2>2, <2>3, <2>4, <2>5, <2>6, <2>7
<1>9. CASE SendOne
  <2>1. /\ at = "send" /\ at' = "send_tail" /\ Allocate(128, 128) /\ i' = i
        /\ Describes("tx", 0, With(RoundUp(next, 128), 64))
    BY <1>9 DEF SendOne, Goes, With, Describes
  <2>2. PlaceInv' /\ Allocated = RingLen + 2 /\ Allocated' = RingLen + 3
    BY <1>1, <1>3, <2>1, program = "i10e" DEF PlaceInv, I10ePlaces, Allocated
  <2>3. /\ next' \in Nat /\ mem' \in Seq([addr : Nat, size : Nat]) /\ alive' \in BOOLEAN
        /\ Len(mem) = RingLen + 2 /\ Len(mem') = RingLen + 3
        /\ \A n \in 1..Len(mem) : mem'[n] = mem[n]
        /\ mem'[RingLen + 3] = [addr |-> RoundUp(next, 128), size |-> 128]
        /\ alive' => MemInv'
        /\ \A r \in Rings : RingAt(r)' = RingAt(r)
        /\ \A r \in Rings : RingAt(r) <= Len(mem) => BaseOf(r)' = BaseOf(r)
    <3>1. Allocated' = Allocated + 1 /\ RingLen + 2 + 1 = RingLen + 3
      BY <1>3, <2>2
    <3>2. Grown(128, 128)
      BY <1>1, <1>3, <2>1, <3>1, Allocates
    <3>3. Len(mem) = RingLen + 2
      BY <2>2, <3>2 DEF Grown
    <3>4. QED
      BY <3>1, <3>2, <3>3 DEF Grown
  <2>4. RoundUp(next, 128) \in Nat
    BY <1>2, RoundUpBounds DEF NicTypeOK
  <2>5. /\ desc' \in [Rings -> [Slots -> Descriptors]]
        /\ desc'["tx"][0] = With(RoundUp(next, 128), 64)
        /\ desc'["rx"] = desc["rx"]
    <3>1. 64 \in Nat
      OBVIOUS
    <3>2. Written("tx", 0, With(RoundUp(next, 128), 64))
      BY <1>3, <2>1, <2>4, <3>1, Prepares
    <3>3. QED
      BY <1>3, <3>2 DEF Written, Rings
  <2>6. NicTypeOK'
    <3>1. /\ next' \in Nat /\ mem' \in Seq([addr : Nat, size : Nat]) /\ alive' \in BOOLEAN
          /\ i' \in 0..RingLen /\ desc' \in [Rings -> [Slots -> Descriptors]]
      BY <1>2, <2>1, <2>3, <2>5
    <3>2. QED
      BY <1>1, <1>2, <3>1 DEF NicTypeOK, Descriptors
  <2>7. SizeInv'
    <3>1. 1 \in 1..Len(mem) /\ 1 <= Len(mem) /\ RingLen + 2 \in 1..Len(mem) /\ RingLen + 2 <= Len(mem)
      <4>1. Len(mem) = RingLen + 2
        BY <2>3
      <4>2. QED
        BY <1>3, <4>1
    <3>2. mem'[1] = mem[1] /\ mem'[RingLen + 2] = mem[RingLen + 2]
      BY <2>3, <3>1
    <3>3. mem[1].size = RingLen * DescSize /\ mem[RingLen + 2].size = RingLen * DescSize
      BY <1>2, <1>3, <1>4, <3>1 DEF SizeInv
    <3>4. mem'[1].size = RingLen * DescSize' /\ mem'[RingLen + 2].size = RingLen * DescSize'
      BY <1>4, <3>2, <3>3
    <3>5. QED
      BY <1>4, <3>4 DEF SizeInv, Rings
  <2>8. DescInv'
    <3>1. ASSUME NEW k \in Slots, BufferAt(k)' <= Len(mem')
          PROVE  /\ desc'["rx"][k].ready
                 /\ desc'["rx"][k].buf = Iova(mem[BufferAt(k)].addr)'
                 /\ desc'["rx"][k].size = BufferSize' /\ mem'[BufferAt(k)'].size = BufferSize'
      <4>1. BufferAt(k) <= Len(mem) /\ BufferAt(k)' = BufferAt(k)
        BY <1>3, <1>4, <2>3
      <4>2. QED
        BY <1>1, <2>3, <2>5, <4>1, BufferKept
    <3>2. /\ mem'[FrameAt'].addr = RoundUp(next, 128) /\ mem'[FrameAt'].size = 128
          /\ Iova(RoundUp(next, 128))' = Iova(RoundUp(next, 128))'
      BY <1>4, <2>3
    <3>3. Iova(mem[FrameAt].addr)' = Iova(RoundUp(next, 128))
      BY <1>1, <3>2 DEF Iova, IovaOffset
    <3>4. /\ desc'["tx"][0].ready /\ desc'["tx"][0].buf = Iova(mem[FrameAt].addr)'
          /\ desc'["tx"][0].size = 64 /\ mem'[FrameAt'].size = 128
      BY <2>5, <3>2, <3>3 DEF With
    <3>5. program' # "x710"
      BY <1>1, program = "i10e"
    <3>6. QED
      BY <3>1, <3>4, <3>5 DEF DescInv
  <2>9. RxInv' /\ TxInv' /\ CardInv' /\ PollInv'
    <3>1. SetTo("rx", {"on"}, RingLen - 1) /\ SetTo("tx", {"on"}, 0)
      BY <1>2, <2>1, program = "i10e" DEF RxInv, TxInv
    <3>2. SetTo("rx", {"on"}, RingLen - 1)' /\ SetTo("tx", {"on"}, 0)'
      <4>1. RingAt("rx") <= Len(mem) /\ RingAt("tx") <= Len(mem)
        BY <1>3, <1>4, <2>3
      <4>2. BaseOf("rx")' = BaseOf("rx") /\ BaseOf("tx")' = BaseOf("tx")
        BY <1>3, <2>3, <4>1
      <4>3. QED
        BY <1>1, <3>1, <4>2 DEF SetTo
    <3>3. QED
      BY <1>1, <1>2, <2>1, <2>5, <3>2 DEF RxInv, TxInv, CardInv, PollInv
  <2>10. QED
    BY <1>5, <2>1, <2>2, <2>3, <2>6, <2>7, <2>8, <2>9
<1>10. QED
  BY <1>6, <1>7, <1>8, <1>9

-----------------------------------------------------------------------------
\* The steps of the card.

\* What the card does to the descriptor it takes.
Taken(r) ==
  /\ UNCHANGED <<program, alive, at, i, due, polled, next, mem, reset, lost, receive>>
  /\ \A q \in Rings : \A k \in Slots :
       /\ desc'[q][k].ready = desc[q][k].ready
       /\ desc'[q][k].buf = desc[q][k].buf
       /\ desc'[q][k].size = desc[q][k].size
       /\ desc'[q][k].full = (desc[q][k].full \/ (q = r /\ k = ring[r].head))
  /\ \A q \in Rings : /\ ring'[q].base = ring[q].base
                      /\ ring'[q].len = ring[q].len
                      /\ ring'[q].tail = ring[q].tail
                      /\ ring'[q].state = ring[q].state
  /\ \A q \in Rings \ {r} : ring'[q] = ring[q]
  /\ ring'[r].head = After(ring[r].head)

LEMMA TakeTypes ==
  ASSUME NEW r \in Rings, NicTypeOK, Take(r)
  PROVE  NicTypeOK' /\ Taken(r)
<1>1. /\ desc \in [Rings -> [Slots -> Descriptors]] /\ ring \in [Rings -> QueueRegisters]
  BY DEF NicTypeOK, Descriptors, QueueRegisters
<1>2. PICK h \in Slots : h = ring[r].head /\ After(h) \in Slots
  BY <1>1, AfterValue DEF QueueRegisters
<1>3. /\ desc' = [desc EXCEPT ![r][h].full = TRUE]
      /\ ring' = [ring EXCEPT ![r].head = After(h)]
      /\ UNCHANGED <<program, alive, at, i, due, polled, next, mem, reset, lost, receive>>
  BY <1>2 DEF Take, driverVars
<1>4. /\ ring' \in [Rings -> QueueRegisters]
      /\ \A q \in Rings : /\ ring'[q].base = ring[q].base
                          /\ ring'[q].len = ring[q].len
                          /\ ring'[q].tail = ring[q].tail
                          /\ ring'[q].state = ring[q].state
      /\ \A q \in Rings \ {r} : ring'[q] = ring[q]
      /\ ring'[r].head = After(ring[r].head)
  BY <1>1, <1>2, <1>3 DEF QueueRegisters
<1>5. PICK d : d = [desc[r][h] EXCEPT !.full = TRUE]
  OBVIOUS
<1>6. /\ d \in Descriptors /\ d.ready = desc[r][h].ready /\ d.buf = desc[r][h].buf
      /\ d.size = desc[r][h].size /\ d.full = TRUE
  <2>1. PICK e \in Descriptors : e = desc[r][h]
    BY <1>1
  <2>2. d = [e EXCEPT !.full = TRUE]
    BY <1>5, <2>1
  <2>3. QED
    BY <2>1, <2>2 DEF Descriptors
<1>7. desc' = [desc EXCEPT ![r] = [desc[r] EXCEPT ![h] = d]]
  BY <1>1, <1>3, <1>5
<1>8. /\ desc' \in [Rings -> [Slots -> Descriptors]]
      /\ desc'[r][h] = d
      /\ \A k \in Slots \ {h} : desc'[r][k] = desc[r][k]
      /\ \A q \in Rings \ {r} : desc'[q] = desc[q]
  BY <1>1, <1>6, <1>7
<1>9. NicTypeOK'
  BY <1>3, <1>4, <1>8 DEF NicTypeOK, Descriptors, QueueRegisters
<1>10. \A q \in Rings : \A k \in Slots :
         /\ desc'[q][k].ready = desc[q][k].ready
         /\ desc'[q][k].buf = desc[q][k].buf
         /\ desc'[q][k].size = desc[q][k].size
         /\ desc'[q][k].full = (desc[q][k].full \/ (q = r /\ k = ring[r].head))
  <2> TAKE q \in Rings
  <2> TAKE k \in Slots
  <2>1. desc[q][k].full \in BOOLEAN
    BY <1>1 DEF Descriptors
  <2>2. CASE q = r /\ k = h
    BY <1>2, <1>6, <1>8, <2>2
  <2>3. CASE ~(q = r /\ k = h)
    BY <1>2, <1>8, <2>1, <2>3
  <2>4. QED
    BY <2>2, <2>3
<1>11. QED
  BY <1>3, <1>4, <1>9, <1>10 DEF Taken

LEMMA CardTypes ==
  ASSUME NicTypeOK, CardStep \/ \E r \in Rings : QueueFails(r)
  PROVE  /\ NicTypeOK'
         /\ UNCHANGED <<program, alive, at, i, due, polled, next, mem, lost, receive>>
<1>1. /\ desc \in [Rings -> [Slots -> Descriptors]] /\ ring \in [Rings -> QueueRegisters]
      /\ reset \in {0} \cup ResetValues
  BY DEF NicTypeOK, Descriptors, QueueRegisters
<1>2. ASSUME desc' \in [Rings -> [Slots -> Descriptors]], ring' \in [Rings -> QueueRegisters],
             reset' \in {0} \cup ResetValues,
             UNCHANGED <<program, alive, at, i, due, polled, next, mem, lost, receive>>
      PROVE  NicTypeOK'
  BY <1>2 DEF NicTypeOK, Descriptors, QueueRegisters
<1>3. CASE ResetEnds
  <2>1. Off \in QueueRegisters
    BY Numbers DEF Off, QueueRegisters
  <2>2. QED
    BY <1>1, <1>2, <1>3, <2>1 DEF ResetEnds, driverVars, memVars
<1>4. CASE ResetGoesOn
  BY <1>1, <1>2, <1>4 DEF ResetGoesOn, driverVars, memVars
<1>5. ASSUME NEW r \in Rings, QueueEnabled(r)
      PROVE  NicTypeOK' /\ UNCHANGED <<program, alive, at, i, due, polled, next, mem, lost, receive>>
  <2>1. ring' \in [Rings -> QueueRegisters]
    BY <1>1, <1>5 DEF QueueEnabled, QueueRegisters
  <2>2. QED
    BY <1>1, <1>2, <1>5, <2>1 DEF QueueEnabled, driverVars, memVars
<1>6. ASSUME NEW r \in Rings, Take(r)
      PROVE  NicTypeOK' /\ UNCHANGED <<program, alive, at, i, due, polled, next, mem, lost, receive>>
  BY <1>6, TakeTypes DEF Taken
<1>7. ASSUME NEW r \in Rings, QueueFails(r)
      PROVE  NicTypeOK' /\ UNCHANGED <<program, alive, at, i, due, polled, next, mem, lost, receive>>
  <2>1. ring' \in [Rings -> QueueRegisters]
    BY <1>1, <1>7 DEF QueueFails, QueueRegisters
  <2>2. QED
    BY <1>1, <1>2, <1>7, <2>1 DEF QueueFails, driverVars, memVars
<1>8. QED
  BY <1>3, <1>4, <1>5, <1>6, <1>7, Numbers DEF CardStep, CardWork, Receives, Transmits

\* Once the program has ended only the card goes on.
LEMMA EndedStep ==
  ASSUME IndInv, ~alive, CardStep \/ \E r \in Rings : QueueFails(r)
  PROVE  IndInv'
<1>1. NicTypeOK' /\ UNCHANGED <<program, alive, at, i, due, polled>>
  BY CardTypes DEF IndInv, TypeOK
<1>2. QED
  BY <1>1 DEF IndInv, TypeOK, PlaceInv, PollExact

LEMMA ResetStep ==
  ASSUME IndInv, alive, ResetEnds \/ ResetGoesOn
  PROVE  IndInv'
<1>1. /\ NicTypeOK' /\ UNCHANGED <<program, alive, at, i, due, polled, memVars>>
  BY CardTypes DEF IndInv, TypeOK, CardStep, CardWork, ResetEnds, ResetGoesOn, driverVars
<1>2. /\ NicTypeOK /\ PlaceInv /\ RxInv /\ TxInv /\ CardInv /\ PollInv /\ PollExact
  BY DEF IndInv, TypeOK
<1>3. at \in {"wait_reset", "corer"} \/ (program = "x710" /\ at = "clear")
  BY <1>2 DEF CardInv, ResetEnds, ResetGoesOn
<1>4. program \in {"i10e", "x710"} /\ ring \in [Rings -> QueueRegisters]
      /\ "rx" \in Rings /\ "tx" \in Rings
  BY <1>2, Numbers DEF NicTypeOK, QueueRegisters
<1>5. ring["rx"] = Off /\ ring["tx"] = Off
  BY <1>2, <1>3, <1>4 DEF RxInv, TxInv, Untouched, PlaceInv, I10ePlaces, X710Places
<1>6. ring'["rx"] = Off /\ ring'["tx"] = Off
  BY <1>4, <1>5 DEF ResetEnds, ResetGoesOn
<1>7. PlaceInv' /\ Allocated' = Allocated
  BY <1>1, <1>2 DEF PlaceInv, Allocated
<1>8. RxInv' /\ TxInv'
  BY <1>1, <1>2, <1>3, <1>4, <1>6 DEF RxInv, TxInv, Untouched, PlaceInv, I10ePlaces, X710Places
<1>9. CardInv' /\ PollInv' /\ PollExact'
  <2>1. \A r \in Rings : ring'[r].head <= ring'[r].tail
    BY <1>6 DEF Rings, Off
  <2>2. UNCHANGED <<program, at, i, due, polled, desc>> /\ ring'["rx"].head = ring["rx"].head
    BY <1>1, <1>5, <1>6 DEF memVars
  <2>3. QED
    BY <1>2, <1>3, <2>1, <2>2 DEF CardInv, PollInv, PollExact
<1>10. QED
  BY <1>1, <1>7, <1>8, <1>9, Keeps

\* A queue starts, or fails.
LEMMA StateStep ==
  ASSUME NEW r \in Rings, IndInv, alive, QueueEnabled(r) \/ QueueFails(r)
  PROVE  IndInv'
<1>1. /\ NicTypeOK' /\ UNCHANGED <<program, alive, at, i, due, polled, memVars, reset>>
  <2>1. CardStep \/ \E q \in Rings : QueueFails(q)
    BY DEF CardStep, CardWork
  <2>2. UNCHANGED <<desc, reset>>
    BY DEF QueueEnabled, QueueFails, memVars
  <2>3. QED
    BY <2>1, <2>2, CardTypes DEF IndInv, TypeOK, memVars
<1>2. /\ NicTypeOK /\ PlaceInv /\ RxInv /\ TxInv /\ CardInv /\ PollInv /\ PollExact
      /\ program \in {"i10e", "x710"}
      /\ ring \in [Rings -> QueueRegisters] /\ "rx" \in Rings /\ "tx" \in Rings
  BY Numbers DEF IndInv, TypeOK, NicTypeOK, QueueRegisters
<1>3. /\ \A q \in Rings : RingAt(q)' = RingAt(q) /\ BaseOf(q)' = BaseOf(q)
      /\ UNCHANGED <<program, at, i, due, polled, desc, reset>>
  BY <1>1, MemKept DEF memVars
<1>4. /\ \A q \in Rings : ring'[q].base = ring[q].base /\ ring'[q].head = ring[q].head
                          /\ ring'[q].tail = ring[q].tail /\ ring'[q].len = ring[q].len
      /\ \A q \in Rings \ {r} : ring'[q] = ring[q]
      /\ \/ ring[r].state = "asked" /\ ring'[r].state = "on"
         \/ program = "x710" /\ ring[r].state = "on" /\ ring'[r].state = "failed"
  BY <1>2 DEF QueueEnabled, QueueFails, QueueRegisters
<1>5. PlaceInv' /\ Allocated' = Allocated
  BY <1>1, <1>2 DEF PlaceInv, Allocated
<1>6. ~Untouched(r) /\ ~Based(r)
  BY <1>4 DEF Untouched, Off, Based
<1>7. CASE r = "rx"
  <2>1. ring'["tx"] = ring["tx"] /\ ~Untouched("rx") /\ ~Based("rx")
    BY <1>2, <1>4, <1>6, <1>7
  <2>2. TxInv'
    BY <1>2, <1>3, <2>1 DEF TxInv, Untouched, Based, SetTo
  <2>3. RxInv'
    BY <1>2, <1>3, <1>4, <1>7, <2>1 DEF RxInv, SetTo
  <2>4. QED
    BY <1>1, <1>2, <1>3, <1>4, <1>5, <2>2, <2>3, Keeps DEF CardInv, PollInv, PollExact
<1>8. CASE r = "tx"
  <2>1. ring'["rx"] = ring["rx"] /\ ~Untouched("tx") /\ ~Based("tx")
    BY <1>2, <1>4, <1>6, <1>8
  <2>2. RxInv'
    BY <1>2, <1>3, <2>1 DEF RxInv, Untouched, Based, SetTo
  <2>3. TxInv'
    BY <1>2, <1>3, <1>4, <1>8, <2>1 DEF TxInv, SetTo
  <2>4. QED
    BY <1>1, <1>2, <1>3, <1>4, <1>5, <2>2, <2>3, Keeps DEF CardInv, PollInv, PollExact
<1>9. QED
  BY <1>7, <1>8 DEF Rings

\* The head moves towards the tail and cannot wrap around.
LEMMA TakeStep ==
  ASSUME NEW r \in Rings, IndInv, alive, Take(r)
  PROVE  IndInv'
<1>1. /\ NicTypeOK /\ PlaceInv /\ RxInv /\ TxInv /\ CardInv /\ PollInv /\ PollExact
      /\ MemInv /\ SizeInv /\ DescInv
  BY DEF IndInv, TypeOK
<1>2. NicTypeOK' /\ Taken(r)
  BY <1>1, TakeTypes
<1>3. /\ \A q \in Rings : RingAt(q)' = RingAt(q) /\ BaseOf(q)' = BaseOf(q)
      /\ "rx" \in Rings /\ "tx" \in Rings /\ 0 \in Slots
      /\ \A q \in Rings : ring[q].head \in Slots /\ ring[q].tail \in Slots
      /\ \A k \in Slots : k \in Nat /\ k < RingLen
  BY <1>1, <1>2, MemKept, Numbers, RegisterTypes DEF Taken
<1>4. After(ring[r].head) = ring[r].head + 1 /\ ring[r].head < ring[r].tail
  <2>1. PICK h \in Slots, t \in Slots : h = ring[r].head /\ t = ring[r].tail /\ h <= t /\ h # t
    BY <1>1, <1>3 DEF Take, CardInv
  <2>2. h < RingLen - 1
    BY <1>3, <2>1, Numbers
  <2>3. QED
    BY <1>3, <2>1, <2>2, AfterValue
<1>5. PlaceInv' /\ Allocated' = Allocated /\ PollExact'
  BY <1>1, <1>2 DEF PlaceInv, Allocated, PollExact, Taken
<1>6. MemInv' /\ SizeInv'
  BY <1>1, <1>2, <1>5, MemKept DEF Taken
<1>7. DescInv'
  <2>1. /\ \A n : Iova(mem[n].addr)' = Iova(mem[n].addr)
        /\ FrameAt' = FrameAt /\ BufferSize' = BufferSize
        /\ \A k \in Slots : BufferAt(k)' = BufferAt(k)
    BY <1>2 DEF Iova, IovaOffset, FrameAt, BufferSize, BufferAt, Taken
  <2>2. QED
    BY <1>1, <1>2, <1>3, <2>1 DEF DescInv, Iova, IovaOffset, Taken
<1>8. RxInv' /\ TxInv'
  <2>1. /\ \A states, tail : SetTo("rx", states, tail) => SetTo("rx", states, tail)'
        /\ \A states, tail : SetTo("tx", states, tail) => SetTo("tx", states, tail)'
    BY <1>2, <1>3 DEF SetTo, Taken
  <2>2. ring[r].state = "on"
    BY DEF Take
  <2>3. /\ Untouched("rx") => Untouched("rx")'
        /\ Untouched("tx") => Untouched("tx")'
        /\ Based("rx") => Based("rx")'
        /\ Based("tx") => Based("tx")'
    BY <1>2, <1>3, <2>2 DEF Untouched, Off, Based, Taken
  <2>4. QED
    BY <1>1, <1>2, <2>1, <2>3 DEF RxInv, TxInv, Taken
<1>9. CardInv'
  <2> SUFFICES ASSUME NEW q \in Rings PROVE ring'[q].head <= ring'[q].tail
    BY <1>1, <1>2 DEF CardInv, Taken
  <2>1. CASE q = r
    BY <1>2, <1>3, <1>4, <2>1 DEF Taken
  <2>2. CASE q # r
    BY <1>1, <1>2, <2>2 DEF CardInv, Taken
  <2>3. QED
    BY <2>1, <2>2
<1>10. PollInv'
  <2> SUFFICES ASSUME program = "i10e", NEW k \in Slots
               PROVE  desc'["rx"][k].full <=> k < ring'["rx"].head
    BY <1>1, <1>2 DEF PollInv, Taken
  <2>1. desc["rx"][k].full <=> k < ring["rx"].head
    BY <1>1 DEF PollInv
  <2>2. CASE r = "rx"
    <3>1. ring'["rx"].head = ring["rx"].head + 1
      BY <1>2, <1>4, <2>2 DEF Taken
    <3>2. desc'["rx"][k].full = (desc["rx"][k].full \/ k = ring["rx"].head)
      BY <1>2, <1>3, <2>2 DEF Taken
    <3>3. PICK h \in Nat : h = ring["rx"].head
      BY <1>3
    <3>4. k < h + 1 <=> k < h \/ k = h
      BY <1>3, <3>3
    <3>5. QED
      BY <2>1, <3>1, <3>2, <3>3, <3>4
  <2>3. CASE r = "tx"
    BY <1>2, <1>3, <2>1, <2>3 DEF Taken
  <2>4. QED
    BY <2>2, <2>3 DEF Rings
<1>11. QED
  BY <1>1, <1>2, <1>5, <1>6, <1>7, <1>8, <1>9, <1>10
  DEF IndInv, TypeOK, Taken

-----------------------------------------------------------------------------
\* The steps of x710.c.

LEMMA X710Moves ==
  ASSUME IndInv, program = "x710", Trigger \/ ResetSeen \/ Space \/ Answer
  PROVE  IndInv'
<1>1. alive /\ UNCHANGED <<program, alive, i, due, polled, memVars, ring>>
  BY DEF Trigger, ResetSeen, Space, Answer, Goes, memVars, cardVars
<1>2. /\ NicTypeOK /\ PlaceInv /\ RxInv /\ TxInv /\ CardInv /\ PollInv
      /\ reset \in {0} \cup ResetValues
  BY <1>1 DEF IndInv, TypeOK, NicTypeOK
<1>3. \A r \in Rings : RingAt(r)' = RingAt(r) /\ BaseOf(r)' = BaseOf(r)
  BY <1>1, MemKept DEF memVars
<1>4. /\ desc' = desc /\ ring' = ring /\ mem' = mem /\ next' = next /\ program' = program
      /\ alive' = alive /\ program = "x710" /\ alive /\ UNCHANGED <<i, due, polled>>
  BY <1>1 DEF memVars
<1>5. CASE Trigger
  <2>1. /\ at = "buffers" /\ at' = "corer" /\ i = RingLen /\ reset' \in ResetValues /\ receive' = TRUE
        /\ lost' = lost
    BY <1>5 DEF Trigger, Goes
  <2>2. NicTypeOK' /\ PlaceInv' /\ Allocated' = Allocated
    BY <1>2, <1>4, <2>1, Numbers DEF NicTypeOK, PlaceInv, X710Places, Allocated
  <2>3. RxInv' /\ TxInv' /\ CardInv' /\ PollInv' /\ PollExact'
    BY <1>2, <1>3, <1>4, <2>1, Numbers
    DEF RxInv, TxInv, Untouched, Based, SetTo, CardInv, PollInv, PollExact
  <2>4. QED
    BY <1>1, <1>4, <2>1, <2>2, <2>3, Keeps
<1>6. CASE ResetSeen
  <2>1. at = "corer" /\ at' = "clear" /\ UNCHANGED <<reset, lost, receive>>
    BY <1>6 DEF ResetSeen, Goes, cardVars
  <2>2. NicTypeOK' /\ PlaceInv' /\ Allocated' = Allocated
    BY <1>2, <1>4, <2>1, Numbers DEF NicTypeOK, PlaceInv, X710Places, Allocated
  <2>3. RxInv' /\ TxInv' /\ CardInv' /\ PollInv' /\ PollExact'
    BY <1>2, <1>3, <1>4, <2>1, Numbers
    DEF RxInv, TxInv, Untouched, Based, SetTo, CardInv, PollInv, PollExact
  <2>4. QED
    BY <1>1, <1>4, <2>1, <2>2, <2>3, Keeps
<1>7. CASE Space
  <2>1. at = "space" /\ at' = "command" /\ UNCHANGED <<reset, lost, receive>>
    BY <1>7 DEF Space, Goes, cardVars
  <2>2. NicTypeOK' /\ PlaceInv' /\ Allocated' = Allocated
    BY <1>2, <1>4, <2>1, Numbers DEF NicTypeOK, PlaceInv, X710Places, Allocated
  <2>3. RxInv' /\ TxInv' /\ CardInv' /\ PollInv' /\ PollExact'
    BY <1>2, <1>3, <1>4, <2>1, Numbers
    DEF RxInv, TxInv, Untouched, Based, SetTo, CardInv, PollInv, PollExact
  <2>4. QED
    BY <1>1, <1>4, <2>1, <2>2, <2>3, Keeps
<1>8. CASE Answer
  <2>1. at = "wait_dd" /\ at' = "done" /\ UNCHANGED <<reset, lost, receive>>
    BY <1>8 DEF Answer, Goes, cardVars
  <2>2. NicTypeOK' /\ PlaceInv' /\ Allocated' = Allocated
    BY <1>2, <1>4, <2>1, Numbers DEF NicTypeOK, PlaceInv, X710Places, Allocated
  <2>3. RxInv' /\ TxInv' /\ CardInv' /\ PollInv' /\ PollExact'
    BY <1>2, <1>3, <1>4, <2>1, Numbers
    DEF RxInv, TxInv, Untouched, Based, SetTo, CardInv, PollInv, PollExact
  <2>4. QED
    BY <1>1, <1>4, <2>1, <2>2, <2>3, Keeps
<1>9. QED
  BY <1>5, <1>6, <1>7, <1>8

LEMMA X710Ends ==
  ASSUME IndInv, program = "x710", Critical
  PROVE  IndInv'
<1>1. alive' = FALSE /\ UNCHANGED <<program, at, i, due, polled, memVars, cardVars>>
  BY DEF Critical
<1>2. NicTypeOK'
  BY <1>1 DEF IndInv, TypeOK, NicTypeOK, memVars, cardVars
<1>3. QED
  BY <1>1, <1>2 DEF IndInv, TypeOK, PlaceInv, PollExact

X710Writing ==
  ClearRx \/ ClearTx \/ ArqBase \/ ArqLen \/ AtqBase \/ AtqLen \/ ArqTail \/ AtqTail

\* Registers are written, while the card does not reset.
LEMMA X710Writes ==
  ASSUME IndInv, program = "x710", reset = 0, X710Writing
  PROVE  IndInv'
<1>1. /\ alive /\ UNCHANGED <<program, alive, i, due, polled, memVars, reset, receive>>
      /\ at \in {"clear", "clear_tx", "arq_base", "arq_len", "atq_base", "atq_len", "arq_tail",
                 "atq_tail"}
  BY DEF ClearRx, ClearTx, ArqBase, ArqLen, AtqBase, AtqLen, ArqTail, AtqTail, Registers,
         Write, Goes, X710Writing
<1>2. /\ NicTypeOK /\ PlaceInv /\ RxInv /\ TxInv /\ CardInv /\ PollInv /\ PollExact
      /\ Len(mem) = Allocated
      /\ \A r \in Rings : /\ ring[r] \in QueueRegisters
                          /\ ring[r].head \in Nat /\ ring[r].tail \in Nat
  BY <1>1, Numbers, RegisterTypes DEF IndInv, TypeOK, QueueRegisters, MemInv
<1>3. /\ \A r \in Rings : RingAt(r)' = RingAt(r) /\ BaseOf(r)' = BaseOf(r)
      /\ "rx" \in Rings /\ "tx" \in Rings
      /\ 0 \in Slots /\ 1 \in Slots /\ Posted \in Slots /\ Posted \in Nat
  BY <1>1, MemKept, Numbers DEF memVars
<1>4. /\ desc' = desc /\ mem' = mem /\ next' = next /\ program' = program
      /\ alive' = alive /\ program = "x710" /\ alive /\ reset = 0
      /\ UNCHANGED <<i, due, polled, reset, receive>>
  BY <1>1, <1>2 DEF memVars
<1>5. /\ BaseOf("rx") = Iova(mem[2].addr) /\ BaseOf("rx") \in Int
      /\ BaseOf("tx") = Iova(mem[1].addr) /\ BaseOf("tx") \in Int
  <2>1. Allocated = RingLen + 2
    BY <1>1, <1>4 DEF Allocated
  <2>2. 1 \in 1..Len(mem) /\ 2 \in 1..Len(mem)
    BY <1>2, <2>1, Numbers
  <2>3. mem[1].addr \in Nat /\ mem[2].addr \in Nat
    BY <1>2, <2>2, MemTypes
  <2>4. QED
    BY <1>4, <2>3, Offset DEF BaseOf, RingAt
<1>6. ASSUME NEW r \in Rings, NEW registers \in QueueRegisters, Write(r, registers),
             PlaceInv', Allocated' = Allocated,
             at' \in {"atq_tail", "wait_dd", "done"} => at = "atq_tail"
      PROVE  /\ NicTypeOK' /\ ring'[r] = registers
             /\ \A q \in Rings \ {r} : ring'[q] = ring[q]
             /\ RxInv' /\ TxInv' /\ registers.head <= registers.tail => IndInv'
  <2>1. /\ ring' \in [Rings -> QueueRegisters] /\ ring'[r] = registers
        /\ \A q \in Rings \ {r} : ring'[q] = ring[q]
    BY <1>2, <1>4, <1>6, RingWritten
  <2>2. NicTypeOK'
    BY <1>2, <1>4, <1>6, <2>1, RingWritten DEF NicTypeOK, QueueRegisters
  <2>3. PollInv' /\ PollExact'
    BY <1>4 DEF PollInv, PollExact
  <2>4. ASSUME registers.head <= registers.tail PROVE CardInv'
    BY <1>2, <1>4, <2>1, <2>4 DEF CardInv
  <2>5. QED
    BY <1>1, <1>4, <1>6, <2>1, <2>2, <2>3, <2>4, Keeps
<1>7. /\ ring["rx"].head <= ring["rx"].tail /\ ring["tx"].head <= ring["tx"].tail
  BY <1>2, <1>3 DEF CardInv
<1>8. CASE ClearRx
  <2> DEFINE registers == [ring["rx"] EXCEPT !.head = 0, !.tail = 0]
  <2>1. at = "clear" /\ at' = "clear_tx" /\ Write("rx", registers)
    BY <1>8 DEF ClearRx, Registers, Goes
  <2>2. PlaceInv' /\ Allocated' = Allocated /\ (at' \in {"atq_tail", "wait_dd", "done"} => at = "atq_tail")
    BY <1>2, <1>4, <2>1 DEF PlaceInv, X710Places, Allocated
  <2>3. /\ registers \in QueueRegisters
        /\ registers.base = ring["rx"].base /\ registers.head = 0
        /\ registers.tail = 0 /\ registers.state = ring["rx"].state
        /\ registers.len = ring["rx"].len
    BY <1>2, <1>3, <1>5 DEF QueueRegisters
  <2> HIDE DEF registers
  <2>4. /\ ring'["rx"] = registers /\ ring'["tx"] = ring["tx"]
        /\ RxInv' /\ TxInv' /\ registers.head <= registers.tail => IndInv'
    BY <1>3, <1>6, <2>1, <2>2, <2>3
  <2>5. registers = Off
    <3>1. ring["rx"] = Off
      BY <1>2, <1>4, <2>1 DEF RxInv, TxInv, Untouched
    <3>2. QED
      BY <2>3, <3>1 DEF QueueRegisters, Off
  <2>6. RxInv' /\ TxInv'
    BY <1>2, <1>3, <1>4, <2>1, <2>4, <2>5 DEF RxInv, TxInv, Untouched, Based, SetTo
  <2>7. registers.head <= registers.tail
    BY <2>3
  <2>8. QED
    BY <2>4, <2>6, <2>7
<1>9. CASE ClearTx
  <2> DEFINE registers == [ring["tx"] EXCEPT !.head = 0, !.tail = 0]
  <2>1. at = "clear_tx" /\ at' = "arq_base" /\ Write("tx", registers)
    BY <1>9 DEF ClearTx, Registers, Goes
  <2>2. PlaceInv' /\ Allocated' = Allocated /\ (at' \in {"atq_tail", "wait_dd", "done"} => at = "atq_tail")
    BY <1>2, <1>4, <2>1 DEF PlaceInv, X710Places, Allocated
  <2>3. /\ registers \in QueueRegisters
        /\ registers.base = ring["tx"].base /\ registers.head = 0
        /\ registers.tail = 0 /\ registers.state = ring["tx"].state
        /\ registers.len = ring["tx"].len
    BY <1>2, <1>3, <1>5 DEF QueueRegisters
  <2> HIDE DEF registers
  <2>4. /\ ring'["tx"] = registers /\ ring'["rx"] = ring["rx"]
        /\ RxInv' /\ TxInv' /\ registers.head <= registers.tail => IndInv'
    BY <1>3, <1>6, <2>1, <2>2, <2>3
  <2>5. registers = Off
    <3>1. ring["tx"] = Off
      BY <1>2, <1>4, <2>1 DEF RxInv, TxInv, Untouched
    <3>2. QED
      BY <2>3, <3>1 DEF QueueRegisters, Off
  <2>6. RxInv' /\ TxInv'
    BY <1>2, <1>3, <1>4, <2>1, <2>4, <2>5 DEF RxInv, TxInv, Untouched, Based, SetTo
  <2>7. registers.head <= registers.tail
    BY <2>3
  <2>8. QED
    BY <2>4, <2>6, <2>7
<1>10. CASE ArqBase
  <2> DEFINE registers == [ring["rx"] EXCEPT !.base = Iova(mem[2].addr)]
  <2>1. at = "arq_base" /\ at' = "arq_len" /\ Write("rx", registers)
    BY <1>10 DEF ArqBase, Registers, Goes
  <2>2. PlaceInv' /\ Allocated' = Allocated /\ (at' \in {"atq_tail", "wait_dd", "done"} => at = "atq_tail")
    BY <1>2, <1>4, <2>1 DEF PlaceInv, X710Places, Allocated
  <2>3. /\ registers \in QueueRegisters
        /\ registers.base = BaseOf("rx") /\ registers.head = ring["rx"].head
        /\ registers.tail = ring["rx"].tail /\ registers.state = ring["rx"].state
        /\ registers.len = ring["rx"].len
    BY <1>2, <1>3, <1>5 DEF QueueRegisters
  <2> HIDE DEF registers
  <2>4. /\ ring'["rx"] = registers /\ ring'["tx"] = ring["tx"]
        /\ RxInv' /\ TxInv' /\ registers.head <= registers.tail => IndInv'
    BY <1>3, <1>6, <2>1, <2>2, <2>3
  <2>5. RxInv' /\ TxInv'
    BY <1>2, <1>3, <1>4, <2>1, <2>3, <2>4 DEF RxInv, TxInv, Untouched, Based, SetTo, Off
  <2>6. registers.head <= registers.tail
    BY <1>2, <1>3, <1>4, <1>7, <2>1, <2>3 DEF RxInv, TxInv, Based, SetTo
  <2>7. QED
    BY <2>4, <2>5, <2>6
<1>11. CASE ArqLen
  <2> DEFINE registers == [ring["rx"] EXCEPT !.len = RingLen, !.state = "on"]
  <2>1. at = "arq_len" /\ at' = "atq_base" /\ Write("rx", registers)
    BY <1>11 DEF ArqLen, Registers, Goes
  <2>2. PlaceInv' /\ Allocated' = Allocated /\ (at' \in {"atq_tail", "wait_dd", "done"} => at = "atq_tail")
    BY <1>2, <1>4, <2>1 DEF PlaceInv, X710Places, Allocated
  <2>3. /\ registers \in QueueRegisters
        /\ registers.base = ring["rx"].base /\ registers.head = ring["rx"].head
        /\ registers.tail = ring["rx"].tail /\ registers.state = "on"
        /\ registers.len = RingLen
    BY <1>2, <1>3, <1>5 DEF QueueRegisters
  <2> HIDE DEF registers
  <2>4. /\ ring'["rx"] = registers /\ ring'["tx"] = ring["tx"]
        /\ RxInv' /\ TxInv' /\ registers.head <= registers.tail => IndInv'
    BY <1>3, <1>6, <2>1, <2>2, <2>3
  <2>5. RxInv' /\ TxInv'
    BY <1>2, <1>3, <1>4, <2>1, <2>3, <2>4 DEF RxInv, TxInv, Untouched, Based, SetTo, Off
  <2>6. registers.head <= registers.tail
    BY <1>2, <1>3, <1>4, <1>7, <2>1, <2>3 DEF RxInv, TxInv, Based, SetTo
  <2>7. QED
    BY <2>4, <2>5, <2>6
<1>12. CASE AtqBase
  <2> DEFINE registers == [ring["tx"] EXCEPT !.base = Iova(mem[1].addr)]
  <2>1. at = "atq_base" /\ at' = "atq_len" /\ Write("tx", registers)
    BY <1>12 DEF AtqBase, Registers, Goes
  <2>2. PlaceInv' /\ Allocated' = Allocated /\ (at' \in {"atq_tail", "wait_dd", "done"} => at = "atq_tail")
    BY <1>2, <1>4, <2>1 DEF PlaceInv, X710Places, Allocated
  <2>3. /\ registers \in QueueRegisters
        /\ registers.base = BaseOf("tx") /\ registers.head = ring["tx"].head
        /\ registers.tail = ring["tx"].tail /\ registers.state = ring["tx"].state
        /\ registers.len = ring["tx"].len
    BY <1>2, <1>3, <1>5 DEF QueueRegisters
  <2> HIDE DEF registers
  <2>4. /\ ring'["tx"] = registers /\ ring'["rx"] = ring["rx"]
        /\ RxInv' /\ TxInv' /\ registers.head <= registers.tail => IndInv'
    BY <1>3, <1>6, <2>1, <2>2, <2>3
  <2>5. RxInv' /\ TxInv'
    BY <1>2, <1>3, <1>4, <2>1, <2>3, <2>4 DEF RxInv, TxInv, Untouched, Based, SetTo, Off
  <2>6. registers.head <= registers.tail
    BY <1>2, <1>3, <1>4, <1>7, <2>1, <2>3 DEF RxInv, TxInv, Based, SetTo
  <2>7. QED
    BY <2>4, <2>5, <2>6
<1>13. CASE AtqLen
  <2> DEFINE registers == [ring["tx"] EXCEPT !.len = RingLen, !.state = "on"]
  <2>1. at = "atq_len" /\ at' = "arq_tail" /\ Write("tx", registers)
    BY <1>13 DEF AtqLen, Registers, Goes
  <2>2. PlaceInv' /\ Allocated' = Allocated /\ (at' \in {"atq_tail", "wait_dd", "done"} => at = "atq_tail")
    BY <1>2, <1>4, <2>1 DEF PlaceInv, X710Places, Allocated
  <2>3. /\ registers \in QueueRegisters
        /\ registers.base = ring["tx"].base /\ registers.head = ring["tx"].head
        /\ registers.tail = ring["tx"].tail /\ registers.state = "on"
        /\ registers.len = RingLen
    BY <1>2, <1>3, <1>5 DEF QueueRegisters
  <2> HIDE DEF registers
  <2>4. /\ ring'["tx"] = registers /\ ring'["rx"] = ring["rx"]
        /\ RxInv' /\ TxInv' /\ registers.head <= registers.tail => IndInv'
    BY <1>3, <1>6, <2>1, <2>2, <2>3
  <2>5. RxInv' /\ TxInv'
    BY <1>2, <1>3, <1>4, <2>1, <2>3, <2>4 DEF RxInv, TxInv, Untouched, Based, SetTo, Off
  <2>6. registers.head <= registers.tail
    BY <1>2, <1>3, <1>4, <1>7, <2>1, <2>3 DEF RxInv, TxInv, Based, SetTo
  <2>7. QED
    BY <2>4, <2>5, <2>6
<1>14. CASE ArqTail
  <2> DEFINE registers == [ring["rx"] EXCEPT !.tail = Posted]
  <2>1. at = "arq_tail" /\ at' = "space" /\ Write("rx", registers)
    BY <1>14 DEF ArqTail, Registers, Goes
  <2>2. PlaceInv' /\ Allocated' = Allocated /\ (at' \in {"atq_tail", "wait_dd", "done"} => at = "atq_tail")
    BY <1>2, <1>4, <2>1 DEF PlaceInv, X710Places, Allocated
  <2>3. /\ registers \in QueueRegisters
        /\ registers.base = ring["rx"].base /\ registers.head = ring["rx"].head
        /\ registers.tail = Posted /\ registers.state = ring["rx"].state
        /\ registers.len = ring["rx"].len
    BY <1>2, <1>3, <1>5 DEF QueueRegisters
  <2> HIDE DEF registers
  <2>4. /\ ring'["rx"] = registers /\ ring'["tx"] = ring["tx"]
        /\ RxInv' /\ TxInv' /\ registers.head <= registers.tail => IndInv'
    BY <1>3, <1>6, <2>1, <2>2, <2>3
  <2>5. RxInv' /\ TxInv'
    BY <1>2, <1>3, <1>4, <2>1, <2>3, <2>4 DEF RxInv, TxInv, Untouched, Based, SetTo, Off
  <2>6. registers.head <= registers.tail
    BY <1>2, <1>3, <1>4, <1>7, <2>1, <2>3 DEF RxInv, TxInv, Based, SetTo
  <2>7. QED
    BY <2>4, <2>5, <2>6
<1>15. CASE AtqTail
  <2> DEFINE registers == [ring["tx"] EXCEPT !.tail = 1]
  <2>1. at = "atq_tail" /\ at' = "wait_dd" /\ Write("tx", registers)
    <3>1. at = "atq_tail" /\ at' = "wait_dd"
          /\ Write("tx", [ring["tx"] EXCEPT !.tail = After(ring["tx"].tail)])
      BY <1>15 DEF AtqTail, Registers, Goes
    <3>2. ring["tx"].tail = 0
      BY <1>2, <1>4, <3>1 DEF TxInv, SetTo
    <3>3. 0 < RingLen - 1
      BY Numbers
    <3>4. After(0) = 1
      BY <1>3, <3>3, AfterValue
    <3>5. QED
      BY <3>1, <3>2, <3>4
  <2>2. PlaceInv' /\ Allocated' = Allocated /\ (at' \in {"atq_tail", "wait_dd", "done"} => at = "atq_tail")
    BY <1>2, <1>4, <2>1 DEF PlaceInv, X710Places, Allocated
  <2>3. /\ registers \in QueueRegisters
        /\ registers.base = ring["tx"].base /\ registers.head = ring["tx"].head
        /\ registers.tail = 1 /\ registers.state = ring["tx"].state
        /\ registers.len = ring["tx"].len
    BY <1>2, <1>3, <1>5 DEF QueueRegisters
  <2> HIDE DEF registers
  <2>4. /\ ring'["tx"] = registers /\ ring'["rx"] = ring["rx"]
        /\ RxInv' /\ TxInv' /\ registers.head <= registers.tail => IndInv'
    BY <1>3, <1>6, <2>1, <2>2, <2>3
  <2>5. RxInv' /\ TxInv'
    BY <1>2, <1>3, <1>4, <2>1, <2>3, <2>4 DEF RxInv, TxInv, Untouched, Based, SetTo, Off
  <2>6. registers.head <= registers.tail
    BY <1>2, <1>3, <1>4, <1>7, <2>1, <2>3 DEF RxInv, TxInv, Based, SetTo
  <2>7. QED
    BY <2>4, <2>5, <2>6
<1>16. QED
  BY <1>8, <1>9, <1>10, <1>11, <1>12, <1>13, <1>14, <1>15 DEF X710Writing

\* The command is written before its tail.
LEMMA CommandStep ==
  ASSUME IndInv, program = "x710", Command
  PROVE  IndInv'
<1>1. /\ alive /\ at = "command" /\ at' = "atq_tail"
      /\ UNCHANGED <<program, alive, i, due, polled, next, mem, ring, reset, lost, receive>>
  BY DEF Command, Goes, cardVars
<1>2. /\ NicTypeOK /\ PlaceInv /\ RxInv /\ TxInv /\ CardInv /\ PollInv /\ PollExact
      /\ MemInv /\ SizeInv /\ DescInv /\ "tx" \in Rings /\ 0 \in Slots
  BY <1>1, Numbers DEF IndInv, TypeOK
<1>3. PICK d \in Descriptors : d = [Empty EXCEPT !.ready = TRUE] /\ d.ready = TRUE /\ d.buf = -1
  <2>1. PICK e \in Descriptors : e = Empty /\ e.buf = -1
    <3>1. Empty \in Descriptors /\ Empty.buf = -1
      BY DEF Empty, Descriptors
    <3>2. QED
      BY <3>1, Zenon
  <2>2. /\ [e EXCEPT !.ready = TRUE] \in Descriptors
        /\ [e EXCEPT !.ready = TRUE].ready = TRUE /\ [e EXCEPT !.ready = TRUE].buf = -1
    BY <2>1 DEF Descriptors
  <2>3. QED
    BY <2>1, <2>2, Zenon
<1>4. desc' = [desc EXCEPT !["tx"][0] = d]
  <2>1. ring["tx"].tail = 0
    BY <1>1, <1>2, program = "x710" DEF TxInv, SetTo
  <2>2. QED
    BY <1>3, <2>1 DEF Command
<1>5. Written("tx", 0, d)
  BY <1>2, <1>3, <1>4, DescWritten
<1>6. /\ desc' \in [Rings -> [Slots -> Descriptors]]
      /\ desc'["tx"][0].ready /\ desc'["tx"][0].buf = -1 /\ desc'["rx"] = desc["rx"]
  BY <1>3, <1>5 DEF Written, Rings
<1>7. NicTypeOK'
  BY <1>1, <1>2, <1>6 DEF NicTypeOK, Descriptors
<1>8. PlaceInv' /\ Allocated' = Allocated
  BY <1>1, <1>2, program = "x710" DEF PlaceInv, X710Places, Allocated
<1>9. /\ \A r \in Rings : RingAt(r)' = RingAt(r) /\ BaseOf(r)' = BaseOf(r)
      /\ MemInv' /\ SizeInv'
  BY <1>1, <1>2, <1>8, MemKept
<1>10. DescInv'
  <2>1. /\ \A n : Iova(mem[n].addr)' = Iova(mem[n].addr)
        /\ BufferSize' = BufferSize
        /\ \A k \in Slots : BufferAt(k)' = BufferAt(k)
    BY <1>1 DEF Iova, IovaOffset, BufferSize, BufferAt
  <2>2. \A k \in Slots : BufferAt(k)' <= Len(mem') =>
          /\ desc'["rx"][k].ready
          /\ desc'["rx"][k].buf = Iova(mem[BufferAt(k)].addr)'
          /\ desc'["rx"][k].size = BufferSize' /\ mem'[BufferAt(k)'].size = BufferSize'
    BY <1>1, <1>2, <1>6, <2>1 DEF DescInv, Iova, IovaOffset
  <2>3. program' # "i10e" /\ desc'["tx"][0].ready /\ desc'["tx"][0].buf = -1
    BY <1>1, <1>6, program = "x710"
  <2>4. QED
    BY <2>2, <2>3 DEF DescInv
<1>11. RxInv' /\ TxInv' /\ CardInv' /\ PollInv' /\ PollExact'
  BY <1>1, <1>2, <1>9, program = "x710", Numbers
  DEF RxInv, TxInv, SetTo, CardInv, PollInv, PollExact
<1>12. QED
  BY <1>1, <1>7, <1>8, <1>9, <1>10, <1>11 DEF IndInv, TypeOK, PlaceInv, Places, X710Places

LEMMA X710Allocates ==
  ASSUME IndInv, program = "x710", AllocateQueues \/ AllocateRx \/ RxDescriptor
  PROVE  IndInv'
<1>1. /\ alive /\ UNCHANGED <<program, due, polled, ring, reset, lost, receive>>
      /\ at \in {"queues", "queue_rx", "buffers"} /\ at' \in {"queue_rx", "buffers"}
  BY DEF AllocateQueues, AllocateRx, RxDescriptor, Goes, cardVars
<1>2. /\ NicTypeOK /\ PlaceInv /\ RxInv /\ TxInv /\ CardInv
      /\ SizeInv /\ DescInv /\ desc \in [Rings -> [Slots -> Descriptors]] /\ i \in 0..RingLen
      /\ next \in Nat
  BY <1>1 DEF IndInv, TypeOK, NicTypeOK, Descriptors
<1>3. /\ RingLen \in Nat /\ RingLen >= 8 /\ DmaSize \in Nat
      /\ "rx" \in Rings /\ "tx" \in Rings /\ 0 \in Slots
      /\ 32 * RingLen \in Nat \ {0} /\ 128 \in Nat \ {0}
      /\ \A k \in Slots : k \in Nat /\ k < RingLen
  BY Numbers
<1>4. /\ RingAt("rx") = 2 /\ RingAt("tx") = 1 /\ RingAt("rx")' = 2 /\ RingAt("tx")' = 1
      /\ DescSize = 32 /\ DescSize' = 32
      /\ \A k \in Slots : BufferAt(k) = k + 3 /\ BufferAt(k)' = k + 3
      /\ BufferSize = 128 /\ BufferSize' = 128
  BY <1>1, program = "x710" DEF RingAt, DescSize, BufferAt, BufferSize
<1>5. ring["rx"] = Off /\ ring["tx"] = Off
  BY <1>1, <1>2, program = "x710" DEF RxInv, TxInv, Untouched
<1>6. PlaceInv' /\ RxInv' /\ TxInv' /\ CardInv' /\ PollInv' /\ PollExact'
  BY <1>1, <1>2, <1>5, program = "x710"
  DEF PlaceInv, X710Places, RxInv, TxInv, Untouched, CardInv, PollInv, PollExact
<1>7. ASSUME NicTypeOK', alive' => MemInv' /\ SizeInv' /\ DescInv'
      PROVE  IndInv'
  <2>1. TypeOK'
    BY <1>1, <1>7 DEF TypeOK, Places
  <2>2. program' = "x710"
    BY <1>1, program = "x710"
  <2>3. QED
    BY <1>6, <1>7, <2>1, <2>2 DEF IndInv
<1>8. ASSUME desc' = desc,
             \A k \in Slots : ~(BufferAt(k)' <= Len(mem'))
      PROVE  DescInv'
  BY <1>1, <1>2, <1>8, program = "x710" DEF DescInv
<1>9. CASE AllocateQueues
  <2>1. /\ at = "queues" /\ at' = "queue_rx" /\ Allocate(32 * RingLen, 64)
        /\ i' = i /\ desc' = desc
    BY <1>9 DEF AllocateQueues, Goes
  <2>2. Allocated = 0 /\ Allocated' = 1
    BY <1>1, <2>1, program = "x710" DEF Allocated
  <2>3. /\ next' \in Nat /\ mem' \in Seq([addr : Nat, size : Nat]) /\ alive' \in BOOLEAN
        /\ Len(mem') = 1 /\ mem'[1].size = 32 * RingLen
        /\ alive' => MemInv'
    <3>1. Allocated' = Allocated + 1
      BY <2>2
    <3>2. Grown(32 * RingLen, 64)
      BY <1>1, <1>3, <2>1, <3>1, Allocates
    <3>3. Len(mem) = 0
      BY <2>2, <3>2 DEF Grown
    <3>4. QED
      BY <3>2, <3>3 DEF Grown
  <2>4. NicTypeOK'
    <3>1. /\ next' \in Nat /\ mem' \in Seq([addr : Nat, size : Nat]) /\ alive' \in BOOLEAN
          /\ i' \in 0..RingLen /\ desc' = desc
      BY <1>2, <2>1, <2>3
    <3>2. QED
      BY <1>1, <1>2, <3>1 DEF NicTypeOK
  <2>5. SizeInv'
    BY <1>3, <1>4, <2>3 DEF SizeInv, Rings
  <2>6. DescInv'
    <3>1. Len(mem') = 1
      BY <2>3
    <3>2. \A k \in Slots : ~(BufferAt(k)' <= Len(mem'))
      BY <1>3, <1>4, <3>1
    <3>3. QED
      BY <1>8, <2>1, <3>2
  <2>7. QED
    BY <1>7, <2>3, <2>4, <2>5, <2>6
<1>10. CASE AllocateRx
  <2>1. /\ at = "queue_rx" /\ at' = "buffers" /\ Allocate(32 * RingLen, 64)
        /\ i' = 0 /\ desc' = desc
    BY <1>10 DEF AllocateRx, Goes
  <2>2. Allocated = 1 /\ Allocated' = 2
    BY <1>1, <2>1, program = "x710" DEF Allocated
  <2>3. /\ next' \in Nat /\ mem' \in Seq([addr : Nat, size : Nat]) /\ alive' \in BOOLEAN
        /\ Len(mem) = 1 /\ Len(mem') = 2 /\ mem'[2].size = 32 * RingLen
        /\ \A n \in 1..Len(mem) : mem'[n] = mem[n]
        /\ alive' => MemInv'
    <3>1. Allocated' = Allocated + 1
      BY <2>2
    <3>2. Grown(32 * RingLen, 64)
      BY <1>1, <1>3, <2>1, <3>1, Allocates
    <3>3. Len(mem) = 1
      BY <2>2, <3>2 DEF Grown
    <3>4. QED
      BY <3>2, <3>3 DEF Grown
  <2>4. NicTypeOK'
    <3>1. /\ next' \in Nat /\ mem' \in Seq([addr : Nat, size : Nat]) /\ alive' \in BOOLEAN
          /\ i' \in 0..RingLen /\ desc' = desc
      BY <1>2, <1>3, <2>1, <2>3
    <3>2. QED
      BY <1>1, <1>2, <3>1 DEF NicTypeOK
  <2>5. SizeInv'
    <3>1. mem'[1] = mem[1] /\ 1 <= Len(mem)
      BY <2>3
    <3>2. QED
      BY <1>2, <1>3, <1>4, <2>3, <3>1 DEF SizeInv, Rings
  <2>6. DescInv'
    <3>1. Len(mem') = 2
      BY <2>3
    <3>2. \A k \in Slots : ~(BufferAt(k)' <= Len(mem'))
      BY <1>3, <1>4, <3>1
    <3>3. QED
      BY <1>8, <2>1, <3>2
  <2>7. QED
    BY <1>7, <2>3, <2>4, <2>5, <2>6
<1>11. CASE RxDescriptor
  <2>1. /\ at = "buffers" /\ at' = "buffers" /\ i < RingLen
        /\ Allocate(128, 1) /\ i' = i + 1
        /\ Describes("rx", i, With(RoundUp(next, 1), 128))
    BY <1>11 DEF RxDescriptor, With, Describes
  <2>2. /\ Allocated = i + 2 /\ Allocated' = i + 3 /\ i \in Slots /\ i \in Nat
        /\ i + 1 \in 0..RingLen
    BY <1>1, <1>2, <1>3, <2>1, program = "x710" DEF Allocated, Slots
  <2>3. /\ next' \in Nat /\ mem' \in Seq([addr : Nat, size : Nat]) /\ alive' \in BOOLEAN
        /\ Len(mem) = i + 2 /\ Len(mem') = i + 3
        /\ \A n \in 1..Len(mem) : mem'[n] = mem[n]
        /\ mem'[i + 3] = [addr |-> RoundUp(next, 1), size |-> 128]
        /\ alive' => MemInv'
    <3>1. Allocated' = Allocated + 1
      BY <2>2
    <3>2. Grown(128, 1)
      BY <1>1, <1>3, <2>1, <3>1, Allocates
    <3>3. Len(mem) = i + 2 /\ i + 2 + 1 = i + 3
      BY <2>2, <3>2 DEF Grown
    <3>4. QED
      BY <3>2, <3>3 DEF Grown
  <2>4. RoundUp(next, 1) \in Nat
    BY <1>2, RoundUpBounds
  <2>5. /\ desc' \in [Rings -> [Slots -> Descriptors]]
        /\ desc'["rx"][i] = With(RoundUp(next, 1), 128)
        /\ \A l \in Slots \ {i} : desc'["rx"][l] = desc["rx"][l]
        /\ desc'["tx"] = desc["tx"]
    <3>1. 128 \in Nat
      OBVIOUS
    <3>2. Written("rx", i, With(RoundUp(next, 1), 128))
      BY <1>3, <2>1, <2>2, <2>4, <3>1, Prepares
    <3>3. QED
      BY <1>3, <3>2 DEF Written, Rings
  <2>6. NicTypeOK'
    <3>1. /\ next' \in Nat /\ mem' \in Seq([addr : Nat, size : Nat]) /\ alive' \in BOOLEAN
          /\ i' \in 0..RingLen /\ desc' \in [Rings -> [Slots -> Descriptors]]
      BY <2>1, <2>2, <2>3, <2>5
    <3>2. QED
      BY <1>1, <1>2, <3>1 DEF NicTypeOK, Descriptors
  <2>7. SizeInv'
    <3>1. 1 \in 1..Len(mem) /\ 2 \in 1..Len(mem) /\ 2 <= Len(mem) /\ 1 <= Len(mem)
      <4>1. Len(mem) = i + 2
        BY <2>3
      <4>2. QED
        BY <2>2, <4>1
    <3>2. mem'[1] = mem[1] /\ mem'[2] = mem[2]
      BY <2>3, <3>1
    <3>3. QED
      BY <1>2, <1>3, <1>4, <3>1, <3>2 DEF SizeInv, Rings
  <2>8. DescInv'
    <3>1. ASSUME NEW k \in Slots, BufferAt(k)' <= Len(mem')
          PROVE  /\ desc'["rx"][k].ready
                 /\ desc'["rx"][k].buf = Iova(mem[BufferAt(k)].addr)'
                 /\ desc'["rx"][k].size = BufferSize' /\ mem'[BufferAt(k)'].size = BufferSize'
      <4>1. CASE k = i
        <5>1. BufferAt(k)' = i + 3 /\ mem'[BufferAt(k)'].addr = RoundUp(next, 1)
              /\ mem'[BufferAt(k)'].size = 128
          BY <1>4, <2>3, <4>1
        <5>2. Iova(mem[BufferAt(k)].addr)' = Iova(RoundUp(next, 1))
          BY <1>1, <5>1 DEF Iova, IovaOffset
        <5>3. QED
          BY <1>4, <2>5, <4>1, <5>1, <5>2 DEF With
      <4>2. CASE k # i
        <5>1. BufferAt(k) <= Len(mem) /\ BufferAt(k)' = BufferAt(k)
          BY <1>3, <1>4, <2>2, <2>3, <3>1, <4>2
        <5>2. desc'["rx"][k] = desc["rx"][k]
          BY <2>5, <4>2
        <5>3. QED
          BY <1>1, <2>3, <5>1, <5>2, BufferKept, SMTT(30)
      <4>3. QED
        BY <4>1, <4>2
    <3>2. /\ program' # "i10e" /\ desc'["tx"][0].buf = -1
          /\ at' \notin {"atq_tail", "wait_dd", "done"}
      BY <1>1, <1>2, <2>1, <2>5, program = "x710" DEF DescInv
    <3>3. QED
      BY <3>1, <3>2 DEF DescInv
  <2>9. QED
    BY <1>7, <2>3, <2>6, <2>7, <2>8
<1>12. QED
  BY <1>9, <1>10, <1>11

-----------------------------------------------------------------------------
\* Every step.

LEMMA SetUpStep ==
  ASSUME IndInv,
         \/ program = "i10e" /\ (SetUp("reset") \/ SetUpFails)
         \/ program = "x710" /\ (SetUp("queues") \/ SetUpFails)
  PROVE  IndInv'
<1>1. alive /\ at = "vfio" /\ UNCHANGED <<program, i, due, polled, memVars, cardVars>>
  BY DEF SetUp, SetUpFails, Goes
<1>2. /\ NicTypeOK /\ PlaceInv /\ RxInv /\ TxInv /\ CardInv /\ PollInv /\ PollExact
      /\ UNCHANGED <<program, i, due, polled, next, mem, desc, ring, reset, lost, receive>>
  BY <1>1 DEF IndInv, TypeOK, memVars, cardVars
<1>3. CASE alive' = FALSE /\ at' = at
  <2>1. NicTypeOK'
    BY <1>2, <1>3 DEF NicTypeOK
  <2>2. QED
    BY <1>1, <1>2, <1>3, <2>1 DEF IndInv, TypeOK, PlaceInv, PollExact
<1>4. CASE alive' = alive /\ at' = IF program = "i10e" THEN "reset" ELSE "queues"
  <2>1. NicTypeOK'
    BY <1>2, <1>4 DEF NicTypeOK
  <2>2. PlaceInv' /\ Allocated' = Allocated
    BY <1>1, <1>2, <1>4 DEF NicTypeOK, PlaceInv, I10ePlaces, X710Places, Allocated
  <2>3. RxInv' /\ TxInv' /\ CardInv' /\ PollInv' /\ PollExact'
    BY <1>1, <1>2, <1>4 DEF NicTypeOK, RxInv, TxInv, Untouched, CardInv, PollInv, PollExact
  <2>4. QED
    BY <1>1, <1>2, <1>4, <2>1, <2>2, <2>3, Keeps DEF memVars
<1>5. QED
  BY <1>3, <1>4 DEF SetUp, SetUpFails, Goes

\* A step that writes nothing during a reset.
LEMMA NicsStep ==
  ASSUME IndInv, Next, program = "x710" /\ X710Writing => reset = 0
  PROVE  IndInv'
<1>1. program \in {"i10e", "x710"}
  BY DEF IndInv, TypeOK, NicTypeOK
<1>2. CASE I10eNext
  <2>1. program = "i10e" /\ (SetUp("reset") \/ SetUpFails \/ I10eStep)
    BY <1>2 DEF I10eNext
  <2>2. CASE SetUp("reset") \/ SetUpFails
    BY <2>1, <2>2, SetUpStep
  <2>3. CASE I10eStep
    <3>1. CASE ResetCard \/ ResetDone \/ RxEnable \/ TxEnabled \/ Sent \/ ReadHead \/ Poll
      BY <2>1, <3>1, I10eMoves
    <3>2. CASE I10eWriting
      BY <2>1, <3>2, I10eWrites
    <3>3. CASE RxRing \/ RxBuffer \/ TxRing \/ SendOne
      BY <2>1, <3>3, I10eAllocates
    <3>4. QED
      BY <2>3, <3>1, <3>2, <3>3 DEF I10eStep, I10eWriting
  <2>4. QED
    BY <2>1, <2>2, <2>3
<1>3. CASE X710Next
  <2>1. program = "x710" /\ (SetUp("queues") \/ SetUpFails \/ X710Step)
    BY <1>3 DEF X710Next
  <2>2. CASE SetUp("queues") \/ SetUpFails
    BY <2>1, <2>2, SetUpStep
  <2>3. CASE X710Step
    <3>1. CASE Trigger \/ ResetSeen \/ Space \/ Answer
      BY <2>1, <3>1, X710Moves
    <3>2. CASE X710Writing
      BY <2>1, <3>2, X710Writes
    <3>3. CASE AllocateQueues \/ AllocateRx \/ RxDescriptor
      BY <2>1, <3>3, X710Allocates
    <3>4. CASE Critical
      BY <2>1, <3>4, X710Ends
    <3>5. CASE Command
      BY <2>1, <3>5, CommandStep
    <3>6. QED
      BY <2>3, <3>1, <3>2, <3>3, <3>4, <3>5 DEF X710Step, X710Writing
  <2>4. QED
    BY <2>1, <2>2, <2>3
<1>4. CASE CardStep \/ \E r \in Rings : QueueFails(r)
  <2>1. CASE ~alive
    BY <1>4, <2>1, EndedStep
  <2>2. CASE alive
    <3>1. CASE ResetEnds \/ ResetGoesOn
      BY <2>2, <3>1, ResetStep
    <3>2. ASSUME NEW r \in Rings, QueueEnabled(r) PROVE IndInv'
      BY <2>2, <3>2, StateStep
    <3>3. ASSUME NEW r \in Rings, Take(r) PROVE IndInv'
      BY <2>2, <3>3, TakeStep
    <3>4. ASSUME NEW r \in Rings, QueueFails(r) PROVE IndInv'
      BY <2>2, <3>4, StateStep
    <3>5. QED
      BY <1>4, <3>1, <3>2, <3>3, <3>4, Numbers DEF CardStep, CardWork, Receives, Transmits
  <2>3. QED
    BY <2>1, <2>2
<1>5. QED
  BY <1>2, <1>3, <1>4 DEF Next

\* Where x710.c writes registers, whatever the card makes of them.
LEMMA WritesAt ==
  ASSUME X710Writing, NicTypeOK, program = "x710", Len(mem) = RingLen + 2
  PROVE  /\ at' \in SetPlaces /\ at \in SetPlaces \cup {"clear"}
         /\ NicTypeOK' /\ program' = program /\ mem' = mem
         /\ lost' = (lost \/ reset # 0)
<1>1. /\ UNCHANGED <<program, alive, i, due, polled, next, mem, desc, reset, receive>>
      /\ at' \in SetPlaces /\ at \in SetPlaces \cup {"clear"}
  BY DEF X710Writing, ClearRx, ClearTx, ArqBase, ArqLen, AtqBase, AtqLen, ArqTail, AtqTail,
         Registers, Write, Goes, SetPlaces, memVars
<1>2. /\ \A r \in Rings : ring[r] \in QueueRegisters
      /\ ring["tx"].tail \in Slots /\ "rx" \in Rings /\ "tx" \in Rings
  BY Numbers, RegisterTypes DEF QueueRegisters
<1>3. Iova(mem[1].addr) \in Int /\ Iova(mem[2].addr) \in Int
  <2>1. 1 \in 1..Len(mem) /\ 2 \in 1..Len(mem)
    BY Numbers
  <2>2. mem[1].addr \in Nat /\ mem[2].addr \in Nat
    BY <2>1, MemTypes
  <2>3. QED
    BY <2>2, Offset
<1>4. After(ring["tx"].tail) \in Slots /\ 0 \in Slots /\ Posted \in Slots
  BY <1>2, AfterValue, Numbers
<1>5. \E r \in Rings : \E registers \in QueueRegisters : Write(r, registers)
  <2>1. CASE ClearRx \/ ClearTx
    BY <1>2, <1>4, <2>1 DEF ClearRx, ClearTx, Registers, QueueRegisters
  <2>2. CASE ArqBase \/ AtqBase
    BY <1>2, <1>3, <2>2 DEF ArqBase, AtqBase, Registers, QueueRegisters
  <2>3. CASE ArqLen \/ AtqLen
    BY <1>2, <2>3 DEF ArqLen, AtqLen, Registers, QueueRegisters
  <2>4. CASE ArqTail \/ AtqTail
    BY <1>2, <1>4, <2>4 DEF ArqTail, AtqTail, Registers, QueueRegisters
  <2>5. QED
    BY <2>1, <2>2, <2>3, <2>4 DEF X710Writing
<1>6. /\ ring' \in [Rings -> QueueRegisters] /\ lost' \in BOOLEAN
      /\ lost' = (lost \/ reset # 0)
  BY <1>5, RingWritten
<1>7. NicTypeOK'
  BY <1>1, <1>6 DEF NicTypeOK, QueueRegisters
<1>8. QED
  BY <1>1, <1>6, <1>7

\* Once a register has been written in vain.
LEMMA LostStep ==
  ASSUME LostInv, Next
  PROVE  LostInv'
<1>1. /\ NicTypeOK /\ program = "x710" /\ lost /\ at \in SetPlaces /\ Len(mem) = RingLen + 2
  BY DEF LostInv
<1>2. CASE X710Next
  <2>1. CASE X710Writing
    BY <1>1, <2>1, WritesAt DEF LostInv
  <2>2. CASE Space \/ Answer \/ Critical
    <3>1. /\ UNCHANGED <<program, i, due, polled, next, mem, desc, ring, reset, lost, receive>>
          /\ alive' \in BOOLEAN /\ at' \in SetPlaces
      BY <1>1, <2>2 DEF NicTypeOK, Space, Answer, Critical, Goes, SetPlaces, memVars, cardVars
    <3>2. QED
      BY <1>1, <3>1 DEF LostInv, NicTypeOK
  <2>3. CASE Command
    <3>1. /\ UNCHANGED <<program, alive, i, due, polled, next, mem, ring, reset, lost, receive>>
          /\ at' \in SetPlaces
          /\ \/ desc' = [desc EXCEPT !["tx"][0] = [Empty EXCEPT !.ready = TRUE]]
             \/ desc' = desc
      BY <2>3 DEF Command, Goes, SetPlaces, cardVars
    <3>2. desc' \in [Rings -> [Slots -> Descriptors]]
      <4>1. desc \in [Rings -> [Slots -> Descriptors]] /\ "tx" \in Rings /\ 0 \in Slots
        BY <1>1, Numbers DEF NicTypeOK, Descriptors
      <4>2. [Empty EXCEPT !.ready = TRUE] \in Descriptors
        <5>1. PICK e \in Descriptors : e = Empty
          <6>1. Empty \in Descriptors
            BY DEF Empty, Descriptors
          <6>2. QED
            BY <6>1, Zenon
        <5>2. [e EXCEPT !.ready = TRUE] \in Descriptors
          BY DEF Descriptors
        <5>3. QED
          BY <5>1, <5>2, Zenon
      <4>3. QED
        BY <1>1, <3>1, <4>1, <4>2, DescWritten DEF Written
    <3>3. QED
      BY <1>1, <3>1, <3>2 DEF LostInv, NicTypeOK, Descriptors
  <2>4. ~(SetUp("queues") \/ SetUpFails \/ AllocateQueues \/ AllocateRx \/ RxDescriptor \/ Trigger
          \/ ResetSeen)
    BY <1>1
    DEF SetPlaces, SetUp, SetUpFails, AllocateQueues, AllocateRx, RxDescriptor, Trigger, ResetSeen,
        Goes
  <2>5. QED
    BY <1>2, <2>1, <2>2, <2>3, <2>4 DEF X710Next, X710Step, X710Writing
<1>3. CASE CardStep \/ \E r \in Rings : QueueFails(r)
  <2>1. /\ NicTypeOK'
        /\ UNCHANGED <<program, alive, at, i, due, polled, next, mem, lost, receive>>
    BY <1>1, <1>3, CardTypes
  <2>2. QED
    BY <1>1, <2>1 DEF LostInv
<1>4. ~I10eNext
  BY <1>1 DEF I10eNext
<1>5. QED
  BY <1>2, <1>3, <1>4 DEF Next

\* Nothing but a write during the reset is lost.
LEMMA LosesOnly ==
  ASSUME IndInv, Next, ~lost,
         program = "x710" /\ X710Writing => reset = 0
  PROVE  ~lost'
<1>1. NicTypeOK /\ program \in {"i10e", "x710"}
  BY DEF IndInv, TypeOK, NicTypeOK
<1>2. CASE CardStep \/ \E r \in Rings : QueueFails(r)
  BY <1>1, <1>2, CardTypes
<1>3. CASE I10eNext
  <2>1. CASE I10eWriting
    <3>1. reset = 0
      BY <1>3, <2>1, I10eWrites DEF I10eNext
    <3>2. PICK r \in Rings : \E registers : Write(r, registers)
      BY <2>1, I10eWritesAt
    <3>3. QED
      BY <3>1, <3>2 DEF Write
  <2>2. CASE ~I10eWriting
    BY <1>3, <2>2
    DEF I10eNext, I10eStep, I10eWriting, SetUp, SetUpFails, ResetCard, ResetDone, RxRing, RxBuffer,
        RxEnable, TxRing, TxEnabled, SendOne, Sent, ReadHead, Poll, cardVars
  <2>3. QED
    BY <2>1, <2>2
<1>4. CASE X710Next
  <2>1. CASE X710Writing
    BY <1>4, <2>1
    DEF X710Next, X710Writing, ClearRx, ClearTx, ArqBase, ArqLen, AtqBase, AtqLen, ArqTail,
        AtqTail, Registers, Write
  <2>2. CASE ~X710Writing
    BY <1>4, <2>2
    DEF X710Next, X710Step, X710Writing, SetUp, SetUpFails, AllocateQueues, AllocateRx,
        RxDescriptor, Trigger, ResetSeen, Space, Command, Answer, Critical, cardVars
  <2>3. QED
    BY <2>1, <2>2
<1>5. QED
  BY <1>2, <1>3, <1>4 DEF Next

\* The first write that is lost.
LEMMA FirstLost ==
  ASSUME IndInv, ~lost, program = "x710", X710Writing, reset # 0
  PROVE  LostInv'
<1>1. alive /\ at # "vfio" /\ at \in SetPlaces \cup {"clear"}
  BY DEF X710Writing, ClearRx, ClearTx, ArqBase, ArqLen, AtqBase, AtqLen, ArqTail, AtqTail,
         Registers, Goes, SetPlaces
<1>2. NicTypeOK /\ Len(mem) = RingLen + 2
  BY <1>1 DEF IndInv, TypeOK, MemInv, Allocated, SetPlaces
<1>3. QED
  BY <1>2, WritesAt DEF LostInv

LEMMA NicInvStep ==
  ASSUME NicInv, [Next]_vars
  PROVE  NicInv'
<1>1. CASE UNCHANGED vars
  <2>1. UNCHANGED <<program, alive, at, i, due, polled, next, mem, desc, ring, reset, lost, receive>>
    BY <1>1 DEF vars, driverVars, memVars, cardVars
  <2>2. IndInv => IndInv'
    <3>1. TypeOK => TypeOK'
      BY <2>1 DEF TypeOK, NicTypeOK
    <3>2. PlaceInv => PlaceInv'
      BY <2>1 DEF PlaceInv
    <3>3. MemInv => MemInv'
      BY <2>1 DEF MemInv, Stacked, Allocated
    <3>4. SizeInv => SizeInv'
      BY <2>1 DEF SizeInv, RingAt, DescSize
    <3>5. DescInv => DescInv'
      BY <2>1 DEF DescInv, BufferAt, FrameAt, BufferSize, Iova, IovaOffset, Slots
    <3>6. \A r \in Rings : BaseOf(r)' = BaseOf(r)
      BY <2>1 DEF Rings, BaseOf, RingAt, Iova, IovaOffset
    <3>7. (RxInv => RxInv') /\ (TxInv => TxInv')
      BY <2>1, <3>6 DEF RxInv, TxInv, Untouched, Based, SetTo, Rings
    <3>8. (CardInv => CardInv') /\ (PollInv => PollInv')
      BY <2>1 DEF CardInv, PollInv
    <3>9. PollExact => PollExact'
      BY <2>1 DEF PollExact
    <3>10. QED
      BY <2>1, <3>1, <3>2, <3>3, <3>4, <3>5, <3>6, <3>7, <3>8, <3>9 DEF IndInv
  <2>3. LostInv => LostInv'
    BY <2>1 DEF LostInv, NicTypeOK
  <2>4. QED
    BY <2>1, <2>2, <2>3 DEF NicInv
<1>2. CASE Next
  <2>1. CASE lost
    <3>1. LostInv'
      BY <1>2, <2>1, LostStep DEF NicInv
    <3>2. QED
      BY <3>1 DEF NicInv, LostInv
  <2>2. CASE ~lost /\ program = "x710" /\ X710Writing /\ reset # 0
    <3>1. LostInv'
      BY <2>2, FirstLost DEF NicInv
    <3>2. QED
      BY <3>1 DEF NicInv, LostInv
  <2>3. CASE ~lost /\ ~(program = "x710" /\ X710Writing /\ reset # 0)
    <3>1. IndInv' /\ ~lost'
      BY <1>2, <2>3, NicsStep, LosesOnly DEF NicInv
    <3>2. QED
      BY <3>1 DEF NicInv
  <2>4. QED
    BY <2>1, <2>2, <2>3
<1>3. QED
  BY <1>1, <1>2

LEMMA NicAlways == Spec => []NicInv
<1>1. Init => NicInv
  BY NicsInit DEF NicInv, Init, I10eInit, X710Init, NicInit
<1>2. NicInv /\ [Next]_vars => NicInv'
  BY NicInvStep
<1>3. QED
  BY <1>1, <1>2, PTL DEF Spec

-----------------------------------------------------------------------------
\* The theorems.

\* The cards reach only memory that was allocated for what they do there, unless
\* x710.c has written registers during a reset, which i10e.c never does: see
\* DmaInv.
THEOREM OnlyItsMemory == Spec => []DmaInv
<1>1. NicInv => DmaInv
  <2>1. LostInv => DmaInv
    <3>1. SetPlaces \subseteq Places
      BY DEF SetPlaces, Places
    <3>2. LostInv => NicTypeOK /\ program = "x710" /\ lost /\ at \in SetPlaces
      BY DEF LostInv
    <3>3. program = "x710" => program # "i10e"
      OBVIOUS
    <3>4. QED
      BY <3>1, <3>2, <3>3, Zenon DEF DmaInv, TypeOK
  <2>2. IndInv /\ ~lost => DmaInv
    <3>1. IndInv => TypeOK
      BY DEF IndInv
    <3>2. QED
      BY Safe, <3>1, Zenon DEF DmaInv
  <2>3. QED
    BY <2>1, <2>2 DEF NicInv
<1>2. QED
  BY <1>1, NicAlways, PTL

\* i10e.c waits until its card is reset (226-259): its rings and buffers are
\* its own without exception.
THEOREM I10eOnlyItsMemory == Spec => [](program = "i10e" => DmaSafe)
<1>1. DmaInv => (program = "i10e" => DmaSafe)
  BY DEF DmaInv
<1>2. QED
  BY <1>1, OnlyItsMemory, PTL

\* The poll of i10e.c looks at exactly what had arrived: see PollExact.
THEOREM PollsWhatArrived == Spec => []PollExact
<1>1. NicInv => PollExact
  <2>1. IndInv => PollExact
    BY DEF IndInv
  <2>2. LostInv => PollExact
    BY DEF LostInv, PollExact
  <2>3. QED
    BY <2>1, <2>2 DEF NicInv
<1>2. QED
  BY <1>1, NicAlways, PTL
=============================================================================
