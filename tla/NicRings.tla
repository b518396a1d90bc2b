------------------------------ MODULE NicRings ------------------------------
(***************************************************************************)
(* What the two user-space drivers have in common: the DMA region with its *)
(* allocator (the same code in i10e.c and x710.c), the VFIO set-up, and a  *)
(* card that works on descriptor rings in that region.  A ring is a        *)
(* circular array; the card owns the descriptors from head up to tail, and *)
(* hands each back by moving head.  Addresses are relative to the region.  *)
(***************************************************************************)
EXTENDS Integers, Sequences, FiniteSets

CONSTANTS
  RingLen,      \* RQ_LEN, TQ_LEN, ADMINQ_SIZE: 128
  DmaSize,      \* 64 MB
  ResetValues   \* what the two bits of GLGEN_RSTAT show during a reset

ASSUME NicAssumption ==
  /\ RingLen \in Nat \ {0} /\ RingLen % 8 = 0  \* i10e.c exits otherwise
  /\ DmaSize \in Nat
  /\ ResetValues \subseteq 1..3 /\ ResetValues # {}

VARIABLES
  program,  \* which of the two programs runs
  alive,    \* it has not called exit(-1)
  at,       \* where it is
  i,        \* the counter of its loops
  next,     \* dma_next_free_addr
  mem,      \* the allocations made so far
  desc,     \* the descriptors of both rings
  ring,     \* the registers of both rings
  reset,    \* 0, or what the card shows while it resets
  lost,     \* a register has been written while it did
  receive,  \* the card takes what arrives
  due,      \* descriptors that were full when the poll began
  polled    \* descriptors the poll has looked at

driverVars == <<program, alive, at, i, due, polled>>
memVars == <<next, mem, desc>>
cardVars == <<ring, reset, lost, receive>>
vars == <<driverVars, memVars, cardVars>>

Rings == {"rx", "tx"}
Slots == 0..(RingLen - 1)
Off == [base |-> -1, len |-> 0, head |-> 0, tail |-> 0, state |-> "off"]

\* full: the card has stored what arrived, or set the DD bit.
Empty == [buf |-> -1, size |-> 0, ready |-> FALSE, full |-> FALSE]

NicTypeOK ==
  /\ program \in {"i10e", "x710"}
  /\ alive \in BOOLEAN
  /\ i \in 0..RingLen
  /\ next \in Nat
  /\ mem \in Seq([addr : Nat, size : Nat])
  /\ desc \in [Rings -> [Slots -> [buf : Int, size : Nat, ready : BOOLEAN, full : BOOLEAN]]]
  /\ ring \in [Rings -> [base : Int, len : {0, RingLen}, head : Slots, tail : Slots,
                         state : {"off", "asked", "on", "failed"}]]
  /\ reset \in {0} \cup ResetValues
  /\ lost \in BOOLEAN /\ receive \in BOOLEAN
  /\ due \in SUBSET Slots /\ polled \in SUBSET Slots

NicInit ==
  /\ alive = TRUE
  /\ at = "vfio" /\ i = 0
  /\ next = 0 /\ mem = <<>>
  /\ desc = [r \in Rings |-> [k \in Slots |-> Empty]]
  /\ ring = [r \in Rings |-> Off]
  /\ reset = 0 /\ lost = FALSE /\ receive = FALSE
  /\ due = {} /\ polled = {}

-----------------------------------------------------------------------------
\* The program.

Goes(from, to) ==
  /\ alive /\ at = from
  /\ at' = to

\* The next multiple of unit.
RoundUp(a, unit) == ((a + (unit - 1)) \div unit) * unit

\* dma_alloc_aligned, which exits when the region is used up.
Allocate(size, unit) ==
  /\ next' = RoundUp(next, unit) + size
  /\ mem' = Append(mem, [addr |-> RoundUp(next, unit), size |-> size])
  /\ alive' = (RoundUp(next, unit) + size <= DmaSize)

\* vaddr_to_iovaddr: x710.c keeps clear of address 0.
IovaOffset == IF program = "x710" THEN 1048576 ELSE 0
Iova(a) == a + IovaOffset

\* VFIO set-up, and a walk over the capabilities of the IOMMU that adds an
\* offset in bytes to a pointer to larger elements: it reads beyond the
\* allocation and may end, go on for ever, or end the process.
SetUp(to) ==
  /\ Goes("vfio", to)
  /\ UNCHANGED <<program, alive, i, due, polled, memVars, cardVars>>

SetUpFails ==
  /\ alive /\ at = "vfio"
  /\ alive' = FALSE
  /\ UNCHANGED <<program, at, i, due, polled, memVars, cardVars>>

\* Registers written while the card resets keep nothing.
Write(r, registers) ==
  /\ ring' = IF reset = 0 THEN [ring EXCEPT ![r] = registers] ELSE ring
  /\ lost' = (lost \/ reset # 0)
  /\ UNCHANGED <<reset, receive>>

\* A step of the program that writes registers of one ring.
Registers(from, to, r, registers) ==
  /\ Goes(from, to)
  /\ Write(r, registers)
  /\ UNCHANGED <<program, alive, i, due, polled, memVars>>

-----------------------------------------------------------------------------
\* The card.

After(k) == (k + 1) % RingLen

\* A reset ends with all registers cleared.
ResetEnds ==
  /\ reset # 0
  /\ reset' = 0
  /\ ring' = [r \in Rings |-> Off]
  /\ UNCHANGED <<driverVars, memVars, lost, receive>>

\* ... and may show another value before.
ResetGoesOn ==
  /\ reset # 0
  /\ reset' \in ResetValues \ {reset}
  /\ UNCHANGED <<driverVars, memVars, ring, lost, receive>>

QueueEnabled(r) ==
  /\ ring[r].state = "asked"
  /\ ring' = [ring EXCEPT ![r].state = "on"]
  /\ UNCHANGED <<driverVars, memVars, reset, lost, receive>>

\* The card takes the descriptor at head: it sends the frame, carries out the
\* command, or stores what has arrived.
Take(r) ==
  LET k == ring[r].head IN
  /\ reset = 0
  /\ ring[r].state = "on" /\ k # ring[r].tail
  /\ desc' = [desc EXCEPT ![r][k].full = TRUE]
  /\ ring' = [ring EXCEPT ![r].head = After(k)]
  /\ UNCHANGED <<driverVars, next, mem, reset, lost, receive>>

Receives == receive /\ Take("rx")

Transmits == Take("tx")

CardWork == ResetEnds \/ (\E r \in Rings : QueueEnabled(r)) \/ Transmits

CardStep == CardWork \/ ResetGoesOn \/ Receives

-----------------------------------------------------------------------------
\* Properties.

DescSize == IF program = "x710" THEN 32 ELSE 16

\* What the card owns, and what it writes to or reads from there.
Owned(r) ==
  IF ring[r].state # "on" THEN {}
  ELSE {k \in Slots : (k - ring[r].head) % RingLen
                         < (ring[r].tail - ring[r].head) % RingLen}

Backed(iova, size) ==
  \E n \in 1..Len(mem) : iova = Iova(mem[n].addr) /\ size <= mem[n].size

Apart(a, b) == a.addr + a.size <= b.addr \/ b.addr + b.size <= a.addr

\* The card reaches only memory that was allocated for what it does there:
\* allocations lie in the mapped region and do not overlap (36-44); a ring
\* that is on has room for all its descriptors and shares it with nobody
\* (286-303, 317-325), and a descriptor the card owns was prepared, with a
\* buffer of its own (289-293, 345-353).
DmaSafe ==
  alive =>
    /\ \A m, n \in 1..Len(mem) : m # n => Apart(mem[m], mem[n])
    /\ \A n \in 1..Len(mem) : mem[n].addr + mem[n].size <= DmaSize
    /\ \A r \in Rings : ring[r].state = "on" =>
         /\ ring[r].len = RingLen /\ Backed(ring[r].base, RingLen * DescSize)
         /\ \A q \in Rings \ {r} : ring[q].state = "on" => ring[q].base # ring[r].base
         /\ \A k \in Owned(r) :
              /\ desc[r][k].ready
              /\ desc[r][k].buf >= 0 =>
                   /\ Backed(desc[r][k].buf, desc[r][k].size)
                   /\ \A q \in Rings : desc[r][k].buf # ring[q].base
                   /\ \A l \in Owned(r) : desc[r][k].buf = desc[r][l].buf => k = l
=============================================================================
