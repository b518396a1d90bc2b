-------------------------------- MODULE X710 --------------------------------
(***************************************************************************)
(* x710.c: the program sets up the two admin queues of an X710 card around *)
(* a core reset, and asks for the firmware version with one command.  The  *)
(* receive queue is "rx" (ARQ), the transmit queue "tx" (ATQ).             *)
(***************************************************************************)
EXTENDS NicRings

CONSTANT Posted  \* receive descriptors handed over: 16

ASSUME PostedAssumption == Posted \in Slots

X710Init == NicInit /\ program = "x710"

AllocateQueues ==
  /\ Goes("queues", "queue_rx")
  /\ Allocate(32 * RingLen, 64)
  /\ UNCHANGED <<program, i, due, polled, desc, cardVars>>

AllocateRx ==
  /\ Goes("queue_rx", "buffers")
  /\ Allocate(32 * RingLen, 64)
  /\ i' = 0
  /\ UNCHANGED <<program, due, polled, desc, cardVars>>

\* One turn of the loop over the receive descriptors.
RxDescriptor ==
  /\ at = "buffers" /\ alive
  /\ i < RingLen
  /\ Allocate(128, 1)
  /\ desc' = [desc EXCEPT !["rx"][i] =
                [buf |-> Iova(RoundUp(next, 1)), size |-> 128, ready |-> TRUE, full |-> FALSE]]
  /\ i' = i + 1
  /\ UNCHANGED <<program, at, due, polled, cardVars>>

\* CORER.
Trigger ==
  /\ Goes("buffers", "corer")
  /\ i = RingLen
  /\ reset' \in ResetValues
  /\ receive' = TRUE
  /\ UNCHANGED <<program, alive, i, due, polled, memVars, ring, lost>>

\* x & 0b11 != 0 is x & (0b11 != 0), so only the lower bit is looked at: a
\* card that shows 2 is taken to be done.
ResetSeen ==
  /\ Goes("corer", "clear")
  /\ reset % 2 = 0
  /\ UNCHANGED <<program, alive, i, due, polled, memVars, cardVars>>

\* Heads and tails, then base and length of each queue, from here to ArqTail;
\* the length enables it.  A slip: both queues get the memory of one.
ArqBaseOther == Registers("arq_base", "arq_len", "rx", [ring["rx"] EXCEPT !.base = Iova(mem[1].addr)])

ClearRx == Registers("clear", "clear_tx", "rx", [ring["rx"] EXCEPT !.head = 0, !.tail = 0])
ClearTx == Registers("clear_tx", "arq_base", "tx", [ring["tx"] EXCEPT !.head = 0, !.tail = 0])
ArqBase == Registers("arq_base", "arq_len", "rx", [ring["rx"] EXCEPT !.base = Iova(mem[2].addr)])
ArqLen ==
  Registers("arq_len", "atq_base", "rx", [ring["rx"] EXCEPT !.len = RingLen, !.state = "on"])
AtqBase == Registers("atq_base", "atq_len", "tx", [ring["tx"] EXCEPT !.base = Iova(mem[1].addr)])
AtqLen ==
  Registers("atq_len", "arq_tail", "tx", [ring["tx"] EXCEPT !.len = RingLen, !.state = "on"])
ArqTail == Registers("arq_tail", "space", "rx", [ring["rx"] EXCEPT !.tail = Posted])

\* adminq_get_ver waits for space, and writes its command where the queue
\* begins plus the tail in bytes: a descriptor of the queue only for tail 0.
Space ==
  /\ Goes("space", "command")
  /\ After(ring["tx"].tail) # ring["tx"].head
  /\ UNCHANGED <<program, alive, i, due, polled, memVars, cardVars>>

Command ==
  /\ Goes("command", "atq_tail")
  /\ desc' = IF ring["tx"].tail = 0
               THEN [desc EXCEPT !["tx"][0] = [Empty EXCEPT !.ready = TRUE]]
               ELSE desc
  /\ UNCHANGED <<program, alive, i, due, polled, next, mem, cardVars>>

AtqTail == Registers("atq_tail", "wait_dd", "tx", [ring["tx"] EXCEPT !.tail = After(@)])

Answer ==
  /\ Goes("wait_dd", "done")
  /\ desc["tx"][0].full
  /\ UNCHANGED <<program, alive, i, due, polled, memVars, cardVars>>

\* Beside dd the loop looks at ARQLEN: disabled, with a critical error.
Critical ==
  /\ alive /\ at = "wait_dd"
  /\ ~desc["tx"][0].full
  /\ ring["rx"].state = "failed"
  /\ alive' = FALSE
  /\ UNCHANGED <<program, at, i, due, polled, memVars, cardVars>>

\* The card gives up one of its queues.
QueueFails(r) ==
  /\ program = "x710" /\ ring[r].state = "on"
  /\ ring' = [ring EXCEPT ![r].state = "failed"]
  /\ UNCHANGED <<driverVars, memVars, reset, lost, receive>>

X710Step ==
  \/ AllocateQueues \/ AllocateRx \/ RxDescriptor \/ Trigger \/ ResetSeen \/ ClearRx \/ ClearTx
  \/ ArqBase \/ ArqLen \/ AtqBase \/ AtqLen \/ ArqTail \/ Space \/ Command \/ AtqTail
  \/ Answer \/ Critical

X710Next == program = "x710" /\ (SetUp("queues") \/ SetUpFails \/ X710Step)

-----------------------------------------------------------------------------
\* Properties.

\* "Set base and length registers for each queue. Set length.enable to 1."
\* (271): once that is done each queue has been enabled with its memory.
QueuesSet ==
  alive /\ program = "x710" /\ at \in {"arq_tail", "space", "command", "atq_tail", "wait_dd"} =>
    \A r \in Rings : ring[r].state # "off" /\ Backed(ring[r].base, ring[r].len * DescSize)
=============================================================================
