-------------------------------- MODULE I10e --------------------------------
(***************************************************************************)
(* i10e.c: the program resets an 82599 card, gives it a receive and a      *)
(* transmit ring, sends one frame, waits until it is sent, and looks once  *)
(* at what was received.                                                   *)
(***************************************************************************)
EXTENDS NicRings

I10eInit == NicInit /\ program = "i10e"

\* CTRL: LRST and DEV_RST.
ResetCard ==
  /\ Goes("reset", "wait_reset")
  /\ reset' \in ResetValues
  /\ UNCHANGED <<program, alive, i, due, polled, memVars, ring, lost, receive>>

\* A slip: the program only sleeps, and does not look at DEV_RST.
ResetSlept ==
  /\ Goes("wait_reset", "rx_ring")
  /\ UNCHANGED <<program, alive, i, due, polled, memVars, cardVars>>

\* The waits for DEV_RST, EEC, and DMAIDONE in turn.
ResetDone ==
  /\ Goes("wait_reset", "rx_ring")
  /\ reset = 0
  /\ UNCHANGED <<program, alive, i, due, polled, memVars, cardVars>>

RxRing ==
  /\ Goes("rx_ring", "rx_buffers")
  /\ Allocate(16 * RingLen, 128)
  /\ i' = 0
  /\ UNCHANGED <<program, due, polled, desc, cardVars>>

\* One turn of the loop over the descriptors, each with a buffer of 2 KB.
RxBuffer ==
  /\ at = "rx_buffers" /\ alive
  /\ i < RingLen
  /\ Allocate(2048, 128)
  /\ desc' = [desc EXCEPT !["rx"][i] =
                [buf |-> Iova(RoundUp(next, 128)), size |-> 2048, ready |-> TRUE, full |-> FALSE]]
  /\ i' = i + 1
  /\ UNCHANGED <<program, at, due, polled, cardVars>>

\* Base, head, tail and length of a ring, and then the queue is asked to
\* start: RDBAL to RXDCTL, TDBAL to TXDCTL, a register in each step.
SetUpQueue(r, places, a) ==
  \/ Registers(places[1], places[2], r, [ring[r] EXCEPT !.base = Iova(a)])
  \/ Registers(places[2], places[3], r, [ring[r] EXCEPT !.head = 0])
  \/ Registers(places[3], places[4], r, [ring[r] EXCEPT !.tail = 0])
  \/ Registers(places[4], places[5], r, [ring[r] EXCEPT !.len = RingLen])
  \/ Registers(places[5], places[6], r, [ring[r] EXCEPT !.state = "asked"])

\* The receive ring is the first allocation.
RxQueue ==
  /\ i = RingLen
  /\ SetUpQueue("rx", <<"rx_buffers", "rx_head", "rx_clear", "rx_len", "rx_on", "rx_wait">>,
                mem[1].addr)

\* A slip: one descriptor fewer is handed over.
RxTailShort ==
  /\ ring["rx"].state = "on"
  /\ Registers("rx_wait", "rx_enable", "rx", [ring["rx"] EXCEPT !.tail = RingLen - 2])

RxTail ==
  /\ ring["rx"].state = "on"
  /\ Registers("rx_wait", "rx_enable", "rx", [ring["rx"] EXCEPT !.tail = RingLen - 1])

RxEnable ==
  /\ Goes("rx_enable", "tx_ring")
  /\ receive' = TRUE
  /\ UNCHANGED <<program, alive, i, due, polled, memVars, ring, reset, lost>>

TxRing ==
  /\ Goes("tx_ring", "tx_queue")
  /\ Allocate(16 * RingLen, 128)
  /\ UNCHANGED <<program, i, due, polled, desc, cardVars>>

TxQueue ==
  SetUpQueue("tx", <<"tx_queue", "tx_head", "tx_clear", "tx_len", "tx_on", "tx_wait">>,
             mem[Len(mem)].addr)

TxEnabled ==
  /\ Goes("tx_wait", "send")
  /\ ring["tx"].state = "on"
  /\ UNCHANGED <<program, alive, i, due, polled, memVars, cardVars>>

\* send_one: the descriptor is complete before the tail moves.
SendOne ==
  /\ Goes("send", "send_tail")
  /\ Allocate(128, 128)
  /\ desc' = [desc EXCEPT !["tx"][0] =
                [buf |-> Iova(RoundUp(next, 128)), size |-> 64, ready |-> TRUE, full |-> FALSE]]
  /\ UNCHANGED <<program, i, due, polled, cardVars>>

SendTail == Registers("send_tail", "wait_dd", "tx", [ring["tx"] EXCEPT !.tail = 1])

Sent ==
  /\ Goes("wait_dd", "poll_head")
  /\ desc["tx"][0].full
  /\ UNCHANGED <<program, alive, i, due, polled, memVars, cardVars>>

\* rq_poll_once: i is first_unreceived between the two reads of registers,
\* so that what arrives after the first is not looked at.
ReadHead ==
  /\ Goes("poll_head", "poll_tail")
  /\ i' = ring["rx"].head
  /\ due' = {k \in Slots : desc["rx"][k].full}
  /\ UNCHANGED <<program, alive, polled, memVars, cardVars>>

\* The loop from first_prepared up to first_unreceived looks at descriptors
\* only, which the card does not take back: one step.
PollFrom(prepared) == IF prepared < i THEN prepared..(i - 1) ELSE {}

Poll ==
  /\ Goes("poll_tail", "done")
  /\ polled' = PollFrom(After(ring["rx"].tail))
  /\ UNCHANGED <<program, alive, i, due, memVars, cardVars>>

I10eStep ==
  \/ ResetCard \/ ResetDone \/ RxRing \/ RxBuffer \/ RxQueue \/ RxTail \/ RxEnable
  \/ TxRing \/ TxQueue \/ TxEnabled \/ SendOne \/ SendTail \/ Sent \/ ReadHead \/ Poll

I10eNext == program = "i10e" /\ (SetUp("reset") \/ SetUpFails \/ I10eStep)

-----------------------------------------------------------------------------
\* Properties.

\* The poll looks at exactly the descriptors the card had filled when it read
\* RDH: the tail that init_i10e wrote makes them start at 0, and the card
\* stops before the head can wrap (309, 371-375).
PollExact == program = "i10e" /\ at = "done" => polled = due
=============================================================================
