-------------------------------- MODULE Nics --------------------------------
(***************************************************************************)
(* The two drivers: one of them runs, with its card.                       *)
(***************************************************************************)
EXTENDS I10e, X710

Places ==
  {"vfio", "reset", "wait_reset", "rx_ring", "rx_buffers", "rx_head", "rx_clear", "rx_len",
   "rx_on", "rx_wait", "rx_enable", "tx_ring", "tx_queue", "tx_head", "tx_clear", "tx_len",
   "tx_on", "tx_wait", "send", "send_tail", "wait_dd", "poll_head", "poll_tail", "done"}
  \cup
  {"queues", "queue_rx", "buffers", "corer", "clear", "clear_tx", "arq_base", "arq_len",
   "atq_base", "atq_len", "arq_tail", "space", "command", "atq_tail"}

TypeOK == NicTypeOK /\ at \in Places

Init == I10eInit \/ X710Init

Next == I10eNext \/ X710Next \/ CardStep \/ \E r \in Rings : QueueFails(r)

Spec == Init /\ [][Next]_vars

\* The program runs, and the card resets, starts its queues and sends; nothing
\* need ever arrive, and the VFIO set-up need not end.
Fairness == WF_vars(I10eStep) /\ WF_vars(X710Step) /\ WF_vars(CardWork)

FairSpec == Spec /\ Fairness

-----------------------------------------------------------------------------
\* Properties.

\* See DmaSafe.  i10e.c writes no register while its card resets (226-259),
\* and x710.c reaches only its memory unless it does, as its wait lets it
\* (260-281).
DmaInv ==
  /\ TypeOK
  /\ program = "i10e" => ~lost
  /\ lost \/ DmaSafe

\* A program that got its card is through in the end: its waits for the card
\* (i10e.c 226-259, 307, 330, 356; x710.c 260, 296, 310) are for something that
\* happens, or x710.c exits because its receive queue has failed (319).  What
\* x710.c wrote during the reset, or a transmit queue that has failed, it may
\* wait for in vain.
Completes ==
  at # "vfio" ~>
    \/ at = "done" \/ ~alive
    \/ program = "x710" /\ (lost \/ ring["tx"].state = "failed")
=============================================================================
