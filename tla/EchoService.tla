---------------------------- MODULE EchoService ----------------------------
(***************************************************************************)
(* What every echo server of the repository promises to one connection:    *)
(* it announces the message size once, then answers every message with     *)
(* the same message, in the order they were sent, exactly once each.       *)
(* A message is its number on its connection.  UringShards, SimpleServer,  *)
(* UringServer, Uring2Server (while no wait is interrupted) and            *)
(* EpollServer are shown to implement this specification.                  *)
(***************************************************************************)
EXTENDS Naturals, Sequences

CONSTANT Conns

VARIABLES
  stage,    \* the client's side: "idle", "open" or "closed"
  greeted,  \* the message size has been announced
  asked,    \* number of messages the client has sent
  echoed    \* the messages sent back, in order

vars == <<stage, greeted, asked, echoed>>

Init ==
  /\ stage = [c \in Conns |-> "idle"]
  /\ greeted = [c \in Conns |-> FALSE]
  /\ asked = [c \in Conns |-> 0]
  /\ echoed = [c \in Conns |-> <<>>]

Open(c) ==
  /\ stage[c] = "idle"
  /\ stage' = [stage EXCEPT ![c] = "open"]
  /\ UNCHANGED <<greeted, asked, echoed>>

\* A server may greet, and answer, a client that has already gone away.
Greet(c) ==
  /\ stage[c] # "idle" /\ ~greeted[c]
  /\ greeted' = [greeted EXCEPT ![c] = TRUE]
  /\ UNCHANGED <<stage, asked, echoed>>

Ask(c) ==
  /\ stage[c] = "open" /\ greeted[c]
  /\ asked' = [asked EXCEPT ![c] = @ + 1]
  /\ UNCHANGED <<stage, greeted, echoed>>

Echo(c) ==
  /\ Len(echoed[c]) < asked[c]
  /\ echoed' = [echoed EXCEPT ![c] = Append(@, Len(@) + 1)]
  /\ UNCHANGED <<stage, greeted, asked>>

Close(c) ==
  /\ stage[c] # "closed"
  /\ stage' = [stage EXCEPT ![c] = "closed"]
  /\ UNCHANGED <<greeted, asked, echoed>>

Next == \E c \in Conns : Open(c) \/ Greet(c) \/ Ask(c) \/ Echo(c) \/ Close(c)

Spec == Init /\ [][Next]_vars
=============================================================================
