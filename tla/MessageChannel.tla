-------------------------- MODULE MessageChannel --------------------------
(***************************************************************************)
(* What the server's side of a connection promises to the handlers of      *)
(* Session: each message the peer sent is handed to readDone once, whole   *)
(* and in the order of sending, until the connection breaks.               *)
(***************************************************************************)
EXTENDS Naturals, Sequences

CONSTANTS
  Messages,    \* the messages a peer may send
  MaxMessages  \* bound: messages sent over one connection

VARIABLES
  sent,       \* what the peer sent
  delivered,  \* what the handlers were given
  broken      \* the connection was reset

vars == <<sent, delivered, broken>>

Init ==
  /\ sent = <<>>
  /\ delivered = <<>>
  /\ broken = FALSE

Send(m) ==
  /\ ~broken
  /\ Len(sent) < MaxMessages
  /\ sent' = Append(sent, m)
  /\ UNCHANGED <<delivered, broken>>

Deliver ==
  /\ ~broken
  /\ Len(delivered) < Len(sent)
  /\ delivered' = Append(delivered, sent[Len(delivered) + 1])
  /\ UNCHANGED <<sent, broken>>

Break ==
  /\ ~broken
  /\ broken' = TRUE
  /\ UNCHANGED <<sent, delivered>>

Next == (\E m \in Messages : Send(m)) \/ Deliver \/ Break

Spec == Init /\ [][Next]_vars

\* A connection that stays up delivers what was sent.
FairSpec == Spec /\ WF_vars(Deliver)
============================================================================
