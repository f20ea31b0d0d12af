-------------------------- MODULE MCSocketReader --------------------------
(* SocketReader with bytes of two values: the body of three bytes needs    *)
(* both bytes of the length, as one of 256 bytes or more does in the code. *)
EXTENDS SocketReader

MCMessages ==
  {[id |-> 1, body |-> <<>>],
   [id |-> 0, body |-> <<1>>],
   [id |-> 1, body |-> <<1, 0, 1>>]}
============================================================================
