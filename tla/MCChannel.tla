----------------------------- MODULE MCChannel -----------------------------
(***************************************************************************)
(* Small instances of Channel.                                             *)
(***************************************************************************)
EXTENDS Channel

CONSTANTS x, y

MCFrames ==
  { [json |-> 1, payload |-> 0, fds |-> {}],
    [json |-> 1, payload |-> 0, fds |-> {x}],
    [json |-> 1, payload |-> 2, fds |-> {x, y}],
    [json |-> 2, payload |-> 0, fds |-> {}] }

=============================================================================
