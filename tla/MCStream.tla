------------------------------ MODULE MCStream ------------------------------
(* Streamed jobs on one worker whose channels hold a single chunk.          *)
EXTENDS Stream

CONSTANTS j1

OneJob == {j1}

=============================================================================
