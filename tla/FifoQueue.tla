------------------------------- MODULE FifoQueue -------------------------------
(***************************************************************************)
(* What a queue shared by threads promises: elements go in at the end,     *)
(* several at once if they are pushed at once, and come out at the front.  *)
(***************************************************************************)
EXTENDS Sequences

CONSTANT Batches    \* what may be pushed at once

VARIABLE contents

FifoInit == contents = <<>>

Put == \E batch \in Batches : contents' = contents \o batch

Take == contents # <<>> /\ contents' = Tail(contents)

FifoSpec == FifoInit /\ [][Put \/ Take]_contents

===============================================================================
