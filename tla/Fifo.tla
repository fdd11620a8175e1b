-------------------------------- MODULE Fifo --------------------------------
(***************************************************************************)
(* What block_queue promises: a queue of at most MaxSize items, which gives *)
(* them back in the order in which it took them, and keeps its consumer     *)
(* waiting only while it is empty.                                          *)
(***************************************************************************)
EXTENDS Naturals, Sequences

CONSTANTS Items, MaxSize

VARIABLES
    queue,     \* the items, the oldest first
    item       \* the item that the consumer got last

FifoInit == queue = <<>>

Put(x) == Len(queue) < MaxSize /\ queue' = Append(queue, x) /\ UNCHANGED item
Get == queue # <<>> /\ item' = Head(queue) /\ queue' = Tail(queue)

FifoNext == Get \/ \E x \in Items : Put(x)

FifoSpec == FifoInit /\ [][FifoNext]_<<queue, item>> /\ WF_<<queue, item>>(Get)
=============================================================================
