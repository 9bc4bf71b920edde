------------------------------ MODULE LineFifo ------------------------------
(***************************************************************************)
(* The promise of the line queue (line_queue.h): "this queue is FIFO".     *)
(* Lines stand for themselves, by number; what pop returns is the head.    *)
(* A push whose list node cannot be allocated cuts the queue: the lines    *)
(* pushed from then on are lost, until the queue is empty again.           *)
(***************************************************************************)
EXTENDS Naturals, Sequences

VARIABLES
  queue,       \* the lines that pop will return, the next one first
  tail_linked  \* a line that is pushed now will be one of them

queueVars == <<queue, tail_linked>>

newLineQueue == queue = <<>> /\ tail_linked = TRUE

(* A push that leaves the tail alone when there is no node. *)
pushSkipping(line, failed) ==
  /\ queue' = IF "queue_node" \in failed THEN queue ELSE Append(queue, line)
  /\ UNCHANGED tail_linked

push(line, failed) ==
  IF "queue_node" \in failed
  THEN queue' = queue /\ tail_linked' = (queue = <<>>)
  ELSE queue' = (IF tail_linked THEN Append(queue, line) ELSE queue) /\ UNCHANGED tail_linked

(* Of a queue that is not empty. *)
pop ==
  /\ queue' = Tail(queue)
  /\ tail_linked' = (tail_linked \/ Len(queue) = 1)
=============================================================================
