----------------------------- MODULE LineQueue -----------------------------
(***************************************************************************)
(* line_queue.c and the nodes of list.c, on a heap, as first_pass.c,       *)
(* second_pass.c and the cleanup of main.c use them for one source file:   *)
(*                                                                         *)
(*   first    lines are allocated and pushed                               *)
(*   second   lines are popped and freed, until none is left or the pass   *)
(*            gives up                                                     *)
(*   cleanup  LineQueue_free pops and frees what is left                   *)
(*   done     the queue itself is freed                                    *)
(***************************************************************************)
EXTENDS Integers, Sequences, FiniteSets

CONSTANTS
  Nodes,      \* the addresses malloc may return for a ListNode
  NULL,
  MaxLines,   \* bound on the lines of a file
  MaxFaults   \* bound on the allocations that fail

ASSUME QueueAssumption ==
  /\ NULL \notin Nodes /\ IsFiniteSet(Nodes)
  /\ MaxLines \in Nat /\ Cardinality(Nodes) >= MaxLines
  /\ MaxFaults \in Nat

VARIABLES
  phase,
  created,  \* lines read so far; they are numbered in order
  lines,    \* the lines that are allocated
  nodes,    \* the nodes that are allocated
  next, data,  \* the fields of each node
  head, tail,  \* the fields of the queue
  faults    \* allocations that have failed

heapVars == <<nodes, next, data, head, tail>>
vars == <<phase, created, lines, heapVars, faults>>

Pointers == Nodes \cup {NULL}

TypeOK ==
  /\ phase \in {"first", "second", "cleanup", "done"}
  /\ created \in 0 .. MaxLines /\ lines \subseteq 1 .. created
  /\ nodes \subseteq Nodes
  /\ next \in [Nodes -> Pointers] /\ data \in [Nodes -> Nat]
  /\ head \in Pointers /\ tail \in Pointers
  /\ faults \in Nat

Init ==
  /\ phase = "first" /\ created = 0 /\ lines = {} /\ faults = 0
  /\ nodes = {} /\ next = [p \in Nodes |-> NULL] /\ data = [p \in Nodes |-> 0]
  /\ head = NULL /\ tail = NULL

-----------------------------------------------------------------------------

(* A push that does not look at the head: only a queue without a tail is     *)
(* taken to be empty.                                                        *)
LineQueue_pushByTail(line, node) ==
  /\ nodes' = nodes \cup ({node} \ {NULL})
  /\ data'  = [p \in Nodes |-> IF p = node THEN line ELSE data[p]]
  /\ next'  = [p \in Nodes |-> IF p = tail THEN node
                               ELSE IF p = node THEN NULL ELSE next[p]]
  /\ tail'  = node
  /\ head'  = IF tail = NULL THEN node ELSE head

(* LineQueue_push, of a line that gets the given node, NULL if malloc fails.   *)
(* newListNode is the assignment to the node itself.                           *)
LineQueue_push(line, node) ==
  /\ nodes' = nodes \cup ({node} \ {NULL})
  /\ data'  = [p \in Nodes |-> IF p = node THEN line ELSE data[p]]
  /\ next'  = [p \in Nodes |-> IF p = tail THEN node
                               ELSE IF p = node THEN NULL ELSE next[p]]
  /\ tail'  = node
  /\ head'  = IF head = NULL THEN node ELSE head

(* A pop that leaves the head where it is. *)
LineQueue_popStuck ==
  /\ nodes' = nodes \ {head}
  /\ UNCHANGED <<head, next, data, tail>>

(* A pop that forgets to free the node. *)
LineQueue_popKeeping ==
  /\ head' = next[head]
  /\ UNCHANGED <<nodes, next, data, tail>>

(* LineQueue_pop, of a queue with a head. *)
LineQueue_pop ==
  /\ nodes' = nodes \ {head}
  /\ head' = next[head]
  /\ UNCHANGED <<next, data, tail>>

-----------------------------------------------------------------------------

(* A line that is pushed without counting it. *)
PushLineUncounted ==
  /\ phase = "first" /\ created < MaxLines
  /\ lines' = lines \cup {created + 1}
  /\ \E node \in Nodes \ nodes : LineQueue_push(created + 1, node)
  /\ UNCHANGED <<phase, created, faults>>

(* firstPass reads a line and pushes it. *)
PushLine ==
  /\ phase = "first" /\ created < MaxLines
  /\ created' = created + 1 /\ lines' = lines \cup {created + 1}
  /\ \/ \E node \in Nodes \ nodes :
          LineQueue_push(created + 1, node) /\ UNCHANGED faults
     \/ /\ faults < MaxFaults /\ faults' = faults + 1
        /\ LineQueue_push(created + 1, NULL)
  /\ UNCHANGED phase

(* A line whose operands cannot be allocated is given up together with the   *)
(* source, before it is pushed; the first line is pushed all the same.       *)
DropLine ==
  /\ phase = "first" /\ 0 < created /\ created < MaxLines
  /\ faults < MaxFaults /\ faults' = faults + 1
  /\ created' = created + 1 /\ lines' = lines \cup {created + 1}
  /\ phase' = "cleanup"
  /\ UNCHANGED heapVars

(* The end of the file, an error in some line, or a line that cannot be      *)
(* allocated.                                                                *)
EndFirstPass ==
  /\ phase = "first" /\ created > 0
  /\ phase' \in {"second", "cleanup"}
  /\ UNCHANGED <<created, lines, heapVars, faults>>

(* A pass that frees the line at the head and pops it when it goes on. *)
PopLinePeeking ==
  /\ phase = "second" /\ head # NULL
  /\ lines' = lines \ {data[head]}
  /\ \/ LineQueue_pop /\ UNCHANGED <<phase, faults>>
     \/ /\ phase' = "cleanup" /\ faults < MaxFaults /\ faults' = faults + 1
        /\ UNCHANGED heapVars
  /\ UNCHANGED created

(* secondPass pops a line and frees it, whatever its handling returns; when  *)
(* memory runs out the rest stays in the queue.                              *)
PopLine ==
  /\ phase = "second" /\ head # NULL
  /\ LineQueue_pop
  /\ lines' = lines \ {data[head]}
  /\ \/ phase' = "second" /\ UNCHANGED faults
     \/ phase' = "cleanup" /\ faults < MaxFaults /\ faults' = faults + 1
  /\ UNCHANGED created

EndSecondPass ==
  /\ phase = "second" /\ head = NULL
  /\ phase' = "cleanup"
  /\ UNCHANGED <<created, lines, heapVars, faults>>

(* LineQueue_free. *)
FreeLine ==
  /\ phase = "cleanup" /\ head # NULL
  /\ LineQueue_pop
  /\ lines' = lines \ {data[head]}
  /\ UNCHANGED <<phase, created, faults>>

FreeQueue ==
  /\ phase = "cleanup" /\ head = NULL
  /\ phase' = "done"
  /\ UNCHANGED <<created, lines, heapVars, faults>>

Terminated == phase = "done" /\ UNCHANGED vars

Step == PushLine \/ DropLine \/ EndFirstPass \/ PopLine \/ EndSecondPass \/ FreeLine \/ FreeQueue

Next == Step \/ Terminated

(* The program is one thread, which runs on until it is done. *)
Spec == Init /\ [][Next]_vars /\ WF_vars(Step)

-----------------------------------------------------------------------------
(***************************************************************************)
(* The queue that the nodes stand for.                                     *)
(***************************************************************************)

(* The node reached after so many steps from the head, NULL past the end. *)
NodeAt ==
  LET at[k \in 0 .. Cardinality(Nodes)] ==
        IF k = 0 THEN head ELSE IF at[k - 1] = NULL THEN NULL ELSE next[at[k - 1]]
  IN  at

Chain == {k \in DOMAIN NodeAt : NodeAt[k] # NULL}

Content == [k \in 1 .. Cardinality(Chain) |-> data[NodeAt[k - 1]]]

Linked == head = NULL \/ tail = NodeAt[Cardinality(Chain) - 1]

Fifo == INSTANCE LineFifo WITH queue <- Content, tail_linked <- Linked

(* The linked list is the queue the two passes rely on: every push and every  *)
(* pop has the effect that LineFifo states, also after a node could not be    *)
(* allocated, and nothing else touches the queue.                             *)
ImplementsFifo ==
  /\ Fifo!newLineQueue
  /\ [][\/ \E failed \in SUBSET {"queue_node"} : Fifo!push(created + 1, failed)
        \/ Content # <<>> /\ Fifo!pop]_<<Content, Linked>>

(* No pointer that the queue is going to follow leads to a node that was      *)
(* freed, the chain ends, and no line in it was freed or is in it twice: also *)
(* after pop has left the tail where it was.                                  *)
PointersAreLive ==
  /\ {NodeAt[k] : k \in Chain} \subseteq nodes
  /\ NodeAt[Cardinality(Nodes)] = NULL
  /\ phase = "first" => tail \in nodes \cup {NULL}
  /\ {data[NodeAt[k]] : k \in Chain} \subseteq lines
  /\ \A j, k \in Chain : data[NodeAt[j]] = data[NodeAt[k]] => j = k

(* "if any AssemblyLines are left in queue when deallocated they will be      *)
(* deallocated too" (line_queue.h:15): when the queue is freed no line and no *)
(* node is left, wherever the passes stopped, if every allocation succeeded;  *)
(* and a failure leaks no more than the lines and nodes behind it.            *)
EverythingIsFreed ==
  phase = "done" =>
    /\ faults = 0 => lines = {} /\ nodes = {}
    /\ 1 \in lines => faults > 0
    /\ Cardinality(nodes) <= Cardinality(lines)

(* The queue is freed in the end: the loops that empty it end.                *)
IsFreed == <>(phase = "done")

-----------------------------------------------------------------------------
(***************************************************************************)
(* Why they hold: what is always true of the nodes q of the queue, and of  *)
(* the nodes that a failed allocation cut off from it.                     *)
(***************************************************************************)
QueueNodes == [k \in 1 .. Cardinality(Chain) |-> NodeAt[k - 1]]

(* The pointers lead from the head along q, and end there.                    *)
LeadsAlong(q) ==
  /\ q \in Seq(nodes)
  /\ head = IF q = <<>> THEN NULL ELSE q[1]
  /\ \A i \in 1 .. Len(q) : next[q[i]] = IF i = Len(q) THEN NULL ELSE q[i + 1]
  /\ \A i, j \in 1 .. Len(q) : q[i] = q[j] => i = j

(* Each node, reached or not, holds a line of its own.                        *)
NodesHoldLines ==
  /\ \A p \in nodes : data[p] \in lines
  /\ \A p, r \in nodes : data[p] = data[r] => p = r

(* While lines are pushed, the tail is the end of q or no part of q.          *)
TailIsApart(q) ==
  phase = "first" =>
    /\ tail \in nodes \cup {NULL}
    /\ head = NULL => tail = NULL
    /\ \A i \in 1 .. Len(q) : q[i] = tail => i = Len(q)
    /\ faults = 0 /\ head # NULL => tail # NULL

(* Without a failure everything is in the queue.                              *)
NothingIsCutOff(q) ==
  faults = 0 => /\ \A p \in nodes : \E i \in 1 .. Len(q) : q[i] = p
                /\ \A line \in lines : \E p \in nodes : data[p] = line

QueueParts(q) == LeadsAlong(q) /\ NodesHoldLines /\ TailIsApart(q) /\ NothingIsCutOff(q)

QueueInvariant == TypeOK /\ QueueParts(QueueNodes)
=============================================================================
