----------------------------- MODULE Assembler -----------------------------
(***************************************************************************)
(* What the two passes promise together: a source is read to its end, and  *)
(* then its text alone decides whether it is rejected or assembled, and    *)
(* into what.  Nothing is said of a source for which memory ran out.       *)
(***************************************************************************)
EXTENDS SourceText

VARIABLES
  verdict,  \* "none" as long as the source is not decided, or "lost"
  outputs   \* the contents of the output files

vars == <<source, verdict, outputs>>

Nothing == [code |-> <<>>, data |-> <<>>, ext |-> {}, ent |-> {}]

Init == source = <<>> /\ verdict = "none" /\ outputs = Nothing

Read ==
  /\ verdict = "none" /\ ~ Ended
  /\ \E raw \in Readable : source' = Append(source, raw)
  /\ UNCHANGED <<verdict, outputs>>

Assemble ==
  /\ verdict = "none" /\ Ended /\ Clean
  /\ verdict' = "assembled" /\ outputs' = SourceOutputs
  /\ UNCHANGED source

(* The largest number may be rejected (see LargestNumberIsSupported). *)
Reject ==
  /\ verdict = "none" /\ Ended /\ (~ Clean \/ HasLargestNumber)
  /\ verdict' = "rejected"
  /\ UNCHANGED <<source, outputs>>

(* The rest of the source may be read or not. *)
RunOutOfMemory ==
  /\ verdict \in {"none", "lost"}
  /\ verdict' = "lost"
  /\ UNCHANGED outputs

Next == Read \/ Assemble \/ Reject \/ RunOutOfMemory

Spec == Init /\ [][Next]_vars
=============================================================================
