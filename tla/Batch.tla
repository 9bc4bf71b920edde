------------------------------- MODULE Batch -------------------------------
(***************************************************************************)
(* What the assembler promises about its output files, without saying how: *)
(* the inputs are assembled in turn; an input writes its .ob file and then *)
(* the listings it needs, all under its own name, or none of them when the *)
(* source is rejected; only running out of memory ends the program before  *)
(* the last input, and then nothing of that input is written.              *)
(***************************************************************************)
EXTENDS Integers, Sequences

CONSTANT OutputName(_)  \* the name of the outputs of an input

VARIABLES
  argv,     \* the inputs
  turn,     \* the input that is assembled, by position
  stage,    \* what is being done with it
  pending,  \* the suffixes it has still to write, in order
  done,     \* of each input that is done with: is all of it written?
  writer,   \* of each output: the turn it was written in
  exit      \* how the program ended

vars == <<argv, turn, stage, pending, done, writer, exit>>

Never   == -1  \* the file does not exist
Earlier == 0   \* the file is older than this run

(* The lists of outputs that a source may need: always an object file. *)
Needs == {<<"ob">>, <<"ob", "ext">>, <<"ob", "ent">>, <<"ob", "ext", "ent">>}

Init ==
  /\ turn = 0 /\ stage = "between" /\ pending = <<>> /\ done = <<>> /\ exit = "running"
  /\ \A output \in DOMAIN writer : writer[output] \in {Never, Earlier}

Begin ==
  /\ stage = "between" /\ turn < Len(argv)
  /\ turn' = turn + 1 /\ stage' = "reading"
  /\ UNCHANGED <<argv, pending, done, writer, exit>>

Accept ==
  /\ stage = "reading"
  /\ stage' = "writing" /\ pending' \in Needs
  /\ UNCHANGED <<argv, turn, done, writer, exit>>

Publish ==
  /\ stage = "writing" /\ pending # <<>>
  /\ writer' = [writer EXCEPT ![<<OutputName(argv[turn]), Head(pending)>>] = turn]
  /\ pending' = Tail(pending)
  /\ UNCHANGED <<argv, turn, stage, done, exit>>

Complete ==
  /\ stage = "writing" /\ pending = <<>>
  /\ stage' = "between" /\ done' = Append(done, TRUE)
  /\ UNCHANGED <<argv, turn, pending, writer, exit>>

(* The source is rejected, or a file cannot be created. *)
GiveUp ==
  /\ stage = "reading" \/ pending # <<>>
  /\ stage' = "between" /\ pending' = <<>> /\ done' = Append(done, FALSE)
  /\ UNCHANGED <<argv, turn, writer, exit>>

RunOutOfMemory ==
  /\ stage = "reading"
  /\ stage' = "lost" /\ done' = Append(done, FALSE)
  /\ UNCHANGED <<argv, turn, pending, writer, exit>>

Exit ==
  /\ \/ stage = "between" /\ turn = Len(argv) /\ exit' = "0"
     \/ stage = "lost" /\ exit' = "1"
  /\ stage' = "exited"
  /\ UNCHANGED <<argv, turn, pending, done, writer>>

(* A crash may leave the file that was being written. *)
Crash ==
  /\ stage \in {"reading", "writing"}
  /\ stage' = "exited" /\ pending' = <<>> /\ exit' = "crashed"
  /\ \/ UNCHANGED writer
     \/ /\ pending # <<>>
        /\ writer' = [writer EXCEPT ![<<OutputName(argv[turn]), Head(pending)>>] = turn]
  /\ UNCHANGED <<argv, turn, done>>

Next ==
  \/ Begin \/ Accept \/ Publish \/ Complete \/ GiveUp \/ RunOutOfMemory \/ Exit \/ Crash

Spec == Init /\ [][Next]_vars
=============================================================================
