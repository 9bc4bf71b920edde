----------------------------- MODULE ObjectFile -----------------------------
(***************************************************************************)
(* object_file.c: the text of an .ob file, a header with the sizes of code *)
(* and data, then rows of bytes, each row behind its address.              *)
(***************************************************************************)
EXTENDS Integers, Sequences, SequencesExt

INSTRUCTION_COUNTER_INITIAL_VALUE == 100
BYTES_PER_LINE == 4

NoText == [header |-> <<>>, rows |-> <<>>]

(* A row that starts one byte late. *)
writeByteLate(rows, count, byte) ==
  IF count % BYTES_PER_LINE = 1
  THEN Append(rows, [address |-> INSTRUCTION_COUNTER_INITIAL_VALUE + count, bytes |-> <<byte>>])
  ELSE [rows EXCEPT ![(count + 2) \div BYTES_PER_LINE].bytes = Append(@, byte)]

(* The byte behind count others: it starts a new row, or ends the last one.  *)
(* self->address is base_address + count.                                    *)
writeByte(rows, count, byte) ==
  IF count % BYTES_PER_LINE = 0
  THEN Append(rows, [address |-> INSTRUCTION_COUNTER_INITIAL_VALUE + count, bytes |-> <<byte>>])
  ELSE [rows EXCEPT ![count \div BYTES_PER_LINE + 1].bytes = Append(@, byte)]

(* Memory_toFile: the header, the code, the data. *)
toFile(code, data) ==
  LET Bytes(array) == [i \in 1 .. array.size |-> array.data[i - 1]]
      image        == Bytes(code) \o Bytes(data)
      Rows[n \in 0 .. Len(image)] ==
        IF n = 0 THEN <<>> ELSE writeByte(Rows[n - 1], n - 1, image[n])
  IN  [header |-> <<code.size, data.size>>, rows |-> Rows[Len(image)]]
=============================================================================
