------------------------------- MODULE Memory -------------------------------
(***************************************************************************)
(* memory.c and object_file.c: the data image and the code image that the  *)
(* passes build, and the addresses at which the object file puts them.  A  *)
(* data byte is kept as the line of the directive it comes from; a code    *)
(* entry as its instruction word with the line it comes from.              *)
(***************************************************************************)
EXTENDS Instruction

INSTRUCTION_COUNTER_INITIAL_VALUE == 100
MANAGED_ARRAY_MIN_CAPACITY        == 8
WORD_SIZE                         == 4   \* sizeof(unsigned int)

VARIABLES
  data_counter,  \* bytes announced to writeData
  data,          \* line of each byte of the data image
  code           \* [line, word] of each word of the code image

memoryVars == <<data_counter, data, code>>

MemoryTypeOK ==
  /\ data_counter \in Nat
  /\ data \in Seq(Nat)
  /\ code \in Seq([line : Nat, word : Word])

newMemory == data_counter = 0 /\ data = <<>> /\ code = <<>>

-----------------------------------------------------------------------------

(***************************************************************************)
(* The capacity of a ManagedArray is MANAGED_ARRAY_MIN_CAPACITY, doubled   *)
(* whenever an append does not fit.  Appending n bytes to size bytes calls *)
(* realloc when it passes such a capacity.                                 *)
(***************************************************************************)
IsCapacity(c) ==
  c >= MANAGED_ARRAY_MIN_CAPACITY /\ \A d \in 1 .. c : c % (2 * d + 1) # 0

Grows(size, n) == \E c \in size .. size + n - 1 : IsCapacity(c)

AppendError(size, n, failed) ==
  IF "grow" \in failed /\ Grows(size, n) THEN "ERR_OUT_OF_MEMEORY" ELSE "SUCCESS"

(* The counter advances even when the append fails. *)
WriteDataError(n, failed) == AppendError(Len(data), n, failed)

writeData(line, n, failed) ==
  /\ data_counter' = data_counter + n
  /\ data' = IF WriteDataError(n, failed) = "SUCCESS"
             THEN data \o [i \in 1 .. n |-> line] ELSE data
  /\ UNCHANGED code

WriteCodeError(failed) == AppendError(WORD_SIZE * Len(code), WORD_SIZE, failed)

writeCode(line, word, failed) ==
  /\ code' = IF WriteCodeError(failed) = "SUCCESS"
             THEN Append(code, [line |-> line, word |-> word]) ELSE code
  /\ UNCHANGED <<data_counter, data>>

-----------------------------------------------------------------------------

(***************************************************************************)
(* The object file: code bytes, then data bytes, from the base address on. *)
(* LineAt is the source line of the byte written at an address, 0 where    *)
(* none is written.                                                        *)
(***************************************************************************)
CodeBytes == WORD_SIZE * Len(code)

LineAt(address) ==
  LET i == address - INSTRUCTION_COUNTER_INITIAL_VALUE
  IN  IF i \in 0 .. CodeBytes - 1 THEN code[i \div WORD_SIZE + 1].line
      ELSE IF i - CodeBytes \in 0 .. Len(data) - 1 THEN data[i - CodeBytes + 1]
      ELSE 0
=============================================================================
