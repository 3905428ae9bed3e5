------------------------------ MODULE MCI2CBus ------------------------------
(***************************************************************************)
(* Instances of I2CBus for TLC.                                            *)
(***************************************************************************)
EXTENDS I2CBus

TwoChips == {1, 2}
TwoValues == {0, 1}

Do(op, a, r, d, n, stop) ==
  [op |-> op, addr |-> a, reg |-> r, data |-> d, n |-> n, stop |-> stop]

(* Calls for one chip that is there, another one, and one that is not;     *)
(* blocks of no, one and two bytes, one that goes past the last register,  *)
(* one from a register whose number is more than a byte.                   *)
Calls ==
  {Do("write", 1, 1, <<1, 0>>, 0, TRUE), Do("write", 1, 0, <<1>>, 0, TRUE),
   Do("write", 2, 1, <<1>>, 0, FALSE), Do("write", 3, 0, <<1>>, 0, TRUE),
   Do("read", 1, 257, <<>>, 2, TRUE), Do("get", 2, 0, <<>>, 1, TRUE),
   Do("put", 1, 0, <<0, 0>>, 0, TRUE), Do("put", 2, 0, <<>>, 0, TRUE),
   Do("ping", 3, 0, <<>>, 1, TRUE), Do("scan", 0, 0, <<>>, 1, TRUE)}
=============================================================================
