----------------------------- MODULE BarAccess -----------------------------
(***************************************************************************)
(* The accesses of librorc::bar, and what each reads and writes.            *)
(***************************************************************************)
CONSTANTS
    Addr, Value, Zero,
    ReadHalf    \* the halves of a register the program reads with get16()

Halves == {0, 1}

ASSUME HalfAssumption == ReadHalf \subseteq Halves

\* The halves an access reads or writes.
Cells(c) == CASE c.op \in {"get32", "set32"} -> {c.addr} \X Halves
              [] c.op \in {"get16", "set16"} -> {<<c.addr, c.half>>}
              [] c.op = "memcopy" -> Addr \X Halves
              [] OTHER -> {}

IsWrite(c) == c.op \in {"set32", "set16", "memcopy"}

\* What a read returns.
Nothing == <<>>
Found(file, c) == CASE c.op = "get32" -> [h \in Halves |-> file[<<c.addr, h>>]]
                    [] c.op = "get16" -> [h \in {0} |-> file[<<c.addr, c.half>>]]
                    [] OTHER -> Nothing
Written(file, c) == [cell \in DOMAIN file |-> IF cell \in Cells(c) THEN c.value ELSE file[cell]]

\* The accesses with operation op; what op does not use has one value only.
AnyOf(S) == {CHOOSE x \in S : TRUE}
Calls(op) ==
    [op : {op},
     addr : IF op \in {"memcopy", "gettime"} THEN AnyOf(Addr) ELSE Addr,
     half : IF op = "get16" THEN ReadHalf ELSE IF op = "set16" THEN Halves ELSE {0},
     value : IF op \in {"set32", "set16", "memcopy"} THEN Value ELSE AnyOf(Value)]
=============================================================================
