----------------------------- MODULE MCPoolAlloc -----------------------------
(* A pool of a few blocks for TLC.  The second row of bins already receives *)
(* sizes beyond the table, so the clamps of mapping() are exercised.        *)
EXTENDS PoolAlloc

\* mapping() as alloc.c computes it, in its arithmetic: the reference for the
\* counting form the specification uses.
Log2[v \in 0 .. 512] == IF v <= 1 THEN 0 ELSE 1 + Log2[v \div 2]

CodeMapping(size) ==
    LET first == IF Log2[size] >= FL_COUNT THEN FL_COUNT - 1 ELSE Log2[size]
        base  == 2^first
        step  == IF base \div SL_COUNT = 0 THEN 1 ELSE base \div SL_COUNT
        sl    == (IF size > base THEN size - base ELSE 0) \div step
    IN  first * SL_COUNT + (IF sl >= SL_COUNT THEN SL_COUNT - 1 ELSE sl)

ASSUME MappingIsTheCodes == \A size \in 1 .. 512 : mapping(size) = CodeMapping(size)

=============================================================================
