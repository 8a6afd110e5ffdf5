--------------------------- MODULE MCCompoundOps ---------------------------
(***************************************************************************)
(* CompoundOps with two threads that have clones of one IoCtx.             *)
(***************************************************************************)
EXTENDS CompoundOps, TLC

CONSTANTS t1, t2, c1, a, b

MCThreads == {t1, t2}

MCIoctxOf == [t \in MCThreads |-> c1]

Do(kind, arg) == [kind |-> kind, arg |-> arg]
Write(steps) == [type |-> "write", steps |-> steps]
Read(steps) == [type |-> "read", steps |-> steps]

MCPrograms ==
  { Write(<<Do("create", Empty), Do("put", a)>>),
    Write(<<Do("omap_cmp", a), Do("put", b)>>),
    Write(<<Do("cmpxattr", a), Do("omap_cmp", a), Do("omap_cmp", b)>>),
    Write(<<Do("assert_version", Empty), Do("put", b)>>),
    Write(<<Do("remove", Empty)>>),
    Write(<<Do("assert_exists", Empty), Do("clear", Empty)>>),
    Read(<<Do("get", a), Do("get", b)>>) }

MCMaxOps == [t \in MCThreads |-> IF t = t1 THEN 2 ELSE 1]

Symmetry == Permutations(Addrs) \cup Permutations(Ids)

=============================================================================
