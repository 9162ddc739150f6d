------------------------------ MODULE UserPages ------------------------------
(***************************************************************************)
(* The user page pools of kernel/memory.c.  A pool is an array of owner    *)
(* tags, one per page: 0 is a free page, any other tag is the program id   *)
(* (slot + 1) the page was allocated for.  Pages are taken first-fit and   *)
(* given back by owner, never one at a time.  A pool is represented by     *)
(* the function from page index to tag.                                    *)
(***************************************************************************)
EXTENDS Integers, FiniteSets

Free(pool) == {p \in DOMAIN pool : pool[p] = 0}

Owned(pool, id) == {p \in DOMAIN pool : pool[p] = id}

\* The first n free pages, or all of them when fewer are left.
FirstFree(pool, n) ==
    {p \in Free(pool) : Cardinality({q \in Free(pool) : q < p}) < n}

Enough(pool, n) == Cardinality(Free(pool)) >= n

\* n allocations in a row; a run that fails half way keeps what it took.
Take(pool, n, id) ==
    [p \in DOMAIN pool |-> IF p \in FirstFree(pool, n) THEN id ELSE pool[p]]

\* memory_release_user on one of the pools.
Release(pool, id) ==
    [p \in DOMAIN pool |-> IF pool[p] = id THEN 0 ELSE pool[p]]
==============================================================================
