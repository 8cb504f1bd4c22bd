------------------------------ MODULE MCPaging ------------------------------
(***************************************************************************)
(* Model checking of Paging: maps of all shapes up to three entries, and   *)
(* page tables for maps whose tables overflow at every level.              *)
(***************************************************************************)
EXTENDS Paging

\* Runs of the given numbers of pages, each `gap` pages after the one before.
MapOf(sizes, gap) ==
  [k \in DOMAIN sizes |->
     [base |-> DYNMEM_START + (k - 1) * gap
               + MapThenSumSet(LAMBDA j : sizes[j], 1 .. k - 1),
      size |-> sizes[k]]]

MCMaps == {MapOf(<<n>>, 0) : n \in (8 .. 30) \cup (115 .. 130)}
          \cup {MapOf(s, 3) : s \in {<<5, 2, 19>>, <<3, 1, 5>>, <<4, 60, 64>>, <<126, 3>>}}

\* What firmware may report for such a map: memory below it as well, ragged
\* ends, and the runs in descending order.
Half == PAGE_SIZE \div 2
Ragged(m) ==
  [k \in DOMAIN m |->
     LET r == m[Len(m) + 1 - k] IN
     [base |-> r.base * PAGE_SIZE - Half, size |-> (r.size + 1) * PAGE_SIZE, mem_type |-> Usable]]

\* Up to three entries around DYNMEM_START_PHYS that overlap, nest, tie, are
\* empty, or begin and end inside a page.
SmallEntry ==
  [base : {DYNMEM_START_PHYS + n * Half : n \in {-4, -1, 0, 3, 4}},
   size : {n * Half : n \in {0, 1, 3, 5, 8}}, mem_type : {Usable, 2}]

MCE820Maps == {Ragged(m) : m \in MCMaps} \cup UNION {[1 .. n -> SmallEntry] : n \in 0 .. 3}

=============================================================================
