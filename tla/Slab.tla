-------------------------------- MODULE Slab --------------------------------
(***************************************************************************)
(* SlabAllocator<T> of slab_alloc/src/lib.rs: pages cut into objects, a    *)
(* free list through the objects of each page, and the doubly linked       *)
(* partial_list of the pages that have free objects.  The memory is one    *)
(* record; a method is an operator from memory to memory.  An object is    *)
(* named by its offset in its page, as free_index and next name it.  The   *)
(* redzones, which only a client that writes outside its object changes,   *)
(* are in SlabLayout.                                                      *)
(***************************************************************************)
EXTENDS SlabObject, FiniteSets

CONSTANTS Page,       \* the pages the page allocator can give
          Null,       \* null_mut()
          Type        \* size and align of the type to allocate

OBJ_OFFSET == object_offset(Type)
OBJ_SIZE == size_of(Type)

ASSUME SizeAssumption ==
  /\ IsFiniteSet(Page) /\ Null \notin Page
  /\ PAGE_SIZE \in Nat \ {0}
  /\ Type.align \in Nat \ {0} /\ Type.size \in Nat
  /\ SIZE_ASSERT(Type)

VARIABLES mem,     \* partial_list, the page headers and the object headers
          owned,   \* external: the pages the page allocator has given
          live,    \* history: the objects handed out and not returned
          ret,     \* history: the answer to the last alloc
          failed   \* an assert failed

vars == <<mem, owned, live, ret, failed>>

Offset == Offsets(OBJ_OFFSET, OBJ_SIZE)

Object == Page \X Offset
NoObject == <<Null, 0>>

Init ==
  /\ mem = [head |-> Null, tail |-> Null,
            next |-> [p \in Page |-> Null], prev |-> [p \in Page |-> Null],
            free_index |-> [p \in Page |-> 0], alloc_count |-> [p \in Page |-> 0],
            magic |-> [o \in Object |-> "EMPTY"], obj_next |-> [o \in Object |-> 0],
            payload |-> [o \in Object |-> "UNUSED"]]
  /\ owned = {}
  /\ live = {}
  /\ ret = NoObject
  /\ failed = FALSE

-----------------------------------------------------------------------------

\* PageList.
assign_singleton(m, p) ==
  [m EXCEPT !.next[p] = Null, !.prev[p] = Null, !.head = p, !.tail = p]

push_back(m, p) ==
  LET linked == [m EXCEPT !.next[p] = Null, !.prev[p] = m.tail] IN
  IF m.tail # Null THEN [linked EXCEPT !.next[m.tail] = p, !.tail = p]
  ELSE [linked EXCEPT !.head = IF @ = Null THEN p ELSE @, !.tail = p]

\* Fault seed: the list keeps its tail.
TailStays(m, p) == m.tail

\* The tail once page p, the last one, is unlinked.
TailWithout(m, p) == m.prev[p]

remove(m, p) ==
  LET n == m.next[p]
      v == m.prev[p]
      before == IF v = Null THEN [m EXCEPT !.head = n] ELSE [m EXCEPT !.next[v] = n]
      after == IF n = Null THEN [before EXCEPT !.tail = TailWithout(m, p)] ELSE [before EXCEPT !.prev[n] = v]
  IN  [after EXCEPT !.next[p] = Null, !.prev[p] = Null]

\* SlotPage.
init(m, p) ==
  [m EXCEPT
     !.next[p] = Null, !.prev[p] = Null,
     !.free_index[p] = OBJ_OFFSET, !.alloc_count[p] = 0,
     !.magic = [o \in Object |-> IF o[1] = p THEN "EMPTY" ELSE @[o]],
     !.payload = [o \in Object |-> IF o[1] = p THEN "UNUSED" ELSE @[o]],
     !.obj_next = [o \in Object |->
        IF o[1] # p THEN @[o]
        ELSE IF o[2] + OBJ_SIZE \in Offset THEN o[2] + OBJ_SIZE ELSE 0]]

pop_front_object(m, p) ==
  LET obj == <<p, m.free_index[p]>> IN
  [m EXCEPT !.free_index[p] = m.obj_next[obj],
            !.obj_next[obj] = 0,
            !.alloc_count[p] = @ + 1]

\* Fault seed: the rest of the free list is dropped.
NextAlone(m, obj) == 0

\* What follows a returned object in the free list.
NextFree(m, obj) == m.free_index[obj[1]]

push_front_object(m, obj) ==
  [m EXCEPT !.obj_next[obj] = NextFree(m, obj),
            !.free_index[obj[1]] = obj[2],
            !.alloc_count[obj[1]] = @ - 1]

-----------------------------------------------------------------------------

\* SlotObject.
MayAlloc(m, obj) ==
  m.magic[obj] = "EMPTY" /\ m.obj_next[obj] = 0 /\ m.payload[obj] = "UNUSED"

on_alloc(m, obj) ==
  [m EXCEPT !.magic[obj] = "OBJECT", !.payload[obj] = "ZERO"]

MayDealloc(m, obj) == m.magic[obj] = "OBJECT" /\ m.obj_next[obj] = 0

\* Fault seed: the payload is not filled.
on_dealloc_keeps(m, obj) ==
  [m EXCEPT !.magic[obj] = "EMPTY"]

on_dealloc(m, obj) ==
  [m EXCEPT !.magic[obj] = "EMPTY", !.payload[obj] = "UNUSED"]

-----------------------------------------------------------------------------

\* A failed assert: the panic leaves nobody to run another call.
Panic == failed' = TRUE /\ UNCHANGED <<mem, live, ret>>

\* alloc once partial_list has a page: m is the memory by then.  The object
\* leaves the free list, the page the partial_list with its last object.
alloc_from(m) ==
  LET page == m.head
      obj == <<page, m.free_index[page]>>
      popped == pop_front_object(m, page)
      full == m.obj_next[obj] = 0
      listed == IF full THEN remove(popped, page) ELSE popped
  IN  IF m.free_index[page] # 0 /\ MayAlloc(listed, obj)
      THEN /\ mem' = on_alloc(listed, obj)
           /\ ret' = obj
           /\ live' = live \cup {obj}
           /\ UNCHANGED failed
      ELSE Panic

\* alloc, with a new page where there is no partial one.
Alloc ==
  \/ /\ mem.head # Null
     /\ alloc_from(mem)
     /\ UNCHANGED owned
  \/ /\ mem.head = Null
     /\ \E p \in Page \ owned :
          /\ owned' = owned \cup {p}
          /\ alloc_from(assign_singleton(init(mem, p), p))
  \/ /\ mem.head = Null
     /\ ret' = NoObject
     /\ UNCHANGED <<mem, owned, live, failed>>

\* dealloc of a live object: the page goes back with its last object, and
\* returns to the partial_list with its first free one.
Dealloc(obj) ==
  LET page == obj[1]
      was_full == mem.free_index[page] = 0
      pushed == push_front_object(on_dealloc(mem, obj), obj)
      unused == pushed.alloc_count[page] = 0
  IN  IF MayDealloc(mem, obj)
      THEN /\ mem' = IF unused THEN (IF was_full THEN pushed ELSE remove(pushed, page))
                     ELSE IF was_full THEN push_back(pushed, page) ELSE pushed
           /\ owned' = IF unused THEN owned \ {page} ELSE owned
           /\ live' = live \ {obj}
           /\ UNCHANGED <<ret, failed>>
      ELSE Panic /\ UNCHANGED owned

\* A client writes to an object it holds.
Use(obj) ==
  /\ mem' = [mem EXCEPT !.payload[obj] = "DATA"]
  /\ UNCHANGED <<owned, live, ret, failed>>

Next ==
  /\ ~ failed
  /\ Alloc \/ \E obj \in live : Dealloc(obj) \/ Use(obj)

Spec == Init /\ [][Next]_vars

-----------------------------------------------------------------------------

\* Links lead to pages, free_index and next to objects of the page, and
\* alloc_count neither wraps below 0 nor passes the objects of a page.
TypeOK ==
  /\ mem \in [head : Page \cup {Null}, tail : Page \cup {Null},
              next : [Page -> Page \cup {Null}], prev : [Page -> Page \cup {Null}],
              free_index : [Page -> Offset \cup {0}],
              alloc_count : [Page -> 0 .. Cardinality(Offset)],
              magic : [Object -> {"EMPTY", "OBJECT"}],
              obj_next : [Object -> Offset \cup {0}],
              payload : [Object -> {"UNUSED", "ZERO", "DATA"}]]
  /\ owned \subseteq Page
  /\ live \subseteq Object
  /\ ret \in Object \cup {NoObject}
  /\ failed \in BOOLEAN

\* No assert of alloc or dealloc fails for clients that return each object
\* once: no object is handed out twice, no free one is taken for a live one.
NotPoisoned == ~ failed

LiveOf(p) == {o \in Offset : <<p, o>> \in live}

\* The n-th element that a list reaches from start through step, which has
\* end behind its last element.
Follow(start, step, end, bound) ==
  LET nth[n \in 0 .. bound] ==
        IF n = 0 THEN start ELSE IF nth[n - 1] = end THEN end ELSE step[nth[n - 1]]
  IN  nth

\* The free list of page p.
FreeList(p) ==
  Follow(mem.free_index[p], [o \in Offset |-> mem.obj_next[<<p, o>>]], 0, Cardinality(Offset))

\* The free list of a page in use runs through exactly the objects that are
\* not handed out, each once, and ends; alloc_count counts the others.
FreeListExact ==
  TypeOK /\ \A p \in owned :
    LET free == Offset \ LiveOf(p)
        list == FreeList(p)
        n == Cardinality(free)
    IN  /\ {list[i] : i \in 0 .. n - 1} = free
        /\ list[n] = 0
        /\ mem.alloc_count[p] = Cardinality(LiveOf(p))

\* The partial_list, from its head or from its tail.
ListFrom(start, step) == Follow(start, step, Null, Cardinality(Page))

\* Read from the head or from the tail, the partial_list holds exactly the
\* pages in use that have a free object, each once: alloc misses none of them
\* and never follows a link into a page that was given back.  A page is given
\* back exactly when its last object is.
PartialListExact ==
  LET partial == {p \in owned : LiveOf(p) # Offset}
      n == Cardinality(partial)
      forth == ListFrom(mem.head, mem.next)
      back == ListFrom(mem.tail, mem.prev)
  IN  /\ owned = {obj[1] : obj \in live}
      /\ {forth[i] : i \in 0 .. n - 1} = partial
      /\ forth[n] = Null /\ back[n] = Null
      /\ \A i \in 0 .. n - 1 : back[i] = forth[n - 1 - i]

\* What memory holds of page p.
PageMemory(p) ==
  <<mem.next[p], mem.prev[p], mem.free_index[p], mem.alloc_count[p],
    [o \in Offset |-> <<mem.magic[<<p, o>>], mem.obj_next[<<p, o>>], mem.payload[<<p, o>>]>>]>>

\* A page that was given back is never written again, as the mock allocator
\* of the slab tests asserts when it is dropped: no alloc or dealloc of other
\* objects follows an old link into it.
FreedUntouched ==
  [][\A p \in Page : p \notin owned /\ p \notin owned' => PageMemory(p)' = PageMemory(p)]_vars

=============================================================================
