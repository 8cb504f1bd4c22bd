----------------------------- MODULE SlabLayout -----------------------------
(***************************************************************************)
(* SlotPage::<T>::init of slab_alloc/src/lib.rs, one step for each object, *)
(* for the types SIZE_ASSERT lets through; Slab starts from its result.    *)
(***************************************************************************)
EXTENDS SlabObject

CONSTANTS Types,  \* size and align of the types to allocate
          Addr    \* the page addresses, multiples of PAGE_SIZE

\* Alignments and the page size are powers of two, so the alignment of an
\* object that fits divides the page size.
ASSUME LayoutAssumption ==
  /\ PAGE_SIZE \in Nat \ {0}
  /\ \A T \in Types : T.align \in Nat \ {0} /\ T.size \in Nat /\ T.size % T.align = 0
  /\ \A T \in Types : SIZE_ASSERT(T) => PAGE_SIZE % align_of(T) = 0
  /\ \A a \in Addr : a \in Nat /\ a % PAGE_SIZE = 0

VARIABLES type, addr,  \* the type, and the page
          offset,      \* where the next object goes
          objects,     \* the offsets of the objects so far
          looping

layout_vars == <<type, addr, offset, objects, looping>>

LayoutInit ==
  /\ type \in {t \in Types : SIZE_ASSERT(t)}
  /\ addr \in Addr
  /\ offset = object_offset(type)
  /\ objects = {}
  /\ looping = TRUE

InitObject ==
  /\ looping
  /\ objects' = objects \cup {offset}
  /\ looping' = Room(offset + size_of(type), size_of(type))
  /\ offset' = IF looping' THEN offset + size_of(type) ELSE offset
  /\ UNCHANGED <<type, addr>>

LayoutSpec == LayoutInit /\ [][InitObject]_layout_vars

-----------------------------------------------------------------------------

\* The payload alloc returns for the object at o.
Payload(o) == addr + o + payload_offset(type)

\* Every pointer alloc can return is aligned for the type, lies in the page
\* with at least a redzone on either side of it, before the next object's
\* header and behind the page's, and dealloc gets from it to its object and
\* its page; the loop ends with the objects Slab lists.
PayloadsSound ==
  /\ \A o \in objects :
       /\ Payload(o) % type.align = 0
       /\ (addr + o) % align_of(type) = 0
       /\ o >= PageHeader.size /\ o + size_of(type) <= PAGE_SIZE
       /\ \A q \in objects : o < q => o + size_of(type) <= q
       /\ page_from_object(Payload(o) - payload_offset(type)) = addr
  /\ redzone1_size(type) >= REDZONE_SIZE /\ redzone2_size(type) >= REDZONE_SIZE
  /\ ~ looping => objects = Offsets(object_offset(type), size_of(type))

=============================================================================
