----------------------------- MODULE SlabObject -----------------------------
(***************************************************************************)
(* The layout of slab_alloc/src/lib.rs: where SlotObject<T> keeps its      *)
(* header, redzones and payload, for a type T of a given size and          *)
(* alignment, and where SlotPage<T> keeps its objects.                     *)
(***************************************************************************)
EXTENDS Integers

CONSTANT PAGE_SIZE

REDZONE_SIZE == 16

\* size_of and align_of of the repr(C) structs SlotObject and SlotPage.
ObjectHeader == [size |-> 4, align |-> 2]
PageHeader == [size |-> 24, align |-> 8]

\* The mask arithmetic, for an align that is a power of two.
align_ceil(x, align) == ((x + align - 1) \div align) * align

align_of(T) == IF ObjectHeader.align > T.align THEN ObjectHeader.align ELSE T.align

redzone1_offset == ObjectHeader.size

payload_offset(T) == align_ceil(redzone1_offset + REDZONE_SIZE, T.align)
redzone1_size(T) == payload_offset(T) - redzone1_offset
redzone2_offset(T) == payload_offset(T) + T.size
size_of(T) == align_ceil(redzone2_offset(T) + REDZONE_SIZE, align_of(T))
redzone2_size(T) == size_of(T) - redzone2_offset(T)

object_offset(T) == align_ceil(PageHeader.size, align_of(T))

SIZE_ASSERT(T) == object_offset(T) + size_of(T) <= PAGE_SIZE

page_from_object(obj_addr) == (obj_addr \div PAGE_SIZE) * PAGE_SIZE

\* Fault seed: an object may begin anywhere in the page.
RoomToBegin(next_offset, obj_size) == next_offset < PAGE_SIZE

\* The condition under which SlotPage::init goes on to another object.
Room(next_offset, obj_size) == next_offset + obj_size < PAGE_SIZE

\* The offsets the loop of SlotPage::init visits: the first one, then each
\* that leaves something behind its object.
Offsets(first, obj_size) ==
  {first} \cup {first + k * obj_size : k \in 0 .. (PAGE_SIZE - first - 1) \div obj_size - 1}

=============================================================================
