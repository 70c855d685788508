------------------------------ MODULE IoBuffer ------------------------------
(***************************************************************************)
(* toolkit::io_buffer (src/toolkit/buffer.cpp, include/pump/toolkit/       *)
(* buffer.h): a growing array with a read position, shared by counted      *)
(* references and by shared_buffer handles.  Every byte written is its     *)
(* number in the order of writing, so that "what is read is what was       *)
(* written, in order" is a statement about numbers.  uint32_t arithmetic   *)
(* wraps at Modulus.  Allocations succeed.                                 *)
(***************************************************************************)
EXTENDS Integers, FiniteSets

CONSTANTS Modulus,    \* 2^32
          Limit,      \* bytes a user keeps in one buffer at most
          MaxWritten, \* bound: bytes written in all
          Handles,    \* shared_buffer objects
          MaxOwners   \* bound: counted references held without a handle

\* Assumed of the constants.
BufferAssumption ==
    /\ Modulus \in Nat /\ Limit \in Nat \ {0}
    /\ 3 * Limit < Modulus
    /\ MaxWritten \in Nat /\ MaxOwners \in Nat
    /\ IsFiniteSet(Handles)

VARIABLES
    alloced,          \* alloced_
    raw, rawSize,     \* raw_, raw_size_ (0 for no memory)
    rpos, size,       \* rpos_, size_
    count,            \* count_
    freed,            \* the object is destroyed
    written, taken,   \* history: bytes written so far; bytes before data()
    owners,           \* history: references held through io_buffer *
    handles           \* history: the handles that hold the buffer

memory == <<alloced, raw, rawSize>>
content == <<alloced, raw, rawSize, rpos, size, written, taken>>
references == <<count, freed, owners, handles>>
vars == <<alloced, raw, rawSize, rpos, size, count, freed, written, taken,
          owners, handles>>

Junk == -1

\* uint32_t sums: the operands are below Modulus, a sum below twice that.
Wrap(n) == IF n < Modulus THEN n ELSE n - Modulus

\* create, create_by_copy and create_by_reference.
Init ==
    /\ \E n \in 0 .. Limit : \E m \in {0, n} :
        /\ rawSize = n /\ size = m
        /\ raw = [i \in 0 .. n - 1 |-> IF i < m THEN i ELSE Junk]
        /\ written = m
        /\ alloced \in IF m = n THEN BOOLEAN ELSE {TRUE}
    /\ rpos = 0 /\ taken = 0
    /\ count = 1 /\ freed = FALSE /\ owners = 1 /\ handles = {}

-----------------------------------------------------------------------------
(* write, read, shift, clear and the two resets.                           *)

\* Mutant: the new size is made from the old one alone.
NewSizeSmall(n) == Wrap((rawSize \div 2) * 3)

NewSize(n) == Wrap((Wrap(rawSize + n) \div 2) * 3)

\* Mutant: the data is not moved.
RoomUnmoved(p, s, n) ==
    LET cap == IF rawSize = 0 THEN n ELSE rawSize
    IN  IF n <= cap - p - s
        THEN [memory |-> cap, from |-> 0, keep |-> rawSize, pos |-> p, len |-> s]
        ELSE IF Wrap(n + s) < cap
        THEN [memory |-> cap, from |-> 0, keep |-> rawSize, pos |-> 0, len |-> s]
        ELSE [memory |-> NewSize(n), from |-> 0, keep |-> rawSize, pos |-> p, len |-> s]

\* Where n bytes go when s bytes of data are at position p: the memory, the
\* part of the old one that is kept, and the position of the data.  There may
\* be no memory yet; all of it may have been read; it may have enough behind
\* the data; the data may be moved to the front; or the memory grows.
Room(p, s, n) ==
    LET cap == IF rawSize = 0 THEN n ELSE rawSize
        pos == IF p = cap THEN 0 ELSE p
        len == IF p = cap THEN 0 ELSE s
    IN  IF n <= cap - pos - len
        THEN [memory |-> cap, from |-> 0, keep |-> rawSize, pos |-> pos, len |-> len]
        ELSE IF Wrap(n + len) < cap
        THEN [memory |-> cap, from |-> pos, keep |-> len, pos |-> 0, len |-> len]
        ELSE [memory |-> NewSize(n), from |-> 0, keep |-> rawSize, pos |-> pos, len |-> len]

\* The bytes are copied behind the data.
PutAt(room, n) ==
    /\ rawSize' = room.memory
    /\ raw' = [i \in 0 .. room.memory - 1 |->
                 IF room.pos + room.len <= i /\ i < room.pos + room.len + n
                 THEN written + (i - room.pos - room.len)
                 ELSE IF i < room.keep THEN raw[room.from + i] ELSE Junk]
    /\ rpos' = room.pos /\ size' = room.len + n
    /\ written' = written + n

\* The buffer belongs to whoever calls; a user keeps no more than Limit bytes.
Usable == ~freed /\ (owners > 0 \/ handles # {})
Fits(n) == written + n <= MaxWritten

Write(n) ==
    /\ Usable /\ alloced /\ Fits(n) /\ size + n <= Limit
    /\ PutAt(Room(rpos, size, n), n)
    /\ UNCHANGED <<alloced, taken, references>>

\* The overload that writes one byte n times has its room made alike.
WriteRepeated(n) == Write(n)

Read(n) ==
    /\ Usable /\ n <= size
    /\ rpos' = rpos + n /\ size' = size - n
    /\ taken' = taken + n
    /\ UNCHANGED <<memory, written, references>>

\* To the right over data, to the left over what was read; otherwise -1.
Shift(k) ==
    /\ Usable /\ (IF k > 0 THEN k <= size ELSE -k <= rpos)
    /\ rpos' = rpos + k /\ size' = size - k /\ taken' = taken + k
    /\ UNCHANGED <<memory, written, references>>

Clear ==
    /\ Usable
    /\ rpos' = 0 /\ size' = 0 /\ taken' = written
    /\ UNCHANGED <<memory, written, references>>

\* clear, then write.
ResetByCopy(n) ==
    /\ Usable /\ alloced /\ Fits(n)
    /\ PutAt(Room(0, 0, n), n)
    /\ taken' = written
    /\ UNCHANGED <<alloced, references>>

ResetByReference(n) ==
    /\ Usable /\ ~alloced /\ Fits(n)
    /\ rawSize' = n /\ rpos' = 0 /\ size' = n
    /\ raw' = [i \in 0 .. n - 1 |-> written + i]
    /\ written' = written + n /\ taken' = written
    /\ UNCHANGED <<alloced, references>>

-----------------------------------------------------------------------------
(* References.  A handle made from an io_buffer * takes over the           *)
(* reference it is given; a copy of a handle and an assignment add one.    *)

Refer ==
    /\ Usable /\ owners < MaxOwners
    /\ count' = count + 1 /\ owners' = owners + 1
    /\ UNCHANGED <<content, freed, handles>>

Dropped ==
    /\ count' = count - 1
    /\ freed' = (count = 1)

Unrefer ==
    /\ ~freed /\ owners > 0
    /\ Dropped /\ owners' = owners - 1
    /\ UNCHANGED <<content, handles>>

HandleTakes(h) ==
    /\ ~freed /\ owners > 0 /\ h \notin handles
    /\ owners' = owners - 1 /\ handles' = handles \cup {h}
    /\ UNCHANGED <<content, count, freed>>

HandleCopied(h) ==
    /\ ~freed /\ handles # {} /\ h \notin handles
    /\ count' = count + 1 /\ handles' = handles \cup {h}
    /\ UNCHANGED <<content, freed, owners>>

\* Mutant: the assigned pointer is not referred to.
HandleAssignedFree(h) ==
    /\ ~freed /\ owners > 0 /\ h \notin handles
    /\ handles' = handles \cup {h}
    /\ UNCHANGED <<content, count, freed, owners>>

\* operator=(io_buffer *): the caller keeps its own reference.
HandleAssigned(h) ==
    /\ ~freed /\ owners > 0 /\ h \notin handles
    /\ count' = count + 1 /\ handles' = handles \cup {h}
    /\ UNCHANGED <<content, freed, owners>>

\* The destructor, and the assignment of another buffer.
HandleDropped(h) ==
    /\ ~freed /\ h \in handles
    /\ Dropped /\ handles' = handles \ {h}
    /\ UNCHANGED <<content, owners>>

-----------------------------------------------------------------------------
Next ==
    \/ \E n \in 1 .. Limit :
        Write(n) \/ WriteRepeated(n) \/ Read(n) \/ ResetByCopy(n) \/ ResetByReference(n)
    \/ \E k \in -Limit .. Limit : Shift(k)
    \/ Clear \/ Refer \/ Unrefer
    \/ \E h \in Handles :
        HandleTakes(h) \/ HandleCopied(h) \/ HandleAssigned(h) \/ HandleDropped(h)

Spec == Init /\ [][Next]_vars

-----------------------------------------------------------------------------
(* Properties.                                                             *)

TypeOK ==
    /\ alloced \in BOOLEAN /\ freed \in BOOLEAN
    /\ rawSize \in Nat /\ rpos \in Nat /\ size \in Nat
    /\ raw \in [0 .. rawSize - 1 -> Int]
    /\ written \in Nat /\ taken \in Nat /\ owners \in Nat /\ count \in Nat
    /\ handles \subseteq Handles

\* The data lies inside the memory, so that raw_size_ - rpos_ - size_ does not
\* wrap and memcpy stays inside, and the memory is at most three times what
\* the user keeps, so that the new size does not wrap either
\* (buffer.cpp:103-127).
InBounds == rpos + size <= rawSize /\ rawSize <= 3 * Limit

\* data() is what was written and not yet taken, in order, and what was taken
\* since the data was last moved is still in front of it, where shift to the
\* left finds it (buffer.cpp: write, read, shift).
ContentInOrder ==
    /\ written = taken + size
    /\ \A i \in 0 .. rpos + size - 1 : raw[i] = taken - rpos + i

\* Types and both, of every buffer (buffer.cpp: write, read, shift, reset).
BufferContent == TypeOK /\ InBounds /\ ContentInOrder

\* count_ is the number of references: unrefer destroys the buffer with the
\* last one and never finds the count below one (buffer.cpp:260, buffer.h:239).
BufferReferences ==
    /\ count = owners + Cardinality(handles)
    /\ freed <=> count = 0
=============================================================================
