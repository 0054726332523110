---------------------------- MODULE MemoryStream ----------------------------
(* utils/memorystream.c as operators on a record.  buffer is what has been   *)
(* written, max the room AdrenoRealloc was asked for: bytes behind it are    *)
(* lost to the stream.                                                       *)
EXTENDS Integers, Sequences

CONSTANT Expansion   \* ms->expansionFactor: 100

ASSUME MemoryStreamAssumption == Expansion \in Nat \ {0}

\* AdrenoMS_Open, and AdrenoMS_Close.
Open == [buffer |-> <<>>, position |-> 0, size |-> 0, max |-> 0]

\* Fault: no room for what exceeds the last full chunk.
RoomTruncated(size) == (size \div Expansion) * Expansion

Room(size) == (size \div Expansion + 1) * Expansion

\* AdrenoMS_Write.
Write(ms, bytes) ==
    LET end == ms.position + Len(bytes)
        size == IF end > ms.size THEN end ELSE ms.size
        max == IF size > ms.size /\ size > ms.max THEN Room(size) ELSE ms.max
        kept == IF size <= max THEN size ELSE max
    IN  [buffer |-> [i \in 1..kept |->
                       IF i \in ms.position + 1 .. end THEN bytes[i - ms.position]
                       ELSE ms.buffer[i]],
         position |-> end,
         size |-> size,
         max |-> max]

\* AdrenoMS_Read: what is left is less than asked for; the position stays.
Read(ms, n) ==
    SubSeq(ms.buffer, ms.position + 1,
           IF ms.position + n > ms.size THEN ms.size ELSE ms.position + n)

\* AdrenoMS_Seek: the offset is unsigned and wraps, so a place before the
\* stream is refused as one behind it; so is the end itself.
Seek(ms, origin, offset) ==
    LET to == offset + (CASE origin = 0 -> 0
                          [] origin = 1 -> ms.position
                          [] origin = 2 -> ms.size)
    IN  IF to \in 0..(ms.size - 1) THEN [ms EXCEPT !.position = to] ELSE ms

Clone(ms) == ms.buffer
=============================================================================
