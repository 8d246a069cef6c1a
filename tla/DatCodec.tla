------------------------------- MODULE DatCodec -------------------------------
(***************************************************************************)
(* The keys under which hamcall.dat is enciphered.  The lookups decode a   *)
(* slice of the file chunk by chunk with a phase (v2_dat.rs), the scans    *)
(* byte by byte with the position (decode_dat_byte of db.rs).  A byte is   *)
(* decoded by two exclusive ors, so that the two ways agree on a byte      *)
(* exactly when they use the same key for it.                              *)
(***************************************************************************)
EXTENDS Integers, Sequences

CONSTANTS SliceOffsets, SliceLength  \* where slices begin, and a length of slices (bounds)

ASSUME OffsetsAssumption == SliceOffsets \subseteq Nat /\ SliceLength \in Nat

\* decode_dat_byte: the key of the byte at this offset.
decode_dat_byte(offset) == (offset + 4) % 101

phase_for_dat_offset(dat_offset) == ((dat_offset % 101) * 2 + 3) % 101

\* Of Euclid: of a negative number as well.
FirstKey(dat_offset, phase) == (1 - dat_offset + phase) % 101

\* Deviation: the chunks are as long as the cycle.
FullChunk(key, remaining) == IF remaining < 101 THEN remaining ELSE 101

\* As many bytes as there are keys to the end of the cycle, or bytes.
ChunkLength(key, remaining) == IF 101 - key < remaining THEN 101 - key ELSE remaining

Chunk(key, length) == [i \in 1..length |-> key + i - 1]

\* The keys of `length' bytes: behind a chunk the cycle begins again.
decode_phase_into(dat_offset, phase, length) ==
    LET Keys[loop \in [key : 0..100, remaining : 0..length]] ==
            IF loop.remaining = 0 THEN <<>>
            ELSE LET n == ChunkLength(loop.key, loop.remaining)
                 IN Chunk(loop.key, n) \o Keys[[key |-> 0, remaining |-> loop.remaining - n]]
    IN Keys[[key |-> FirstKey(dat_offset, phase), remaining |-> length]]

\* A slice and a scan read the same bytes from the same place of the file, wherever the
\* slice begins and however many chunks it takes.
SliceKeysAreByteKeys ==
    \A offset \in SliceOffsets :
        decode_phase_into(offset, phase_for_dat_offset(offset), SliceLength)
            = [i \in 1..SliceLength |-> decode_dat_byte(offset + i - 1)]
=============================================================================
