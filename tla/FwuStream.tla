------------------------------ MODULE FwuStream ------------------------------
(***************************************************************************)
(* The two loops that move an image through the shared buffer in pieces,   *)
(* fwu_read_stream() and fwu_write_stream() of fwu_arm_psa.c (U-Boot of    *)
(* Corstone-1000, patches 0011 and 0012), with the checks that keep the    *)
(* client inside its buffers.                                              *)
(*                                                                         *)
(* A byte is named after its place in the image, 1 the first; 0 is a byte  *)
(* nobody has written.  The functions are called any number of times, each *)
(* time with an agent that plays by the rules or one that answers anything.*)
(* The sums of the code are of u32, and small: they do not wrap.           *)
(*                                                                         *)
(* When they may be called is the caller's business: FwuBufferUse composes *)
(* this module with FwuSharedBuffer.                                       *)
(***************************************************************************)
EXTENDS Integers

CONSTANTS
    MaxSize,   \* bound: sizes are 0..MaxSize
    Room       \* FWU_BUFFER_SIZE less the fixed part of the message

ASSUME SizesAssumption == MaxSize \in Nat \ {0} /\ Room \in 1..MaxSize

Sizes == 0..MaxSize
LeastOf(m, n) == IF m <= n THEN m ELSE n

VARIABLES
    op,       \* the function that was called
    honest,   \* does the agent play by the rules?
    max,      \* g_max_payload_size, as FWU_DISCOVER reported it
    size,     \* buffer_size or payload_size
    image,    \* size of the image the agent has, when reading
    dest,     \* the destination: the buffer, or the image the agent holds
    offset,   \* curr_read_offset or curr_write_offset
    sent,     \* bytes the agent has sent of the image, when reading
    chunk,    \* bytes moved by the last call
    ret       \* "none" until the function returns

streamVars == <<op, honest, max, size, image, dest, offset, sent, chunk, ret>>
inputs == <<op, honest, max, size, image>>

StreamTypeOK ==
    /\ op \in {"read", "write"} /\ honest \in BOOLEAN
    /\ max \in Sizes /\ size \in Sizes /\ image \in Sizes
    /\ dest \in [1..size -> 0..(2 * MaxSize)]
    /\ offset \in Sizes /\ sent \in 0..(2 * MaxSize) /\ chunk \in Sizes
    /\ ret \in {"none", "ok", "error"}

StreamInit ==
    /\ op = "read" /\ honest = TRUE
    /\ max = 0 /\ size = 0 /\ image = 0
    /\ dest = <<>>
    /\ offset = 0 /\ sent = 0 /\ chunk = 0
    /\ ret = "error"

\* FWU_DISCOVER reports max_payload_size, which nothing checks.
Discovered ==
    /\ max' \in Sizes
    /\ UNCHANGED <<op, honest, size, image, dest, offset, sent, chunk, ret>>

Streaming == ret = "none"

\* A call of one of the functions.  A size of 0 is refused before the first ABI.
CallStream ==
    /\ ~Streaming
    /\ op' \in {"read", "write"} /\ honest' \in BOOLEAN
    /\ size' \in Sizes
    /\ image' \in IF op' = "read" THEN Sizes ELSE {0}
    /\ dest' = [n \in 1..size' |-> 0]
    /\ offset' = 0 /\ sent' = 0 /\ chunk' = 0
    /\ ret' = IF size' = 0 THEN "error" ELSE "none"
    /\ UNCHANGED max

\* Mutant: the bytes come from the start of the image.
CopiedFromStart(from, n) ==
    [b \in DOMAIN dest |->
        IF b \in (offset + 1)..(offset + n) THEN b - offset ELSE dest[b]]

\* n bytes of the image, from the one after "from" on, are copied to where the
\* offset points to.
Copied(from, n) ==
    [b \in DOMAIN dest |->
        IF b \in (offset + 1)..(offset + n) THEN from + (b - offset) ELSE dest[b]]

Fails == ret' = "error" /\ UNCHANGED <<inputs, dest, offset, sent, chunk>>

-----------------------------------------------------------------------------
(***************************************************************************)
(* fwu_read_stream(): read_bytes and total_bytes are the agent's.          *)
(***************************************************************************)
\* Mutant: what earlier calls have read is left out of the last check.
AcceptableAlone(read, total) ==
    /\ read <= max
    /\ read <= Room
    /\ read <= size

Acceptable(read, total) ==
    /\ read <= max
    /\ read <= Room
    /\ total <= size
    /\ offset + read <= size

\* What an agent that plays by the rules answers.
ByTheRules(read, total) ==
    /\ total = image
    /\ read <= LeastOf(max, image - sent)
    /\ read = 0 => max = 0 \/ image = sent

ReadChunk ==
    /\ op = "read" /\ Streaming
    /\ \E read, total \in Sizes :
         /\ honest => ByTheRules(read, total)
         /\ Acceptable(read, total)
         /\ dest' = Copied(sent, read)
         /\ offset' = offset + read
         /\ sent' = IF honest THEN sent + read ELSE sent
         /\ chunk' = read
         /\ ret' = IF offset' > total THEN "error"
                   ELSE IF offset' = total THEN "ok" ELSE "none"
    /\ UNCHANGED inputs

ReadUnacceptable ==
    /\ op = "read" /\ Streaming
    /\ \E read, total \in Sizes :
         /\ honest => ByTheRules(read, total)
         /\ ~Acceptable(read, total)
    /\ Fails

-----------------------------------------------------------------------------
(***************************************************************************)
(* fwu_write_stream(): the client decides how much is written.             *)
(***************************************************************************)
\* Mutant: every piece has the maximal size, also the last.
WriteMaximal == LeastOf(max, Room)

WriteSize == LeastOf(size - offset, LeastOf(max, Room))

\* Mutant: curr_write_offset is not advanced.
WriteSamePlace ==
    /\ op = "write" /\ Streaming
    /\ dest' = Copied(offset, WriteSize)
    /\ chunk' = WriteSize
    /\ ret' = IF offset + WriteSize < size THEN "none" ELSE "ok"
    /\ UNCHANGED <<inputs, offset, sent>>

WriteChunk ==
    /\ op = "write" /\ Streaming
    /\ dest' = Copied(offset, WriteSize)
    /\ offset' = offset + WriteSize
    /\ chunk' = WriteSize
    /\ ret' = IF offset' < size THEN "none" ELSE "ok"
    /\ UNCHANGED <<inputs, sent>>

\* Any ABI may fail, and the function returns its error.
CallFails == Streaming /\ ~honest /\ Fails

Stream == ReadChunk \/ ReadUnacceptable \/ WriteChunk \/ CallFails

-----------------------------------------------------------------------------
(***************************************************************************)
(* Properties.                                                             *)
(***************************************************************************)
\* Whatever the agent answers, nothing is copied from beyond the shared buffer or
\* to beyond the destination, and no message exceeds what the agent takes.
InBounds ==
    /\ offset <= size
    /\ chunk <= Room
    /\ chunk <= max

\* A function that returns 0 has moved the whole image, each byte to its place.
\* When reading that takes an agent that plays by the rules.
Exact(length) == offset = length /\ \A b \in 1..length : dest[b] = b
TransferIsExact ==
    ret = "ok" =>
      /\ op = "write" => Exact(size)
      /\ op = "read" /\ honest => Exact(image)

\* With an agent that plays by the rules and takes at least one byte at a time,
\* both functions return.
StreamEnds == (Streaming /\ honest /\ max > 0) ~> ~Streaming
===============================================================================
