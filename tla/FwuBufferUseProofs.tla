------------------------- MODULE FwuBufferUseProofs -------------------------
(***************************************************************************)
(* The shared buffer and the streams that use it, for any number of runs   *)
(* of fwu_agent_init(), any sizes and any answers: first who owns the      *)
(* buffer (FwuSharedBuffer), then what goes through it (FwuBufferUse).     *)
(***************************************************************************)
EXTENDS FwuBufferUse, TLAPS

-----------------------------------------------------------------------------
(***************************************************************************)
(* The inductive invariant.  A run of fwu_agent_init() is under way at     *)
(* these steps; it holds a buffer from its allocation on.                  *)
(***************************************************************************)
Holding == {"share", "retrieve", "discover", "event", "reclaim"}
InRun == Holding \cup {"find", "alloc"}

\* A run is only started as long as none has succeeded, and nothing but a start
\* payload ahead of the initialisation finds no buffer.
Runs ==
    /\ pc \in InRun => ~initialized /\ attempt > 0
    /\ pc = "crashed" => ~initialized
    /\ ~initialized => events = 0

\* g_fwu_buf is the buffer of the run under way, or of the one that succeeded,
\* and the allocator has given out that one alone.
Owned ==
    /\ pc \in Holding => buf = attempt
    /\ buf # 0 <=> pc \in Holding \/ initialized
    /\ allocated = IF buf = 0 THEN {} ELSE {buf}

\* Only buffers of earlier runs have been freed: the run under way is the latest.
Latest ==
    /\ \A b \in freed : b <= attempt
    /\ pc \in InRun => attempt \notin freed
    /\ buf \notin freed

\* How far the sharing has got.
Shared ==
    /\ pc \in {"retrieve", "discover", "event"} => buf \in lent
    /\ pc \in {"discover", "event"} => buf \in mapped
    /\ pc \in Holding \cup {"alloc"} => sp \in Sps /\ answers[sp] = "service"
    /\ initialized => /\ buf \in lent \cap mapped
                      /\ sp \in Sps /\ answers[sp] = "service"
                      /\ events = 1

Inv == TypeOK /\ Runs /\ Owned /\ Latest /\ Shared

-----------------------------------------------------------------------------
\* Nothing has been allocated before the first run.
LEMMA InvInit == Init => Inv
<1> SUFFICES ASSUME Init PROVE Inv
    OBVIOUS
<1> USE BoundsAssumption DEF Init, Buffers, Sps
<1>1. TypeOK
  <2>1. attempt \in 0..MaxAttempts /\ events \in Nat
    OBVIOUS
  <2>2. initialized \in BOOLEAN
    OBVIOUS
  <2>3. QED
    BY <2>1, <2>2 DEF TypeOK
<1>2. Runs /\ Owned /\ Latest /\ Shared
    BY DEF Runs, Owned, Latest, Shared, InRun, Holding
<1>3. QED
    BY <1>1, <1>2 DEF Inv

\* Every step of fwu_agent_init() and of the users of the buffer keeps it.
LEMMA InvNext == Inv /\ [Next]_vars => Inv'
<1> SUFFICES ASSUME Inv, [Next]_vars PROVE Inv'
    OBVIOUS
<1> USE BoundsAssumption DEF Inv, TypeOK, Runs, Owned, Latest, Shared, InRun,
        Holding, Buffers, Sps, bufferVars
<1>1. CASE AgentInit
    BY <1>1 DEF AgentInit
<1>2. CASE FindPartition
    BY <1>2 DEF FindPartition, Chosen
<1>3. CASE NoPartition
    BY <1>3 DEF NoPartition
<1>4. CASE AllocBuffer
    BY <1>4 DEF AllocBuffer
<1>5. CASE ShareBuffer
  <2>1. pc = "share" /\ buf = attempt /\ buf # 0 /\ allocated = {buf}
        /\ UNCHANGED <<answers, sp, attempt, mapped, events, initialized>>
    BY <1>5 DEF ShareBuffer
  <2>2. CASE lent' = lent \cup {buf} /\ pc' = "retrieve"
             /\ UNCHANGED <<buf, allocated, freed>>
    BY <2>1, <2>2
  <2>3. CASE Free /\ pc' = "idle" /\ UNCHANGED lent
    <3>1. buf' = 0 /\ allocated' = {} /\ freed' = freed \cup {attempt}
      BY <2>1, <2>3 DEF Free
    <3>2. QED
      BY <2>1, <2>3, <3>1
  <2>4. QED
    BY <1>5, <2>2, <2>3 DEF ShareBuffer
<1>6. CASE RetrieveBuffer
    BY <1>6 DEF RetrieveBuffer
<1>7. CASE ReclaimBuffer
    BY <1>7 DEF ReclaimBuffer, Free
<1>8. CASE Discover
    BY <1>8 DEF Discover
<1>9. CASE SetupAcceptEvent
  <2>1. /\ pc = "event" /\ buf # 0 /\ ~initialized /\ events = 0
        /\ buf \in lent \cap mapped
        /\ sp \in Sps /\ answers[sp] = "service"
        /\ UNCHANGED <<answers, sp, attempt, buf, allocated, freed, lent, mapped>>
    BY <1>9 DEF SetupAcceptEvent
  <2>2. CASE events' = events + 1 /\ initialized' = TRUE /\ pc' = "idle"
    <3>1. TypeOK' /\ Runs' /\ Owned' /\ Latest'
      BY <2>1, <2>2
    <3>2. Shared'
      BY <2>1, <2>2
    <3>3. QED
      BY <3>1, <3>2
  <2>3. CASE pc' = "reclaim" /\ UNCHANGED <<events, initialized>>
    BY <2>1, <2>3
  <2>4. QED
    BY <1>9, <2>2, <2>3 DEF SetupAcceptEvent
<1>10. CASE BeginStaging
    BY <1>10 DEF BeginStaging
<1>11. CASE ExitBootServices
    BY <1>11 DEF ExitBootServices
<1>12. CASE UNCHANGED vars
    BY <1>12 DEF vars
<1>13. QED
    BY <1>1, <1>2, <1>3, <1>4, <1>5, <1>6, <1>7, <1>8, <1>9, <1>10, <1>11, <1>12
       DEF Next

(***************************************************************************)
(* fwu_agent_init() succeeds with a buffer that is lent and mapped, and    *)
(* with one acceptance handler; when it fails it leaks nothing; and no     *)
(* buffer is used after it was freed.                                      *)
(***************************************************************************)
THEOREM BufferIsOwned ==
    Spec => [](TypeOK /\ InitializedHasBuffer /\ NothingLeaks /\ NoUseAfterFree)
<1>1. Inv => TypeOK /\ InitializedHasBuffer /\ NothingLeaks /\ NoUseAfterFree
    BY DEF Inv, TypeOK, Runs, Owned, Latest, Shared, InRun, Holding,
       InitializedHasBuffer, NothingLeaks, NoUseAfterFree
<1>2. QED
    BY <1>1, InvInit, InvNext, PTL DEF Spec

-----------------------------------------------------------------------------
(***************************************************************************)
(* The inductive invariant of the streams.                                 *)
(***************************************************************************)
\* Nothing has been moved before the agent is initialised, so the discovery that
\* sets the limit comes before every piece that must keep to it.
NothingMoved == ~initialized => chunk = 0 /\ ret # "none"

\* Each byte up to the offset is in its place; when reading, the agent and the
\* client agree how far they are.
Placed ==
    /\ sent <= image
    /\ op = "read" /\ honest => sent = offset
    /\ op = "write" \/ honest => \A b \in 1..offset : dest[b] = b

\* What a 0 says of the offset.
Complete ==
    ret = "ok" =>
      /\ op = "write" => offset = size
      /\ op = "read" /\ honest => offset = image

StreamInv == StreamTypeOK /\ InBounds /\ Placed /\ Complete

UseInv == Inv /\ StreamInv /\ NothingMoved

-----------------------------------------------------------------------------
\* Nothing has happened.
LEMMA UseInvInit == UseInit => UseInv
<1> SUFFICES ASSUME UseInit PROVE UseInv
    OBVIOUS
<1>1. Inv
    BY InvInit DEF UseInit
<1>2. StreamInv /\ NothingMoved
    BY SizesAssumption DEF UseInit, StreamInit, StreamInv, StreamTypeOK, InBounds,
       NothingMoved, Placed, Complete, Sizes
<1>3. QED
    BY <1>1, <1>2 DEF UseInv

\* A step of fwu_agent_init() or of another user of the buffer: no stream runs.
LEMMA UseInvManage == UseInv /\ Manage => UseInv'
<1> SUFFICES ASSUME UseInv, Manage PROVE UseInv'
    OBVIOUS
<1>1. Inv'
    BY InvNext DEF UseInv, Manage
<1>2. ~Streaming /\ StreamInv
    BY DEF Manage, UseInv
<1>3. CASE UNCHANGED streamVars
  <2>1. initialized => initialized'
    BY DEF Manage, Next, AgentInit, FindPartition, NoPartition, AllocBuffer,
       ShareBuffer, RetrieveBuffer, ReclaimBuffer, Discover, SetupAcceptEvent,
       BeginStaging, ExitBootServices
  <2>2. StreamInv' /\ NothingMoved'
    BY <1>2, <1>3, <2>1 DEF UseInv, StreamInv, StreamTypeOK, InBounds, NothingMoved, Placed,
       Complete, streamVars
  <2>3. QED
    BY <1>1, <2>2 DEF UseInv
<1>4. CASE pc = "discover" /\ Discovered
  <2>1. chunk = 0 /\ ~initialized /\ ret # "none"
    BY <1>2, <1>4 DEF UseInv, Inv, Runs, InRun, Holding, NothingMoved
  <2>2. StreamInv' /\ NothingMoved'
    BY <1>2, <1>4, <2>1, SizesAssumption DEF Discovered, StreamInv, StreamTypeOK,
       InBounds, NothingMoved, Placed, Complete, Sizes
  <2>3. QED
    BY <1>1, <2>2 DEF UseInv
<1>5. QED
    BY <1>3, <1>4 DEF Manage

\* A call finds its arguments in bounds, and nothing moved yet.
LEMMA UseInvStart == UseInv /\ StartStream => UseInv'
<1> SUFFICES ASSUME UseInv, StartStream PROVE UseInv'
    OBVIOUS
<1>1. Inv'
    BY InvNext DEF UseInv, StartStream
<1>2. StreamInv' /\ NothingMoved'
    BY SizesAssumption DEF StartStream, CallStream, UseInv, StreamInv, StreamTypeOK,
       InBounds, NothingMoved, Placed, Complete, Sizes, vars
<1>3. QED
    BY <1>1, <1>2 DEF UseInv

-----------------------------------------------------------------------------
\* n bytes of the image from the one after the offset on, put at the offset, leave
\* every byte up to the new offset in its place.
LEMMA CopiedInPlace ==
    ASSUME StreamTypeOK, NEW n \in Nat, offset + n <= size,
           \A b \in 1..offset : dest[b] = b
    PROVE  \A b \in 1..(offset + n) : Copied(offset, n)[b] = b
BY SizesAssumption DEF Copied, StreamTypeOK, Sizes

\* The type of a copy.
LEMMA CopiedType ==
    ASSUME StreamTypeOK, NEW from \in 0..MaxSize, NEW n \in Sizes
    PROVE  Copied(from, n) \in [1..size -> 0..(2 * MaxSize)]
BY SizesAssumption DEF Copied, StreamTypeOK, Sizes

\* A piece that is read is acceptable, whatever the agent says it is.
LEMMA ReadChunkInv == StreamInv /\ ReadChunk => StreamInv'
<1> SUFFICES ASSUME StreamInv, ReadChunk PROVE StreamInv'
    OBVIOUS
<1> USE SizesAssumption DEF StreamInv
<1>1. PICK read \in Sizes, total \in Sizes :
        /\ honest => ByTheRules(read, total)
        /\ Acceptable(read, total)
        /\ dest' = Copied(sent, read)
        /\ offset' = offset + read
        /\ sent' = IF honest THEN sent + read ELSE sent
        /\ chunk' = read
        /\ ret' = IF offset' > total THEN "error"
                  ELSE IF offset' = total THEN "ok" ELSE "none"
    BY DEF ReadChunk
<1>2. op = "read" /\ ret = "none" /\ UNCHANGED inputs
    BY DEF ReadChunk, Streaming
<1>3. /\ op \in {"read", "write"} /\ honest \in BOOLEAN
      /\ max \in 0..MaxSize /\ size \in 0..MaxSize /\ image \in 0..MaxSize
      /\ offset \in 0..MaxSize /\ sent \in 0..(2 * MaxSize)
      /\ read \in 0..MaxSize /\ total \in 0..MaxSize
      /\ sent <= image
    BY DEF StreamTypeOK, Sizes, Placed
<1>4. read <= max /\ read <= Room /\ total <= size /\ offset + read <= size
    BY <1>1 DEF Acceptable
<1>5. honest => sent + read <= image /\ total = image /\ sent = offset
    BY <1>1, <1>2, <1>3 DEF ByTheRules, LeastOf, Placed
<1>6. sent' <= image' /\ sent' \in 0..(2 * MaxSize) /\ offset' \in 0..MaxSize
    BY <1>1, <1>2, <1>3, <1>4, <1>5 DEF inputs
<1>7. dest' \in [1..size -> 0..(2 * MaxSize)]
  <2>1. StreamTypeOK /\ sent \in 0..MaxSize /\ read \in Sizes
    BY <1>3 DEF Sizes
  <2>2. Copied(sent, read) \in [1..size -> 0..(2 * MaxSize)]
    BY <2>1, CopiedType
  <2>3. QED
    BY <1>1, <2>2
<1>8. StreamTypeOK'
    BY <1>1, <1>2, <1>3, <1>6, <1>7 DEF StreamTypeOK, Sizes, inputs
<1>9. InBounds'
    BY <1>1, <1>2, <1>3, <1>4 DEF InBounds, inputs
<1>10. Placed'
  <2>1. CASE honest
    <3>1. \A b \in 1..offset : dest[b] = b
      BY <2>1 DEF Placed
    <3>2. \A b \in 1..(offset + read) : Copied(offset, read)[b] = b
      BY <1>3, <1>4, <3>1, CopiedInPlace
    <3>3. QED
      BY <1>1, <1>2, <1>5, <1>6, <2>1, <3>2 DEF Placed, inputs
  <2>2. CASE ~honest
    BY <1>2, <1>6, <2>2 DEF Placed, inputs
  <2>3. QED
    BY <2>1, <2>2
<1>11. Complete'
    BY <1>1, <1>2, <1>5 DEF Complete, inputs
<1>12. QED
    BY <1>8, <1>9, <1>10, <1>11

\* A piece that is written is the client's own, the last one smaller.
LEMMA WriteChunkInv == StreamInv /\ WriteChunk => StreamInv'
<1> SUFFICES ASSUME StreamInv, WriteChunk PROVE StreamInv'
    OBVIOUS
<1> USE SizesAssumption DEF StreamInv
<1>1. /\ op = "write" /\ ret = "none" /\ UNCHANGED <<inputs, sent>>
      /\ dest' = Copied(offset, WriteSize)
      /\ offset' = offset + WriteSize
      /\ chunk' = WriteSize
      /\ ret' = IF offset' < size THEN "none" ELSE "ok"
    BY DEF WriteChunk, Streaming
<1>2. /\ max \in 0..MaxSize /\ size \in 0..MaxSize /\ offset \in 0..MaxSize
      /\ offset <= size
    BY DEF StreamTypeOK, Sizes, InBounds
<1>3. /\ WriteSize \in 0..MaxSize
      /\ WriteSize <= size - offset /\ WriteSize <= max /\ WriteSize <= Room
    BY <1>2 DEF WriteSize, LeastOf
<1>4. offset' \in 0..MaxSize /\ offset' <= size
    BY <1>1, <1>2, <1>3
<1>5. dest' \in [1..size -> 0..(2 * MaxSize)]
    BY <1>1, <1>2, <1>3, CopiedType DEF Sizes
<1>6. StreamTypeOK'
    BY <1>1, <1>3, <1>4, <1>5 DEF StreamTypeOK, Sizes, inputs
<1>7. InBounds'
    BY <1>1, <1>3, <1>4 DEF InBounds, inputs
<1>8. Placed'
  <2>1. \A b \in 1..offset : dest[b] = b
    BY <1>1 DEF Placed
  <2>2. \A b \in 1..(offset + WriteSize) : Copied(offset, WriteSize)[b] = b
    BY <1>2, <1>3, <2>1, CopiedInPlace
  <2>3. QED
    BY <1>1, <2>2 DEF Placed, inputs
<1>9. Complete'
    BY <1>1, <1>2, <1>4 DEF Complete, inputs
<1>10. QED
    BY <1>6, <1>7, <1>8, <1>9

\* A stream goes on, and the buffer with it.
LEMMA UseInvRun == UseInv /\ RunStream => UseInv'
<1> SUFFICES ASSUME UseInv, RunStream PROVE UseInv'
    OBVIOUS
<1>1. Streaming /\ UNCHANGED vars
    BY DEF RunStream, Stream, ReadChunk, ReadUnacceptable, WriteChunk, CallFails
<1>2. Inv'
    BY <1>1, InvNext DEF UseInv
<1>3. StreamInv'
  <2>1. CASE ReadChunk
    BY <2>1, ReadChunkInv DEF UseInv
  <2>2. CASE WriteChunk
    BY <2>2, WriteChunkInv DEF UseInv
  <2>3. CASE ReadUnacceptable \/ CallFails
    <3>1. ret' = "error" /\ UNCHANGED <<op, honest, max, size, image, dest, offset,
                                       sent, chunk>>
      BY <2>3 DEF ReadUnacceptable, CallFails, Fails, inputs
    <3>2. StreamTypeOK' /\ InBounds' /\ Placed' /\ Complete'
      BY <3>1 DEF UseInv, StreamInv, StreamTypeOK, InBounds, Placed, Complete
    <3>3. QED
      BY <3>2 DEF StreamInv
  <2>4. QED
    BY <2>1, <2>2, <2>3 DEF RunStream, Stream
<1>4. NothingMoved'
    BY <1>1 DEF UseInv, NothingMoved, Streaming, vars
<1>5. QED
    BY <1>2, <1>3, <1>4 DEF UseInv

-----------------------------------------------------------------------------
\* The invariant, of every behaviour of the two together.
LEMMA UseInvariant == UseSpec => []UseInv
<1>1. UseInv /\ [UseNext]_useVars => UseInv'
  <2> SUFFICES ASSUME UseInv, [UseNext]_useVars PROVE UseInv'
    OBVIOUS
  <2>1. CASE UNCHANGED useVars
    <3>1. Inv'
      BY <2>1, InvNext DEF UseInv, useVars
    <3>2. QED
      BY <2>1, <3>1 DEF UseInv, useVars, vars, streamVars, StreamInv, StreamTypeOK,
         InBounds, NothingMoved, Placed, Complete
  <2>2. QED
    BY <2>1, UseInvManage, UseInvStart, UseInvRun DEF UseNext
<1>2. QED
    BY <1>1, UseInvInit, PTL DEF UseSpec

\* The agent's buffer and the streams that use it keep their types.
THEOREM UseTypeCorrect == UseSpec => []UseTypeOK
<1>1. UseInv => UseTypeOK
    BY DEF UseInv, Inv, StreamInv, UseTypeOK
<1>2. QED
    BY <1>1, UseInvariant, PTL

\* With streams under way too, an initialised agent has its buffer, a failed run of
\* fwu_agent_init() leaks nothing, and nothing is used after it was freed.
THEOREM BufferStaysSafe == UseSpec => [](InitializedHasBuffer /\ BufferIsSafe)
<1>1. UseInv => InitializedHasBuffer /\ BufferIsSafe
    BY DEF UseInv, Inv, TypeOK, Runs, Owned, Latest, Shared, InRun, Holding,
       InitializedHasBuffer, BufferIsSafe, NothingLeaks, NoUseAfterFree
<1>2. QED
    BY <1>1, UseInvariant, PTL

\* Whatever the agent answers and whatever sizes it reports, no copy of a stream is
\* outside of the shared buffer, of the caller's buffer or of the payload.
THEOREM CopiesStayInBounds == UseSpec => []InBounds
<1>1. UseInv => InBounds
    BY DEF UseInv, StreamInv
<1>2. QED
    BY <1>1, UseInvariant, PTL

\* A stream that returns 0 has moved the whole image, each byte to its place: what
\* is written always, what is read when the agent plays by the rules.
THEOREM TransfersAreExact == UseSpec => []TransferIsExact
<1>1. UseInv => TransferIsExact
    BY DEF UseInv, StreamInv, Placed, Complete, TransferIsExact, Exact
<1>2. QED
    BY <1>1, UseInvariant, PTL
===========================================================================
