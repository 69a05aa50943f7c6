--------------------------- MODULE FwuClientProofs ---------------------------
(***************************************************************************)
(* The firmware update of U-Boot is atomic for any number of images,       *)
(* handles and capsules, any capsules that start with the start payload    *)
(* and end at the end payload, and any faults: FwuClient implements        *)
(* AtomicUpdate.                                                           *)
(***************************************************************************)
EXTENDS FwuClient, TLAPS

-----------------------------------------------------------------------------
(***************************************************************************)
(* The constants.                                                          *)
(***************************************************************************)
\* The dummy payloads are no images; the two banks are told apart.
LEMMA ConstantsType ==
    /\ NumImages \in Nat \ {0} /\ MaxCapsules \in Nat /\ MaxOpen \in Nat \ {0}
    /\ DUMMY_START \notin Images /\ DUMMY_END \notin Images
    /\ DUMMY_START # DUMMY_END
    /\ DIRECTORY \in Handles /\ ESRT \in Handles /\ Images \subseteq Handles
    /\ Images \subseteq Nat
<1>1. NumImages \in Nat \ {0} /\ MaxCapsules \in Nat /\ MaxOpen \in Nat \ {0}
    BY NumImagesAssumption, BoundsAssumption
<1>2. /\ DUMMY_START \notin Images /\ DUMMY_END \notin Images
      /\ DUMMY_START # DUMMY_END /\ Images \subseteq Nat
    BY <1>1 DEF DUMMY_START, DUMMY_END, Images
<1>3. QED
    BY <1>1, <1>2 DEF Handles

\* A capsule is a sequence that starts with the start payload, and only there,
\* and has the end payload, if at all, at its end.
LEMMA CapsuleType ==
    ASSUME NEW c \in Capsules
    PROVE  /\ c \in Seq(Payloads)
           /\ Len(c) \in Nat \ {0} /\ DOMAIN c = 1..Len(c)
           /\ c[1] = DUMMY_START
           /\ \A n \in 1..Len(c) : /\ c[n] = DUMMY_START => n = 1
                                   /\ c[n] = DUMMY_END => n = Len(c)
<1>1. c \in Seq(Payloads) /\ c # <<>>
    BY CapsulesAssumption
<1>2. Len(c) \in Nat \ {0} /\ DOMAIN c = 1..Len(c)
    BY <1>1
<1>3. QED
    BY <1>1, <1>2, CapsulesAssumption

-----------------------------------------------------------------------------
(***************************************************************************)
(* The agent keeps its types.                                              *)
(***************************************************************************)
LEMMA AgentOpenType ==
    ASSUME AgentTypeOK, NEW h \in Handles, NEW r, AgentOpen(h, r)
    PROVE  AgentTypeOK' /\ UNCHANGED <<state, announced, bank, accepted, active>>
<1>1. CASE UNCHANGED agentVars
    BY <1>1 DEF agentVars, AgentTypeOK
<1>2. CASE /\ open[h] < MaxOpen
           /\ open' = [open EXCEPT ![h] = @ + 1]
           /\ UNCHANGED <<state, announced, bank, accepted, active, booted, faults>>
  <2>1. open[h] + 1 \in 0..MaxOpen
    BY <1>2, ConstantsType DEF AgentTypeOK
  <2>2. open' \in [Handles -> 0..MaxOpen]
    BY <1>2, <2>1 DEF AgentTypeOK
  <2>3. QED
    BY <1>2, <2>2 DEF AgentTypeOK
<1>3. QED
    BY <1>1, <1>2 DEF AgentOpen, Reply

\* FWU_OPEN and FWU_COMMIT only count handles.
LEMMA AgentCloseType ==
    ASSUME AgentTypeOK, NEW h \in Handles, NEW r, AgentClose(h, r)
    PROVE  AgentTypeOK' /\ UNCHANGED <<state, announced, bank, accepted, active>>
<1>1. CASE UNCHANGED agentVars
    BY <1>1 DEF agentVars, AgentTypeOK
<1>2. CASE /\ open[h] > 0
           /\ open' = [open EXCEPT ![h] = @ - 1]
           /\ UNCHANGED <<state, announced, bank, accepted, active, booted, faults>>
  <2>1. open[h] - 1 \in 0..MaxOpen
    BY <1>2, ConstantsType DEF AgentTypeOK
  <2>2. open' \in [Handles -> 0..MaxOpen]
    BY <1>2, <2>1 DEF AgentTypeOK
  <2>3. QED
    BY <1>2, <2>2 DEF AgentTypeOK
<1>3. QED
    BY <1>1, <1>2 DEF AgentClose, Reply

\* The image that is written gets the version, or is torn, in the update bank.
LEMMA SetImageType ==
    ASSUME AgentTypeOK, NEW i \in Images, NEW v \in Versions \cup {Torn}, SetImage(i, v)
    PROVE  /\ AgentTypeOK'
           /\ bank'[active] = bank[active]
           /\ \A j \in Images : bank'[Update][j] = IF j = i THEN v ELSE bank[Update][j]
           /\ UNCHANGED <<state, announced, accepted, active>>
<1>1. active \in {0, 1} /\ Update \in {0, 1} /\ Update # active
    BY DEF AgentTypeOK, Banks, Update
<1>2. QED
    BY <1>1 DEF SetImage, AgentTypeOK, Banks

\* FWU_WRITE_STREAM touches one image, in the update bank, in a staging.
LEMMA AgentWriteType ==
    ASSUME AgentTypeOK, NEW i \in Images, NEW v \in Versions, NEW r, AgentWrite(i, v, r)
    PROVE  /\ AgentTypeOK'
           /\ bank'[active] = bank[active]
           /\ \A j \in Images \ {i} : bank'[Update][j] = bank[Update][j]
           /\ bank'[Update][i] \in {bank[Update][i], v, Torn}
           /\ r = "ok" => bank'[Update][i] = v
           /\ UNCHANGED bank \/ state = "staging"
           /\ UNCHANGED <<state, announced, accepted, active>>
<1>1. CASE state = "staging" /\ SetImage(i, v)
    BY <1>1, SetImageType
<1>2. CASE r = "refused" /\ state = "staging" /\ SetImage(i, Torn)
    BY <1>2, SetImageType
<1>3. CASE r = "refused" /\ UNCHANGED agentVars
    BY <1>3 DEF agentVars, AgentTypeOK, Update
<1>4. QED
    BY <1>1, <1>2, <1>3 DEF AgentWrite, Reply

\* FWU_BEGIN_STAGING prepares the whole update bank, or does nothing.
LEMMA AgentBeginType ==
    ASSUME AgentTypeOK, NEW images \in SUBSET Images, NEW r, AgentBegin(images, r)
    PROVE  /\ AgentTypeOK'
           /\ bank'[active] = bank[active] /\ active' = active
           /\ UNCHANGED accepted
           /\ \/ UNCHANGED <<state, announced, bank>> /\ r # "ok"
              \/ /\ state # "trial" /\ state' = "staging" /\ announced' = images
                 /\ \A j \in Images :
                      bank'[Update][j] = IF j \in images THEN Torn ELSE bank[active][j]
<1>1. active \in {0, 1} /\ Update \in {0, 1} /\ Update # active
    BY DEF AgentTypeOK, Banks, Update
<1>2. CASE r = "refused" /\ UNCHANGED agentVars
    BY <1>2 DEF agentVars, AgentTypeOK
<1>3. CASE /\ state # "trial" /\ state' = "staging" /\ announced' = images
           /\ open' = WithoutWriteHandles
           /\ bank' = [bank EXCEPT ![Update] =
                         [i \in Images |-> IF i \in images THEN Torn
                                                           ELSE bank[active][i]]]
           /\ UNCHANGED <<accepted, active, booted, faults>>
  <2>1. open' \in [Handles -> 0..MaxOpen]
    BY <1>3, ConstantsType DEF WithoutWriteHandles, AgentTypeOK
  <2>2. bank' \in [Banks -> [Images -> Versions \cup {Torn}]]
    BY <1>1, <1>3 DEF AgentTypeOK, Banks
  <2>3. \A j \in Images :
          bank'[Update][j] = IF j \in images THEN Torn ELSE bank[active][j]
    BY <1>1, <1>3 DEF AgentTypeOK, Banks
  <2>4. bank'[active] = bank[active]
    BY <1>1, <1>3 DEF AgentTypeOK, Banks
  <2>5. QED
    BY <1>3, <2>1, <2>2, <2>3, <2>4 DEF AgentTypeOK
<1>4. QED
    BY <1>2, <1>3 DEF AgentBegin, Reply

\* The staging ends in a trial of the update bank, or nothing happens.
LEMMA AgentEndType ==
    ASSUME AgentTypeOK, NEW r, AgentEnd(r)
    PROVE  /\ AgentTypeOK'
           /\ UNCHANGED bank
           /\ \/ UNCHANGED <<state, announced, accepted, active>>
              \/ state = "staging" /\ state' = "trial" /\ active' = Update
<1>1. Update \in Banks
    BY DEF AgentTypeOK, Banks, Update
<1>2. CASE UNCHANGED agentVars
    BY <1>2 DEF agentVars, AgentTypeOK
<1>3. CASE /\ state = "staging" /\ state' = "trial" /\ active' = Update
           /\ accepted' = Images \ announced /\ announced' = {}
           /\ UNCHANGED <<open, bank, booted, faults>>
    BY <1>1, <1>3 DEF AgentTypeOK
<1>4. QED
    BY <1>2, <1>3 DEF AgentEnd, Reply

\* FWU_CANCEL_STAGING ends the staging, or does nothing.
LEMMA AgentCancelType ==
    ASSUME AgentTypeOK, NEW r, AgentCancel(r)
    PROVE  /\ AgentTypeOK'
           /\ UNCHANGED <<bank, active>>
           /\ \/ UNCHANGED <<state, announced>> /\ r # "ok"
              \/ state = "staging" /\ state' = "regular"
<1>1. CASE r = "refused" /\ UNCHANGED agentVars
    BY <1>1 DEF agentVars, AgentTypeOK
<1>2. CASE /\ state = "staging" /\ state' = "regular" /\ announced' = {}
           /\ open' = WithoutWriteHandles
           /\ UNCHANGED <<bank, accepted, active, booted, faults>>
  <2>1. open' \in [Handles -> 0..MaxOpen]
    BY <1>2, ConstantsType DEF WithoutWriteHandles, AgentTypeOK
  <2>2. QED
    BY <1>2, <2>1 DEF AgentTypeOK
<1>3. QED
    BY <1>1, <1>2 DEF AgentCancel, Reply

\* A trial may be over; it is never the firmware that changes.
LEMMA AgentAcceptType ==
    ASSUME AgentTypeOK, NEW i \in Images, NEW r, AgentAccept(i, r)
    PROVE  /\ AgentTypeOK'
           /\ UNCHANGED <<bank, active, announced>>
           /\ state' = state \/ (state = "trial" /\ state' = "regular")
<1>1. CASE UNCHANGED agentVars
    BY <1>1 DEF agentVars, AgentTypeOK
<1>2. CASE /\ state = "trial"
           /\ accepted' = accepted \cup {i}
           /\ state' = IF accepted' = Images THEN "regular" ELSE "trial"
           /\ UNCHANGED <<open, announced, bank, active, booted, faults>>
    BY <1>2 DEF AgentTypeOK
<1>3. QED
    BY <1>1, <1>2 DEF AgentAccept, Reply

\* A reset goes back to the other bank only when that ends a trial.
LEMMA AgentResetType ==
    ASSUME AgentTypeOK, AgentReset
    PROVE  /\ AgentTypeOK'
           /\ UNCHANGED bank
           /\ \/ /\ active' = active
                 /\ state' = IF state = "staging" THEN "regular" ELSE state
              \/ state = "trial" /\ state' = "regular" /\ active' = Update
<1>1. Update \in Banks
    BY DEF AgentTypeOK, Banks, Update
<1>2. open' \in [Handles -> 0..MaxOpen] /\ announced' = {}
    BY ConstantsType DEF AgentReset
<1>3. CASE /\ state' = IF state = "staging" THEN "regular" ELSE state
           /\ UNCHANGED <<accepted, active>>
    BY <1>2, <1>3 DEF AgentReset, AgentTypeOK
<1>4. CASE state = "trial" /\ state' = "regular" /\ active' = Update /\ accepted' = Images
    BY <1>1, <1>2, <1>4 DEF AgentReset, AgentTypeOK
<1>5. QED
    BY <1>3, <1>4 DEF AgentReset
-----------------------------------------------------------------------------
(***************************************************************************)
(* The client: where it is in a capsule.                                   *)
(***************************************************************************)
Reading == {"agentinit", "open", "read", "reading", "close", "resumeclose"}
Updating == {"verify", "begin", "end", "openwrite", "write", "writing", "commit",
             "resume", "cancel"}

\* A payload of the capsule is being processed.
InCapsule == pc \in Updating \/ (pc \in Reading /\ info.caller = "capsule")

\* The kind of the payload that brings U-Boot to a step.
Position ==
    /\ InCapsule => capsule \in Capsules /\ item \in 1..Len(capsule)
    /\ pc \in Reading /\ info.caller = "capsule" => Payload \in Images
    /\ pc = "begin" => Payload = DUMMY_START
    /\ pc = "end" => Payload = DUMMY_END
    /\ pc \in {"openwrite", "write", "writing", "commit", "resume"} =>
         Payload \in Images

\* The part of the state that is the client's control.
ControlTypeOK ==
    /\ pc \in Reading \cup Updating \cup {"idle", "accept", "os", "crashed"}
    /\ info \in Infos
    /\ result \in {"none", "success", "failure"}

\* The next payload, if there is one, is searched for or verified.
LEMMA NextPayloadType ==
    ASSUME ControlTypeOK, capsule \in Capsules, item \in 1..Len(capsule), NextPayload
    PROVE  /\ ControlTypeOK'
           /\ \/ pc' = "idle" /\ item' = item
              \/ /\ item < Len(capsule) /\ item' = item + 1
                 /\ \/ pc' = "verify" /\ UNCHANGED info
                    \/ /\ pc' \in {"open", "agentinit"} /\ info'.caller = "capsule"
                       /\ capsule[item'] \in Images
<1>1. Query("capsule") \in Infos /\ Query("capsule").caller = "capsule"
    BY DEF Query, Infos
<1>2. Len(capsule) \in Nat
    BY CapsuleType
<1>3. CASE item = Len(capsule)
    BY <1>3 DEF NextPayload, ControlTypeOK
<1>4. CASE item # Len(capsule)
  <2>1. item < Len(capsule)
    BY <1>2, <1>4
  <2>2. item' = item + 1 /\ Find(capsule[item + 1]) /\ UNCHANGED result
    BY <1>4 DEF NextPayload
  <2>3. QED
    BY <1>1, <2>1, <2>2 DEF Find, ControlTypeOK, Reading, Updating
<1>5. QED
    BY <1>3, <1>4

\* A query that succeeds or fails leaves the payload where it is.
LEMMA QueryType ==
    ASSUME ControlTypeOK, InfoDone \/ InfoFails
    PROVE  /\ ControlTypeOK'
           /\ item' = item
           /\ pc' = "idle" \/ (pc' = "verify" /\ info.caller = "capsule")
<1>1. Query("boot") \in Infos
    BY DEF Query, Infos
<1>2. QED
    BY <1>1 DEF InfoDone, InfoFails, ControlTypeOK, Reading, Updating

\* A query stays one, of the same caller, when it goes on.
LEMMA InfosType ==
    ASSUME NEW i \in Infos
    PROVE  /\ \A ret \in {"ok", "error"} :
                 /\ [i EXCEPT !.ret = ret] \in Infos
                 /\ [i EXCEPT !.ret = ret].caller = i.caller
           /\ [i EXCEPT !.of = ESRT] \in Infos
           /\ [i EXCEPT !.of = ESRT].caller = i.caller
           /\ [Query(i.caller) EXCEPT !.round = 2] \in Infos
           /\ [Query(i.caller) EXCEPT !.round = 2].caller = i.caller
<1>1. \A ret \in {"ok", "error"} :
        /\ [i EXCEPT !.ret = ret] \in Infos
        /\ [i EXCEPT !.ret = ret].caller = i.caller
    BY DEF Infos
<1>2. [i EXCEPT !.of = ESRT] \in Infos /\ [i EXCEPT !.of = ESRT].caller = i.caller
    BY DEF Infos
<1>3. [Query(i.caller) EXCEPT !.round = 2] \in Infos
    BY DEF Infos, Query
<1>4. [Query(i.caller) EXCEPT !.round = 2].caller = i.caller
    BY DEF Infos, Query
<1>5. QED
    BY <1>1, <1>2, <1>3, <1>4

\* A query that goes on does so for the same caller.
LEMMA AfterCloseType ==
    ASSUME ControlTypeOK, AfterClose
    PROVE  /\ ControlTypeOK'
           /\ item' = item
           /\ \/ pc' = "idle"
              \/ pc' = "verify" /\ info.caller = "capsule"
              \/ pc' = "open" /\ info'.caller = info.caller
<1>1. CASE InfoDone \/ InfoFails
    BY <1>1, QueryType
<1>2. CASE /\ pc' = "open" /\ UNCHANGED <<item, result>>
           /\ \/ info' = [info EXCEPT !.of = ESRT]
              \/ info' = [Query(info.caller) EXCEPT !.round = 2]
  <2>1. info' \in Infos /\ info'.caller = info.caller
    BY <1>2, InfosType DEF ControlTypeOK
  <2>2. QED
    BY <1>2, <2>1 DEF ControlTypeOK, Reading
<1>3. QED
    BY <1>1, <1>2 DEF AfterClose

DataTypeOK ==
    /\ capsule \in Capsules \cup {<<>>}
    /\ item \in 0..Len(capsule)
    /\ unaccepted \subseteq Images
    /\ updates \in 0..MaxCapsules

FlagTypeOK == initialized \in BOOLEAN /\ trialBoot \in BOOLEAN

\* The types of the agent, of the control, of the data and of the flags.
LEMMA TypeParts ==
    TypeOK <=> AgentTypeOK /\ ControlTypeOK /\ DataTypeOK /\ FlagTypeOK
    BY DEF TypeOK, ControlTypeOK, DataTypeOK, FlagTypeOK, Reading, Updating

\* Control is the part of the invariant that the agent does not matter for.
Control == ControlTypeOK /\ DataTypeOK /\ Position

\* To go on to the next payload keeps it ...
LEMMA NextPayloadControl ==
    ASSUME Control, InCapsule, NextPayload, UNCHANGED <<capsule, unaccepted, updates>>
    PROVE  Control'
<1>1. capsule \in Capsules /\ item \in 1..Len(capsule) /\ Len(capsule) \in Nat
    BY CapsuleType DEF Control, Position
<1>2. ControlTypeOK'
    BY <1>1, NextPayloadType DEF Control
<1>3. item' \in 1..Len(capsule)
    BY <1>1, NextPayloadType DEF Control
<1>4. Position'
    BY <1>1, <1>3, NextPayloadType DEF Control, Position, InCapsule, Reading, Updating,
       Payload
<1>5. QED
    BY <1>1, <1>2, <1>3, <1>4 DEF Control, DataTypeOK

\* ... and so does to leave the capsule.
LEMMA LeaveControl ==
    ASSUME Control, ControlTypeOK', pc' \in {"idle", "accept", "os", "crashed"},
           UNCHANGED <<capsule, item, updates>>, unaccepted' \subseteq Images
    PROVE  Control'
    BY DEF Control, DataTypeOK, Position, InCapsule, Reading, Updating

\* A step from one statement to another one of the same payload.
LEMMA GotoControl ==
    ASSUME Control, NEW step \in Reading \cup Updating, Goto(step),
           step \in Reading => pc \in Reading,
           step \in Updating => pc \in Updating,
           step = "begin" => Payload = DUMMY_START,
           step = "end" => Payload = DUMMY_END,
           step \in {"openwrite", "write", "writing", "commit", "resume"} =>
             Payload \in Images,
           UNCHANGED <<capsule, unaccepted, updates>>
    PROVE  Control'
<1>1. ControlTypeOK' /\ DataTypeOK'
    BY DEF Goto, Control, ControlTypeOK, DataTypeOK
<1>2. Position'
    BY DEF Goto, Control, Position, InCapsule, Payload, Reading, Updating
<1>3. QED
    BY <1>1, <1>2 DEF Control

\* The query that closes an image.
LEMMA AfterCloseControl ==
    ASSUME Control, pc \in Reading, AfterClose, UNCHANGED <<capsule, unaccepted, updates>>
    PROVE  Control'
<1>1. ControlTypeOK' /\ item' = item
    BY AfterCloseType DEF Control
<1>2. Position'
    BY <1>1, AfterCloseType DEF Control, Position, InCapsule, Payload, Reading, Updating
<1>3. QED
    BY <1>1, <1>2 DEF Control, DataTypeOK

\* A query that is over keeps it too.
LEMMA QueryControl ==
    ASSUME Control, pc \in Reading, InfoDone \/ InfoFails,
           UNCHANGED <<capsule, unaccepted, updates>>
    PROVE  Control'
<1>1. ControlTypeOK' /\ item' = item
    BY QueryType DEF Control
<1>2. Position'
    BY <1>1, QueryType DEF Control, Position, InCapsule, Payload, Reading, Updating
<1>3. QED
    BY <1>1, <1>2 DEF Control, DataTypeOK
-----------------------------------------------------------------------------
(***************************************************************************)
(* Type correctness, with the position in the capsule.                     *)
(***************************************************************************)
Typed == AgentTypeOK /\ Control /\ FlagTypeOK

\* The types together with the position.
LEMMA TypedIsTypeOK == Typed <=> TypeOK /\ Position
    BY TypeParts DEF Typed, Control

\* A step without a call to the agent.
LEMMA AgentUnchanged ==
    ASSUME AgentTypeOK, UNCHANGED agentVars
    PROVE  AgentTypeOK'
    BY DEF agentVars, AgentTypeOK

\* The first boot is outside of a capsule.
LEMMA InitTyped == Init => Typed
<1> SUFFICES ASSUME Init PROVE Typed
    OBVIOUS
<1>1. AgentTypeOK
    BY ConstantsType DEF Init, AgentInit, AgentTypeOK, Banks, Versions
<1>2. Query("boot") \in Infos
    BY DEF Query, Infos
<1>3. ControlTypeOK /\ FlagTypeOK
    BY <1>2 DEF Init, ControlTypeOK, FlagTypeOK
<1>4. DataTypeOK
    BY ConstantsType DEF Init, DataTypeOK
<1>5. Position
    BY DEF Init, Position, InCapsule, Query, Reading, Updating
<1>6. QED
    BY <1>1, <1>3, <1>4, <1>5 DEF Typed, Control

\* A capsule starts with the start payload, which is never searched for.
LEMMA SubmitCapsuleTyped ==
    ASSUME Typed, SubmitCapsule
    PROVE  Typed' /\ item' = 1
<1>1. AgentTypeOK' /\ FlagTypeOK'
    BY AgentUnchanged DEF Typed, SubmitCapsule, FlagTypeOK
<1>2. PICK c \in Capsules : capsule' = c /\ Find(c[1])
    BY DEF SubmitCapsule
<1>3. Len(c) \in Nat \ {0} /\ c[1] = DUMMY_START /\ DUMMY_START \notin Images
    BY CapsuleType, ConstantsType
<1>4. pc' = "verify" /\ UNCHANGED info /\ item' = 1 /\ result' = "none"
    BY <1>2, <1>3 DEF Find, SubmitCapsule
<1>5. ControlTypeOK'
    BY <1>4 DEF Typed, Control, ControlTypeOK, Updating
<1>6. updates' \in 0..MaxCapsules
    BY ConstantsType DEF SubmitCapsule, Typed, Control, DataTypeOK
<1>7. DataTypeOK'
    BY <1>2, <1>3, <1>4, <1>6 DEF SubmitCapsule, Typed, Control, DataTypeOK
<1>8. Position'
    BY <1>2, <1>3, <1>4 DEF Position, InCapsule, Reading, Updating
<1>9. QED
    BY <1>1, <1>4, <1>5, <1>7, <1>8 DEF Typed, Control

\* The steps of a query.
LEMMA QueryTyped ==
    ASSUME Typed, GetImageInfo \/ AgentInitialize \/ OpenImage \/ ReadImage \/ CloseImage
    PROVE  Typed'
<1>1. CASE GetImageInfo
  <2>1. AgentTypeOK' /\ FlagTypeOK'
    BY <1>1, AgentUnchanged DEF Typed, GetImageInfo, FlagTypeOK
  <2>2. Query("boot") \in Infos /\ Query("boot").caller # "capsule"
    BY DEF Query, Infos
  <2>3. Control'
    BY <1>1, <2>2 DEF Typed, Control, ControlTypeOK, DataTypeOK, Position, InCapsule,
       GetImageInfo, Reading, Updating
  <2>4. QED
    BY <2>1, <2>3 DEF Typed
<1>2. CASE AgentInitialize
  <2>1. AgentTypeOK' /\ FlagTypeOK'
    BY <1>2, AgentUnchanged DEF Typed, AgentInitialize, FlagTypeOK
  <2>2. CASE Goto("open")
    BY <1>2, <2>1, <2>2, GotoControl DEF Typed, AgentInitialize, Reading, Updating
  <2>3. CASE InfoFails
    BY <1>2, <2>1, <2>3, QueryControl DEF Typed, AgentInitialize, Reading
  <2>4. QED
    BY <1>2, <2>2, <2>3 DEF AgentInitialize
<1>3. CASE OpenImage
  <2>1. PICK r \in Replies :
          AgentOpen(info.of, r) /\ IF r = "ok" THEN Goto("read") ELSE InfoFails
    BY <1>3 DEF OpenImage
  <2>2. info.of \in Handles
    BY ConstantsType DEF Typed, Control, ControlTypeOK, Infos
  <2>3. AgentTypeOK'
    BY <2>1, <2>2, AgentOpenType DEF Typed
  <2>4. FlagTypeOK'
    BY <1>3 DEF Typed, OpenImage, FlagTypeOK
  <2>5. CASE Goto("read")
    BY <1>3, <2>3, <2>4, <2>5, GotoControl DEF Typed, OpenImage, Reading, Updating
  <2>6. CASE InfoFails
    BY <1>3, <2>3, <2>4, <2>6, QueryControl DEF Typed, OpenImage, Reading
  <2>7. QED
    BY <2>1, <2>5, <2>6
<1>4. CASE ReadImage
  <2>1. AgentTypeOK' /\ FlagTypeOK'
    BY <1>4, AgentUnchanged DEF Typed, ReadImage, FlagTypeOK
  <2>2. info' \in Infos /\ info'.caller = info.caller
    BY <1>4, InfosType DEF ReadImage, Typed, Control, ControlTypeOK
  <2>3. ControlTypeOK' /\ DataTypeOK'
    BY <1>4, <2>2 DEF ReadImage, Typed, Control, ControlTypeOK, DataTypeOK, Reading
  <2>4. Position'
    BY <1>4, <2>2 DEF ReadImage, Typed, Control, Position, InCapsule, Payload,
       Reading, Updating
  <2>5. QED
    BY <2>1, <2>3, <2>4 DEF Typed, Control
<1>5. CASE CloseImage
  <2>1. info.of \in Handles
    BY ConstantsType DEF Typed, Control, ControlTypeOK, Infos
  <2>2. AgentTypeOK'
    BY <1>5, <2>1, AgentCloseType DEF CloseImage, Typed
  <2>3. FlagTypeOK'
    BY <1>5 DEF Typed, CloseImage, FlagTypeOK
  <2>4. Control'
    BY <1>5, AfterCloseControl DEF Typed, CloseImage, Reading
  <2>5. QED
    BY <2>2, <2>3, <2>4 DEF Typed
<1>6. QED
    BY <1>1, <1>2, <1>3, <1>4, <1>5
\* The steps from one statement of fwu_update_image() to another one.
LEMMA VerifyTyped ==
    ASSUME Typed, VerifyImage
    PROVE  Typed' /\ pc' \notin {"commit", "resume"} /\ item' = item
<1>1. AgentTypeOK' /\ FlagTypeOK'
    BY AgentUnchanged DEF Typed, VerifyImage, FlagTypeOK
<1>2. CASE Abort
  <2>1. ControlTypeOK' /\ pc' = "idle" /\ item' = item
    BY <1>2 DEF Abort, Typed, Control, ControlTypeOK
  <2>2. Control'
    BY <2>1, LeaveControl DEF VerifyImage, Typed, Control, DataTypeOK
  <2>3. QED
    BY <1>1, <2>1, <2>2 DEF Typed
<1>3. CASE Payload = DUMMY_START /\ Goto("crashed")
  <2>1. ControlTypeOK' /\ pc' = "crashed" /\ item' = item
    BY <1>3 DEF Goto, Typed, Control, ControlTypeOK
  <2>2. Control'
    BY <2>1, LeaveControl DEF VerifyImage, Typed, Control, DataTypeOK
  <2>3. QED
    BY <1>1, <2>1, <2>2 DEF Typed
<1>4. CASE \/ Payload = DUMMY_START /\ Goto("begin")
           \/ Payload = DUMMY_END /\ Goto("end")
           \/ Payload \in Images /\ Goto("openwrite")
  <2>1. pc \in Updating /\ pc \notin Reading
    BY DEF VerifyImage, Updating, Reading
  <2>2. Control'
    BY <1>4, <2>1, GotoControl DEF VerifyImage, Typed, Reading, Updating
  <2>3. pc' \notin {"commit", "resume"} /\ item' = item
    BY <1>4 DEF Goto
  <2>4. QED
    BY <1>1, <2>2, <2>3 DEF Typed
<1>5. QED
    BY <1>2, <1>3, <1>4 DEF VerifyImage, Verified

\* To give the capsule up ...
LEMMA AbortTyped ==
    ASSUME Typed, AgentTypeOK', Abort,
           UNCHANGED <<capsule, initialized, trialBoot, unaccepted, updates>>
    PROVE  Typed'
<1>1. ControlTypeOK' /\ pc' = "idle" /\ item' = item
    BY DEF Abort, Typed, Control, ControlTypeOK
<1>2. Control'
    BY <1>1, LeaveControl DEF Typed, Control, DataTypeOK
<1>3. QED
    BY <1>2 DEF Typed, FlagTypeOK

\* ... or to go on with it.
LEMMA NextPayloadTyped ==
    ASSUME Typed, AgentTypeOK', NextPayload, InCapsule,
           UNCHANGED <<capsule, initialized, trialBoot, unaccepted, updates>>
    PROVE  Typed'
    BY NextPayloadControl DEF Typed, FlagTypeOK

\* Steps after an image is opened stay with the image.
LEMMA GotoTyped ==
    ASSUME Typed, AgentTypeOK', NEW step \in Updating \ {"begin", "end"}, Goto(step),
           pc \in Updating,
           step \in {"openwrite", "write", "writing", "commit", "resume"} =>
             Payload \in Images,
           UNCHANGED <<capsule, initialized, trialBoot, unaccepted, updates>>
    PROVE  Typed'
<1>1. Control'
    BY GotoControl DEF Typed, Reading, Updating
<1>2. QED
    BY <1>1 DEF Typed, FlagTypeOK

\* A commit that yields stays with its image, or with its query.
LEMMA YieldTyped ==
    ASSUME Typed, CommitYields \/ Resume \/ ResumeRejected
    PROVE  Typed'
<1>1. AgentTypeOK' /\ FlagTypeOK'
    BY AgentUnchanged DEF Typed, CommitYields, Resume, ResumeRejected, FlagTypeOK
<1>2. CASE \/ pc \in {"commit", "resume"} /\ Goto("resume")
           \/ pc = "resume" /\ Goto("cancel")
  <2>1. Payload \in Images
    BY <1>2 DEF Typed, Control, Position
  <2>2. QED
    BY <1>1, <1>2, <2>1, GotoTyped
       DEF CommitYields, Resume, ResumeRejected, Updating
<1>3. CASE pc \in {"close", "resumeclose"} /\ Goto("resumeclose")
  <2>1. Control'
    BY <1>3, GotoControl
       DEF CommitYields, Resume, ResumeRejected, Typed, Reading, Updating
  <2>2. QED
    BY <1>1, <2>1 DEF Typed
<1>4. CASE pc = "resumeclose" /\ AfterClose
  <2>1. Control'
    BY <1>4, AfterCloseControl
       DEF CommitYields, Resume, ResumeRejected, Typed, Reading
  <2>2. QED
    BY <1>1, <2>1 DEF Typed
<1>5. CASE CommitYields
  <2>1. CASE pc = "commit"
    BY <1>2, <1>5, <2>1 DEF CommitYields, Goto
  <2>2. CASE pc = "close"
    BY <1>3, <1>5, <2>2 DEF CommitYields, Goto
  <2>3. QED
    BY <1>5, <2>1, <2>2 DEF CommitYields
<1>6. CASE Resume
    BY <1>2, <1>3, <1>6 DEF Resume, Goto
<1>7. CASE ResumeRejected
    BY <1>2, <1>4, <1>7 DEF ResumeRejected
<1>8. QED
    BY <1>5, <1>6, <1>7

\* And so does a stream that gets nowhere.
LEMMA StallTyped ==
    ASSUME Typed, StreamStalls \/ StreamIsLeft
    PROVE  Typed'
<1>1. AgentTypeOK' /\ FlagTypeOK'
    BY AgentUnchanged DEF Typed, StreamStalls, StreamIsLeft, FlagTypeOK
<1>2. UNCHANGED <<capsule, initialized, trialBoot, unaccepted, updates>>
    BY DEF StreamStalls, StreamIsLeft
<1>3. CASE \/ pc = "write" /\ Goto("writing")
           \/ pc = "writing" /\ Goto("cancel")
  <2>1. Payload \in Images
    BY <1>3 DEF Typed, Control, Position
  <2>2. QED
    BY <1>1, <1>2, <1>3, <2>1, GotoTyped DEF Updating
<1>4. CASE pc = "read" /\ Goto("reading")
  <2>1. Control'
    BY <1>2, <1>4, GotoControl DEF Typed, Reading, Updating
  <2>2. QED
    BY <1>1, <2>1 DEF Typed
<1>5. CASE /\ pc = "reading" /\ pc' = "close" /\ UNCHANGED <<item, result>>
           /\ \E ret \in {"ok", "error"} : info' = [info EXCEPT !.ret = ret]
  <2>1. info' \in Infos /\ info'.caller = info.caller
    BY <1>5, InfosType DEF Typed, Control, ControlTypeOK
  <2>2. ControlTypeOK' /\ DataTypeOK'
    BY <1>2, <1>5, <2>1 DEF Typed, Control, ControlTypeOK, DataTypeOK, Reading
  <2>3. Position'
    BY <1>2, <1>5, <2>1 DEF Typed, Control, Position, InCapsule, Payload, Reading,
       Updating
  <2>4. QED
    BY <1>1, <2>2, <2>3 DEF Typed, Control
<1>6. CASE StreamStalls
    BY <1>3, <1>4, <1>6 DEF StreamStalls
<1>7. CASE StreamIsLeft
    BY <1>3, <1>5, <1>7 DEF StreamIsLeft
<1>8. QED
    BY <1>6, <1>7
-----------------------------------------------------------------------------
(***************************************************************************)
(* What the update of a capsule has done so far.                           *)
(***************************************************************************)
\* No image is newer than the last capsule, and while one is processed the
\* installed ones are older.
Older ==
    /\ \A b \in Banks, i \in Images : bank[b][i] <= updates
    /\ InCapsule /\ state # "trial" => \A i \in Images : bank[active][i] < updates

\* While the agent is in the Staging state of the capsule, the update bank holds
\* the new images of the payloads that are done, and the installed images of
\* those that no payload is for.
Staged ==
    InCapsule /\ item > 1 /\ pc # "cancel" /\ state = "staging" =>
      /\ announced = RealPayloads(capsule)
      /\ \A i \in Images \ announced : bank[Update][i] = bank[active][i]
      /\ \A n \in 2..(item - 1) :
           capsule[n] \in Images => bank[Update][capsule[n]] = updates
      /\ pc \in {"commit", "resume"} => bank[Update][Payload] = updates

IInv == Typed /\ Older /\ Staged

\* Where the abstract specification sees a stutter.
NoInstall ==
    UNCHANGED <<bank[active], bank[IF state = "trial" THEN Update ELSE active],
                state = "trial">>

\* A step that leaves the store and the payload alone.
LEMMA QuietStep ==
    ASSUME IInv, Typed', UNCHANGED <<state, announced, bank, active, updates>>,
           InCapsule' => /\ InCapsule /\ UNCHANGED <<capsule, item>>
                         /\ pc = "cancel" => pc' = "cancel"
                         /\ pc' \in {"commit", "resume"} => pc \in {"commit", "resume"}
    PROVE  IInv' /\ NoInstall
<1>1. NoInstall
    BY DEF NoInstall, Update
<1>2. Older'
    BY DEF IInv, Older
<1>3. Staged'
    BY DEF IInv, Staged, RealPayloads, Payload, Update
<1>4. QED
    BY <1>1, <1>2, <1>3 DEF IInv

\* Nothing is staged at the first boot.
LEMMA InitIInv == Init => IInv
<1> SUFFICES ASSUME Init PROVE IInv
    OBVIOUS
<1>1. ~InCapsule
    BY DEF Init, InCapsule, Query, Reading, Updating
<1>2. Older
    BY <1>1 DEF Older, Init, AgentInit
<1>3. Staged
    BY <1>1 DEF Staged
<1>4. QED
    BY <1>2, <1>3, InitTyped DEF IInv

\* The two banks are told apart, and their images can be compared.
LEMMA BankType ==
    ASSUME AgentTypeOK
    PROVE  /\ active \in Banks /\ Update \in Banks /\ 1 - Update = active
           /\ Update # active
           /\ \A b \in Banks, i \in Images : bank[b][i] \in Int
           /\ \A b \in Banks : bank[b] = [i \in Images |-> bank[b][i]]
<1>1. /\ active \in Banks /\ Update \in Banks /\ 1 - Update = active
      /\ Update # active
    BY DEF AgentTypeOK, Banks, Update
<1>2. Versions \cup {Torn} \subseteq Int
    BY ConstantsType DEF Versions, Torn
<1>3. \A b \in Banks, i \in Images : bank[b][i] \in Int
    BY <1>2 DEF AgentTypeOK
<1>4. \A b \in Banks : bank[b] = [i \in Images |-> bank[b][i]]
    BY DEF AgentTypeOK
<1>5. QED
    BY <1>1, <1>3, <1>4

\* A capsule is newer than everything there is.
LEMMA SubmitCapsuleStep ==
    ASSUME IInv, SubmitCapsule
    PROVE  IInv' /\ NoInstall
<1>1. Typed' /\ item' = 1
    BY SubmitCapsuleTyped DEF IInv
<1>2. UNCHANGED <<state, announced, bank, active>> /\ updates' = updates + 1
    BY DEF SubmitCapsule, agentVars
<1>3. updates \in Int
    BY DEF IInv, Typed, Control, DataTypeOK
<1>4. Older'
    BY <1>2, <1>3, BankType DEF IInv, Typed, Older
<1>5. Staged'
    BY <1>1 DEF Staged
<1>6. NoInstall
    BY <1>2 DEF NoInstall, Update
<1>7. QED
    BY <1>1, <1>4, <1>5, <1>6 DEF IInv

\* What is not in the middle of a capsule has nothing staged.
LEMMA OutsideStep ==
    ASSUME IInv, Typed', ~InCapsule', UNCHANGED updates,
           \A b \in Banks, i \in Images : bank'[b][i] <= updates
    PROVE  IInv'
    BY DEF IInv, Older, Staged

\* The position is that of an image, so the staging has begun.
LEMMA ImagePosition ==
    ASSUME Typed, InCapsule, Payload \in Images
    PROVE  /\ capsule \in Capsules /\ item \in 2..Len(capsule) /\ Len(capsule) \in Nat
           /\ Payload \in RealPayloads(capsule)
<1>1. capsule \in Capsules /\ item \in 1..Len(capsule) /\ Len(capsule) \in Nat
    BY CapsuleType DEF Typed, Control, Position
<1>2. item # 1
    BY <1>1, CapsuleType, ConstantsType DEF Payload
<1>3. Payload \in RealPayloads(capsule)
    BY <1>1, CapsuleType DEF RealPayloads, Payload
<1>4. QED
    BY <1>1, <1>2, <1>3
\* The first payload: the update bank is prepared for the images that follow.
LEMMA BeginStagingStep ==
    ASSUME IInv, BeginStaging
    PROVE  IInv' /\ NoInstall
<1>1. PICK r \in Replies : /\ AgentBegin(RealPayloads(capsule), r)
                           /\ IF r = "ok" THEN NextPayload ELSE Abort
    BY DEF BeginStaging
<1>2. /\ pc = "begin" /\ InCapsule
      /\ UNCHANGED <<capsule, initialized, trialBoot, unaccepted, updates>>
    BY DEF BeginStaging, InCapsule, Updating
<1>3. RealPayloads(capsule) \in SUBSET Images
    BY DEF RealPayloads
<1>4. /\ AgentTypeOK'
      /\ bank'[active] = bank[active] /\ active' = active
      /\ \/ UNCHANGED <<state, announced, bank>> /\ r # "ok"
         \/ /\ state # "trial" /\ state' = "staging"
            /\ announced' = RealPayloads(capsule)
            /\ \A j \in Images : bank'[Update][j] =
                 IF j \in RealPayloads(capsule) THEN Torn ELSE bank[active][j]
    BY <1>1, <1>3, AgentBeginType DEF IInv, Typed
<1>5. Typed'
    BY <1>1, <1>2, <1>4, NextPayloadTyped, AbortTyped DEF IInv
<1>6. NoInstall
    BY <1>4 DEF NoInstall, Update
<1>7. \A b \in Banks, i \in Images : bank'[b][i] <= updates
  <2>1. \A b \in Banks : b = active \/ b = Update
    BY BankType DEF IInv, Typed, Banks, Update
  <2>2. \A i \in Images : bank'[active][i] <= updates
    BY <1>4, BankType DEF IInv, Typed, Older
  <2>3. Torn <= updates
    BY DEF Torn, IInv, Typed, Control, DataTypeOK
  <2>4. \A i \in Images : bank'[Update][i] <= updates
    BY <1>4, <2>3, BankType DEF IInv, Typed, Older
  <2>5. QED
    BY <2>1, <2>2, <2>4
<1>8. CASE r # "ok"
  <2>1. ~InCapsule'
    BY <1>1, <1>8 DEF Abort, InCapsule, Reading, Updating
  <2>2. QED
    BY <1>2, <1>5, <1>6, <1>7, <2>1, OutsideStep
<1>9. CASE r = "ok"
  <2>1. state # "trial" /\ state' = "staging" /\ announced' = RealPayloads(capsule)
    BY <1>4, <1>9
  <2>2. item = 1 /\ pc' \notin {"commit", "resume"} /\ item' \in {1, 2}
    <3>1. capsule \in Capsules /\ item \in 1..Len(capsule)
      BY <1>2 DEF IInv, Typed, Control, Position
    <3>2. item = 1
      BY <1>2, <3>1, CapsuleType DEF IInv, Typed, Control, Position, Payload
    <3>3. pc' \notin {"commit", "resume"} /\ item' \in {item, item + 1}
      BY <1>1, <1>9, <3>1, NextPayloadType DEF IInv, Typed, Control
    <3>4. QED
      BY <3>2, <3>3
  <2>3. Older'
    BY <1>2, <1>4, <1>7, <2>1 DEF IInv, Older
  <2>4. \A i \in Images \ announced' : bank'[Update][i] = bank'[active][i]
    BY <1>4, <1>9
  <2>5. ASSUME NEW n \in 2..(item' - 1)
        PROVE  FALSE
    <3>1. item' = 1 \/ item' = 2
      BY <2>2
    <3>2. CASE item' = 1
      BY <3>2
    <3>3. CASE item' = 2
      BY <3>3
    <3>4. QED
      BY <3>1, <3>2, <3>3
  <2>6. announced' = RealPayloads(capsule)'
    <3>1. capsule' = capsule
      BY <1>2
    <3>2. QED
      BY <2>1, <3>1 DEF RealPayloads
  <2>7. \A i \in Images \ announced' : bank'[Update'][i] = bank'[active'][i]
    <3>1. active' = active
      BY <1>4
    <3>2. QED
      BY <2>4, <3>1 DEF Update
  <2>8. Staged'
    BY <2>2, <2>5, <2>6, <2>7 DEF Staged
  <2>9. QED
    BY <1>5, <1>6, <2>3, <2>8 DEF IInv
<1>10. QED
    BY <1>8, <1>9

\* An image that is written is one of those announced.
LEMMA WriteImageStep ==
    ASSUME IInv, WriteImage
    PROVE  IInv' /\ NoInstall
<1>1. PICK r \in Replies : /\ AgentWrite(Payload, updates, r)
                           /\ Goto(IF r = "ok" THEN "commit" ELSE "cancel")
    BY DEF WriteImage
<1>2. /\ pc = "write" /\ InCapsule
      /\ UNCHANGED <<capsule, initialized, trialBoot, unaccepted, updates>>
    BY DEF WriteImage, InCapsule, Updating
<1>3. Payload \in Images /\ updates \in Versions
    BY <1>2 DEF IInv, Typed, Control, Position, DataTypeOK, Versions
<1>4. /\ capsule \in Capsules /\ item \in 2..Len(capsule) /\ Len(capsule) \in Nat
      /\ Payload \in RealPayloads(capsule)
    BY <1>2, <1>3, ImagePosition DEF IInv
<1>5. /\ AgentTypeOK'
      /\ bank'[active] = bank[active]
      /\ \A j \in Images \ {Payload} : bank'[Update][j] = bank[Update][j]
      /\ bank'[Update][Payload] \in {bank[Update][Payload], updates, Torn}
      /\ r = "ok" => bank'[Update][Payload] = updates
      /\ UNCHANGED bank \/ state = "staging"
      /\ UNCHANGED <<state, announced, accepted, active>>
    BY <1>1, <1>3, AgentWriteType DEF IInv, Typed
<1>6. Typed'
    BY <1>1, <1>2, <1>3, <1>5, GotoTyped DEF IInv, Updating
<1>7. NoInstall
    BY <1>5 DEF NoInstall, Update
<1>8. /\ UNCHANGED <<item, info>>
      /\ pc' = IF r = "ok" THEN "commit" ELSE "cancel"
    BY <1>1 DEF Goto
<1>9. Older'
  <2>1. \A b \in Banks : b = active \/ b = Update
    BY BankType DEF IInv, Typed, Banks, Update
  <2>2. \A i \in Images : bank'[active][i] <= updates
    BY <1>5, BankType DEF IInv, Typed, Older
  <2>3. Torn <= updates /\ updates <= updates
    BY DEF Torn, IInv, Typed, Control, DataTypeOK
  <2>4. \A i \in Images : bank'[Update][i] <= updates
    BY <1>5, <2>3, BankType DEF IInv, Typed, Older
  <2>5. QED
    BY <1>2, <1>5, <2>1, <2>2, <2>4 DEF IInv, Older
<1>10. Staged'
  <2>1. CASE r = "ok" /\ state = "staging"
    <3>1. /\ announced = RealPayloads(capsule)
          /\ \A i \in Images \ announced : bank[Update][i] = bank[active][i]
          /\ \A n \in 2..(item - 1) :
               capsule[n] \in Images => bank[Update][capsule[n]] = updates
      BY <1>2, <1>4, <2>1 DEF IInv, Staged
    <3>2. \A i \in Images \ announced : bank'[Update][i] = bank'[active][i]
      BY <1>4, <1>5, <3>1
    <3>3. \A n \in 2..(item - 1) :
            capsule[n] \in Images => bank'[Update][capsule[n]] = updates
      BY <1>5, <2>1, <3>1
    <3>4. bank'[Update][Payload] = updates
      BY <1>5, <2>1
    <3>5. QED
      BY <1>2, <1>5, <1>8, <3>1, <3>2, <3>3, <3>4
         DEF Staged, Update, RealPayloads, Payload
  <2>2. CASE r # "ok" \/ state # "staging"
    BY <1>5, <1>8, <2>2 DEF Staged
  <2>3. QED
    BY <2>1, <2>2
<1>11. QED
    BY <1>6, <1>7, <1>9, <1>10 DEF IInv
\* An image that is committed has been written.
LEMMA CommitImageStep ==
    ASSUME IInv, CommitImage
    PROVE  IInv' /\ NoInstall
<1>1. PICK r \in Replies : /\ AgentClose(Payload, r)
                           /\ IF r = "ok" THEN NextPayload ELSE Goto("cancel")
    BY DEF CommitImage
<1>2. /\ pc = "commit" /\ InCapsule
      /\ UNCHANGED <<capsule, initialized, trialBoot, unaccepted, updates>>
    BY DEF CommitImage, InCapsule, Updating
<1>3. Payload \in Images
    BY <1>2 DEF IInv, Typed, Control, Position
<1>4. /\ capsule \in Capsules /\ item \in 2..Len(capsule) /\ Len(capsule) \in Nat
      /\ Payload \in RealPayloads(capsule)
    BY <1>2, <1>3, ImagePosition DEF IInv
<1>5. AgentTypeOK' /\ UNCHANGED <<state, announced, bank, accepted, active>>
    BY <1>1, <1>3, AgentCloseType, ConstantsType DEF IInv, Typed
<1>6. Typed'
    BY <1>1, <1>2, <1>5, NextPayloadTyped, GotoTyped DEF IInv, Updating
<1>7. NoInstall
    BY <1>5 DEF NoInstall, Update
<1>8. Older'
    BY <1>2, <1>5 DEF IInv, Older
<1>9. Staged'
  <2>1. CASE r # "ok"
    BY <1>1, <2>1 DEF Goto, Staged
  <2>2. CASE r = "ok" /\ state = "staging" /\ pc' # "idle"
    <3>1. item' = item + 1 /\ pc' \in {"verify", "open", "agentinit"}
      BY <1>1, <1>4, <2>2, NextPayloadType DEF IInv, Typed, Control
    <3>2. /\ announced = RealPayloads(capsule)
          /\ \A i \in Images \ announced : bank[Update][i] = bank[active][i]
          /\ \A n \in 2..(item - 1) :
               capsule[n] \in Images => bank[Update][capsule[n]] = updates
          /\ bank[Update][Payload] = updates
      BY <1>2, <1>4, <2>2 DEF IInv, Staged
    <3>3. \A n \in 2..(item' - 1) : n \in 2..(item - 1) \/ n = item
      BY <1>4, <3>1
    <3>4. \A n \in 2..(item' - 1) :
            capsule[n] \in Images => bank[Update][capsule[n]] = updates
      BY <3>2, <3>3 DEF Payload
    <3>5. QED
      BY <1>2, <1>5, <3>1, <3>2, <3>4 DEF Staged, Update, RealPayloads
  <2>3. CASE state # "staging" \/ pc' = "idle"
    BY <1>5, <2>3 DEF Staged, InCapsule, Reading, Updating
  <2>4. QED
    BY <2>1, <2>2, <2>3
<1>10. QED
    BY <1>6, <1>7, <1>8, <1>9 DEF IInv

\* A staging that is given up leaves the installed images as they are.
LEMMA CancelStagingStep ==
    ASSUME IInv, CancelStaging
    PROVE  IInv' /\ NoInstall
<1>1. PICK r \in Replies : AgentCancel(r) /\ IF r = "ok" THEN NextPayload ELSE Abort
    BY DEF CancelStaging
<1>2. /\ pc = "cancel" /\ InCapsule
      /\ UNCHANGED <<capsule, initialized, trialBoot, unaccepted, updates>>
    BY DEF CancelStaging, InCapsule, Updating
<1>3. /\ AgentTypeOK'
      /\ UNCHANGED <<bank, active>>
      /\ \/ UNCHANGED <<state, announced>> /\ r # "ok"
         \/ state = "staging" /\ state' = "regular"
    BY <1>1, AgentCancelType DEF IInv, Typed
<1>4. Typed'
    BY <1>1, <1>2, <1>3, NextPayloadTyped, AbortTyped DEF IInv
<1>5. NoInstall
    BY <1>3 DEF NoInstall, Update
<1>6. Older'
    BY <1>2, <1>3 DEF IInv, Older
<1>7. CASE state' = "regular"
    BY <1>4, <1>5, <1>6, <1>7 DEF IInv, Staged
<1>8. CASE UNCHANGED state /\ r # "ok"
  <2>1. ~InCapsule'
    BY <1>1, <1>8 DEF Abort, InCapsule, Reading, Updating
  <2>2. QED
    BY <1>4, <1>5, <1>6, <2>1 DEF IInv, Staged
<1>9. QED
    BY <1>3, <1>7, <1>8
\* What the agent makes the active bank has all the images of the capsule.
LEMMA EndStagingStep ==
    ASSUME IInv, EndStaging
    PROVE  /\ IInv'
           /\ NoInstall \/ Atomic!Install(RealPayloads(capsule), updates)
<1>1. PICK r \in Replies : /\ AgentEnd(r)
                           /\ IF r = "ok" THEN NextPayload ELSE Goto("cancel")
    BY DEF EndStaging
<1>2. /\ pc = "end" /\ InCapsule
      /\ UNCHANGED <<capsule, initialized, trialBoot, unaccepted, updates>>
    BY DEF EndStaging, InCapsule, Updating
<1>3. /\ AgentTypeOK'
      /\ UNCHANGED bank
      /\ \/ UNCHANGED <<state, announced, accepted, active>>
         \/ state = "staging" /\ state' = "trial" /\ active' = Update
    BY <1>1, AgentEndType DEF IInv, Typed
<1>4. Typed'
    BY <1>1, <1>2, <1>3, NextPayloadTyped, GotoTyped DEF IInv, Updating
<1>5. /\ capsule \in Capsules /\ Len(capsule) \in Nat \ {0} /\ DOMAIN capsule = 1..Len(capsule)
      /\ capsule[1] = DUMMY_START /\ Payload = DUMMY_END
      /\ item = Len(capsule) /\ item > 1
  <2>1. /\ capsule \in Capsules /\ item \in 1..Len(capsule)
        /\ capsule[item] = DUMMY_END /\ Payload = DUMMY_END
    BY <1>2 DEF IInv, Typed, Control, Position, Payload
  <2>2. /\ Len(capsule) \in Nat \ {0} /\ DOMAIN capsule = 1..Len(capsule)
        /\ capsule[1] = DUMMY_START /\ item = Len(capsule)
    BY <2>1, CapsuleType
  <2>3. item # 1
    BY <2>1, <2>2, ConstantsType
  <2>4. QED
    BY <2>1, <2>2, <2>3
<1>6. Older'
  <2>1. \A b \in Banks, i \in Images : bank'[b][i] <= updates'
    BY <1>2, <1>3 DEF IInv, Older
  <2>2. state' # "trial" => \A i \in Images : bank'[active'][i] < updates'
    BY <1>2, <1>3 DEF IInv, Older
  <2>3. QED
    BY <2>1, <2>2 DEF Older
<1>7. Staged'
  <2>1. CASE r = "ok"
    <3>1. pc' = "idle"
      BY <1>1, <1>5, <2>1 DEF NextPayload
    <3>2. QED
      BY <3>1 DEF Staged, InCapsule, Reading, Updating
  <2>2. CASE r # "ok"
    BY <1>1, <2>2 DEF Goto, Staged
  <2>3. QED
    BY <2>1, <2>2
<1>8. CASE UNCHANGED <<state, announced, accepted, active>>
  <2>1. NoInstall
    BY <1>3, <1>8 DEF NoInstall, Update
  <2>2. QED
    BY <1>4, <1>6, <1>7, <2>1 DEF IInv
<1>9. CASE state = "staging" /\ state' = "trial" /\ active' = Update
  <2>1. /\ announced = RealPayloads(capsule)
        /\ \A i \in Images \ announced : bank[Update][i] = bank[active][i]
        /\ \A n \in 2..(item - 1) :
             capsule[n] \in Images => bank[Update][capsule[n]] = updates
    BY <1>2, <1>5, <1>9 DEF IInv, Staged
  <2>2. \A i \in RealPayloads(capsule) : bank[Update][i] = updates
    <3>1. SUFFICES ASSUME NEW n \in 1..Len(capsule), capsule[n] \in Images
                   PROVE  bank[Update][capsule[n]] = updates
      BY <1>5 DEF RealPayloads
    <3>2. n # 1 /\ n # Len(capsule)
      BY <1>5, <3>1, ConstantsType DEF Payload
    <3>3. n \in 2..(item - 1)
      <4>1. Len(capsule) \in Nat /\ item = Len(capsule) /\ n \in 1..Len(capsule)
        BY <1>5, <3>1
      <4>2. QED
        BY <3>2, <4>1
    <3>4. QED
      BY <2>1, <3>1, <3>3
  <2>3. \A i \in Images : bank[Update][i] =
          IF i \in RealPayloads(capsule) THEN updates ELSE bank[active][i]
    BY <2>1, <2>2
  <2>4. bank[Update] = [i \in Images |-> IF i \in RealPayloads(capsule) THEN updates
                                         ELSE bank[active][i]]
    <3>1. bank[Update] = [i \in Images |-> bank[Update][i]]
      BY BankType DEF IInv, Typed
    <3>2. QED
      BY <2>3, <3>1
  <2>5. \A i \in Images : bank[active][i] < updates
    BY <1>2, <1>9 DEF IInv, Older
  <2>6. bank'[active'] = bank[Update] /\ bank'[Update'] = bank[active]
    <3>1. Update' = active
      BY <1>9, BankType DEF IInv, Typed, Update
    <3>2. QED
      BY <1>3, <1>9, <3>1
  <2>7. Atomic!Install(RealPayloads(capsule), updates)
    BY <1>9, <2>4, <2>5, <2>6 DEF Atomic!Install
  <2>8. QED
    BY <1>4, <1>6, <1>7, <2>7 DEF IInv
<1>10. QED
    BY <1>3, <1>8, <1>9

-----------------------------------------------------------------------------
(***************************************************************************)
(* The steps outside of a capsule.                                         *)
(***************************************************************************)
\* To accept the last image ends the trial.
LEMMA AcceptImageStep ==
    ASSUME IInv, AcceptImage
    PROVE  IInv' /\ (NoInstall \/ Atomic!Confirm)
<1>1. PICK i \in unaccepted, r \in Replies :
        /\ AgentAccept(i, r)
        /\ unaccepted' = unaccepted \ {i}
        /\ pc' \in {"accept", "os"}
    BY DEF AcceptImage
<1>2. UNCHANGED <<capsule, item, info, initialized, trialBoot, result, updates>>
    BY DEF AcceptImage
<1>3. unaccepted \subseteq Images
    BY DEF IInv, Typed, Control, DataTypeOK
<1>4. /\ AgentTypeOK'
      /\ UNCHANGED <<bank, active, announced>>
      /\ state' = state \/ (state = "trial" /\ state' = "regular")
    BY <1>1, <1>3, AgentAcceptType DEF IInv, Typed
<1>5. Typed'
  <2>1. ControlTypeOK' /\ FlagTypeOK'
    BY <1>1, <1>2 DEF IInv, Typed, Control, ControlTypeOK, FlagTypeOK
  <2>2. unaccepted' \subseteq Images
    BY <1>1, <1>3
  <2>3. Control'
    BY <1>1, <1>2, <2>1, <2>2, LeaveControl DEF IInv, Typed
  <2>4. QED
    BY <1>4, <2>1, <2>3 DEF Typed
<1>6. ~InCapsule'
    BY <1>1 DEF InCapsule, Reading, Updating
<1>7. IInv'
  <2>1. \A b \in Banks, i_1 \in Images : bank'[b][i_1] <= updates
    BY <1>4 DEF IInv, Older
  <2>2. QED
    BY <1>2, <1>5, <1>6, <2>1, OutsideStep
<1>8. CASE state' = state
    BY <1>4, <1>7, <1>8 DEF NoInstall, Update
<1>9. CASE state = "trial" /\ state' = "regular"
    BY <1>4, <1>7, <1>9 DEF Atomic!Confirm, Update
<1>10. QED
    BY <1>4, <1>8, <1>9

\* A reset keeps the firmware or brings the one before the trial back.
LEMMA ResetStep ==
    ASSUME IInv, Reset
    PROVE  IInv' /\ (NoInstall \/ Atomic!RollBack)
<1>1. /\ AgentTypeOK'
      /\ UNCHANGED bank
      /\ \/ /\ active' = active
            /\ state' = IF state = "staging" THEN "regular" ELSE state
         \/ state = "trial" /\ state' = "regular" /\ active' = Update
    BY AgentResetType DEF IInv, Typed, Reset
<1>2. Query("boot") \in Infos /\ Query("boot").caller # "capsule"
    BY DEF Query, Infos
<1>3. ControlTypeOK' /\ FlagTypeOK'
    BY <1>2 DEF Reset, ControlTypeOK, FlagTypeOK
<1>4. DataTypeOK'
  <2>1. capsule' = <<>> /\ item' \in 0..Len(capsule')
    BY DEF Reset
  <2>2. unaccepted' \subseteq Images /\ updates' \in 0..MaxCapsules
    BY DEF Reset, IInv, Typed, Control, DataTypeOK
  <2>3. QED
    BY <2>1, <2>2 DEF DataTypeOK
<1>5. Position' /\ ~InCapsule'
    BY <1>2 DEF Reset, Position, InCapsule, Reading, Updating
<1>6. IInv'
  <2>1. \A b \in Banks, i \in Images : bank'[b][i] <= updates
    BY <1>1 DEF IInv, Older
  <2>2. Typed' /\ UNCHANGED updates
    BY <1>1, <1>3, <1>4, <1>5 DEF Typed, Control, Reset
  <2>3. QED
    BY <1>5, <2>1, <2>2, OutsideStep
<1>7. CASE /\ active' = active
           /\ state' = IF state = "staging" THEN "regular" ELSE state
    BY <1>1, <1>6, <1>7 DEF NoInstall, Update
<1>8. CASE state = "trial" /\ state' = "regular" /\ active' = Update
    BY <1>1, <1>6, <1>8 DEF Atomic!RollBack, Update
<1>9. QED
    BY <1>1, <1>7, <1>8
\* A query of the image info leaves the store and the capsule alone.
LEMMA QueryStep ==
    ASSUME IInv, GetImageInfo \/ AgentInitialize \/ OpenImage \/ ReadImage \/ CloseImage
    PROVE  IInv' /\ NoInstall
<1>1. Typed'
    BY QueryTyped DEF IInv
<1>2. UNCHANGED <<state, announced, bank, active, updates>>
  <2>1. info.of \in Handles
    BY ConstantsType DEF IInv, Typed, Control, ControlTypeOK, Infos
  <2>2. CASE OpenImage
    <3>1. PICK r \in Replies : AgentOpen(info.of, r)
      BY <2>2 DEF OpenImage
    <3>2. QED
      BY <2>1, <2>2, <3>1, AgentOpenType DEF IInv, Typed, OpenImage
  <2>3. CASE CloseImage
    <3>1. PICK r \in Replies : AgentClose(info.of, r)
      BY <2>3 DEF CloseImage
    <3>2. QED
      BY <2>1, <2>3, <3>1, AgentCloseType DEF IInv, Typed, CloseImage
  <2>4. CASE GetImageInfo \/ AgentInitialize \/ ReadImage
    BY <2>4 DEF GetImageInfo, AgentInitialize, ReadImage, agentVars
  <2>5. QED
    BY <2>2, <2>3, <2>4
<1>3. InCapsule' => /\ InCapsule /\ UNCHANGED <<capsule, item>>
                    /\ pc # "cancel" /\ pc' \notin {"commit", "resume"}
  <2>1. CASE GetImageInfo
    BY <2>1 DEF GetImageInfo, InCapsule, Query, Reading, Updating
  <2>2. CASE AgentInitialize /\ Goto("open")
    BY <2>2 DEF AgentInitialize, Goto, InCapsule, Reading, Updating
  <2>3. CASE OpenImage /\ Goto("read")
    BY <2>3 DEF OpenImage, Goto, InCapsule, Reading, Updating
  <2>4. CASE (AgentInitialize \/ OpenImage) /\ InfoFails
    BY <2>4 DEF InfoFails, InCapsule, Reading, Updating
  <2>5. CASE ReadImage
    <3>1. info'.caller = info.caller
      BY <2>5, InfosType DEF ReadImage, IInv, Typed, Control, ControlTypeOK
    <3>2. QED
      BY <2>5, <3>1 DEF ReadImage, InCapsule, Reading, Updating
  <2>6. CASE CloseImage
    <3>1. AfterClose /\ pc = "close" /\ UNCHANGED capsule
      BY <2>6 DEF CloseImage
    <3>2. QED
      BY <3>1, AfterCloseType DEF IInv, Typed, Control, InCapsule, Reading, Updating
  <2>7. /\ AgentInitialize => Goto("open") \/ InfoFails
        /\ OpenImage => Goto("read") \/ InfoFails
    <3>1. AgentInitialize => Goto("open") \/ InfoFails
      BY DEF AgentInitialize
    <3>2. OpenImage => Goto("read") \/ InfoFails
      BY DEF OpenImage
    <3>3. QED
      BY <3>1, <3>2
  <2>8. QED
    BY <2>1, <2>2, <2>3, <2>4, <2>5, <2>6, <2>7
<1>4. QED
    BY <1>1, <1>2, <1>3, QuietStep

\* A commit that yields leaves the store alone, too.
LEMMA YieldStep ==
    ASSUME IInv, CommitYields \/ Resume \/ ResumeRejected
    PROVE  IInv' /\ NoInstall
<1>1. Typed'
    BY YieldTyped DEF IInv
<1>2. UNCHANGED <<state, announced, bank, active, updates, capsule>>
    BY DEF CommitYields, Resume, ResumeRejected, agentVars
<1>3. InCapsule' => /\ InCapsule /\ UNCHANGED item
                    /\ pc # "cancel"
                    /\ pc' \in {"commit", "resume"} => pc \in {"commit", "resume"}
  <2>1. CASE CommitYields
    BY <2>1 DEF CommitYields, Goto, InCapsule, Reading, Updating
  <2>2. CASE Resume
    BY <2>2 DEF Resume, Goto, InCapsule, Reading, Updating
  <2>3. CASE ResumeRejected /\ pc = "resume" /\ Goto("cancel")
    BY <2>3 DEF Goto, InCapsule, Reading, Updating
  <2>4. CASE ResumeRejected /\ pc = "resumeclose" /\ AfterClose
    BY <2>4, AfterCloseType DEF IInv, Typed, Control, InCapsule, Reading, Updating
  <2>5. QED
    BY <2>1, <2>2, <2>3, <2>4 DEF ResumeRejected
<1>4. QED
    BY <1>1, <1>2, <1>3, QuietStep

\* A stream that gets nowhere has nothing in the store to change.
LEMMA StallStep ==
    ASSUME IInv, StreamStalls \/ StreamIsLeft
    PROVE  IInv' /\ NoInstall
<1>1. Typed'
    BY StallTyped DEF IInv
<1>2. UNCHANGED <<state, announced, bank, active, updates, capsule>>
    BY DEF StreamStalls, StreamIsLeft, agentVars
<1>3. InCapsule' => /\ InCapsule /\ UNCHANGED item
                    /\ pc # "cancel" /\ pc' \notin {"commit", "resume"}
  <2>1. CASE StreamStalls
    BY <2>1 DEF StreamStalls, Goto, InCapsule, Reading, Updating
  <2>2. CASE StreamIsLeft /\ pc = "writing"
    BY <2>2 DEF StreamIsLeft, Goto, InCapsule, Reading, Updating
  <2>3. CASE StreamIsLeft /\ pc = "reading"
    <3>1. info'.caller = info.caller
      BY <2>3, InfosType DEF StreamIsLeft, IInv, Typed, Control, ControlTypeOK
    <3>2. QED
      BY <2>3, <3>1 DEF StreamIsLeft, InCapsule, Reading, Updating
  <2>4. QED
    BY <2>1, <2>2, <2>3 DEF StreamIsLeft
<1>4. QED
    BY <1>1, <1>2, <1>3, QuietStep

\* The steps of a payload that do not get to the store.
LEMMA PayloadStep ==
    ASSUME IInv, VerifyImage \/ BadCapsule \/ OpenWrite
    PROVE  IInv' /\ NoInstall
<1>1. CASE VerifyImage
  <2>1. Typed' /\ pc' \notin {"commit", "resume"} /\ item' = item
    BY <1>1, VerifyTyped DEF IInv
  <2>2. InCapsule /\ pc # "cancel"
    BY <1>1 DEF VerifyImage, InCapsule, Updating
  <2>3. UNCHANGED <<state, announced, bank, active, updates, capsule>>
    BY <1>1 DEF VerifyImage, agentVars
  <2>4. QED
    BY <2>1, <2>2, <2>3, QuietStep
<1>2. CASE BadCapsule
  <2>1. AgentTypeOK' /\ UNCHANGED <<state, announced, bank, active, updates>>
    BY <1>2, AgentUnchanged DEF BadCapsule, agentVars, IInv, Typed
  <2>2. Typed'
    BY <1>2, <2>1, AbortTyped DEF BadCapsule, IInv
  <2>3. ~InCapsule'
    BY <1>2 DEF BadCapsule, Abort, InCapsule, Reading, Updating
  <2>4. QED
    BY <2>1, <2>2, <2>3, QuietStep
<1>3. CASE OpenWrite
  <2>1. PICK r \in Replies : /\ AgentOpen(Payload, r)
                             /\ Goto(IF r = "ok" THEN "write" ELSE "cancel")
    BY <1>3 DEF OpenWrite
  <2>2. Payload \in Images /\ InCapsule
    BY <1>3 DEF OpenWrite, IInv, Typed, Control, Position, InCapsule, Updating
  <2>3. AgentTypeOK' /\ UNCHANGED <<state, announced, bank, active>>
    BY <2>1, <2>2, AgentOpenType, ConstantsType DEF IInv, Typed
  <2>4. Typed'
    BY <1>3, <2>1, <2>2, <2>3, GotoTyped DEF OpenWrite, IInv, Updating
  <2>5. pc' \in {"write", "cancel"} /\ pc # "cancel" /\ UNCHANGED <<item, capsule, updates>>
    BY <1>3, <2>1 DEF OpenWrite, Goto
  <2>6. QED
    BY <2>2, <2>3, <2>4, <2>5, QuietStep
<1>4. QED
    BY <1>1, <1>2, <1>3

\* The operating system is started, with or without a trial to confirm.
LEMMA LeaveStep ==
    ASSUME IInv, ExitBootServices \/ AllAccepted
    PROVE  IInv' /\ NoInstall
<1>1. /\ pc' \in {"accept", "os"}
      /\ UNCHANGED <<agentVars, capsule, item, info, initialized, trialBoot,
                     unaccepted, result, updates>>
    BY DEF ExitBootServices, AllAccepted
<1>2. AgentTypeOK' /\ FlagTypeOK' /\ ControlTypeOK' /\ unaccepted' \subseteq Images
    BY <1>1, AgentUnchanged
       DEF IInv, Typed, Control, ControlTypeOK, DataTypeOK, FlagTypeOK
<1>3. Typed'
    BY <1>1, <1>2, LeaveControl DEF IInv, Typed
<1>4. ~InCapsule'
    BY <1>1 DEF InCapsule, Reading, Updating
<1>5. QED
    BY <1>1, <1>3, <1>4, QuietStep DEF agentVars

\* And so does a step that changes nothing.
LEMMA StutterStep ==
    ASSUME IInv, UNCHANGED vars
    PROVE  IInv' /\ NoInstall
<1>1. UNCHANGED <<agentVars, pc, capsule, item, info, initialized, trialBoot,
                  unaccepted, result, updates>>
    BY DEF vars, clientVars
<1>2. AgentTypeOK' /\ FlagTypeOK' /\ Control'
    BY <1>1, AgentUnchanged
       DEF IInv, Typed, Control, ControlTypeOK, DataTypeOK, FlagTypeOK, Position,
           InCapsule, Payload
<1>3. QED
    BY <1>1, <1>2, QuietStep DEF Typed, InCapsule, agentVars
-----------------------------------------------------------------------------
(***************************************************************************)
(* The theorems.                                                           *)
(***************************************************************************)
\* Every step keeps the invariant and is, for the firmware of the next boot, the
\* installation of a capsule, its confirmation, a return to what was before, or
\* nothing.
LEMMA StepIsAtomic ==
    ASSUME IInv, [Next]_vars
    PROVE  IInv' /\ [Atomic!Next]_(Atomic!vars)
<1>1. NoInstall => UNCHANGED Atomic!vars
    BY DEF NoInstall, Atomic!vars
<1>2. CASE SubmitCapsule
    BY <1>1, <1>2, SubmitCapsuleStep
<1>3. CASE GetImageInfo \/ AgentInitialize \/ OpenImage \/ ReadImage \/ CloseImage
    BY <1>1, <1>3, QueryStep
<1>4. CASE VerifyImage \/ BadCapsule \/ OpenWrite
    BY <1>1, <1>4, PayloadStep
<1>5. CASE BeginStaging
    BY <1>1, <1>5, BeginStagingStep
<1>6. CASE WriteImage
    BY <1>1, <1>6, WriteImageStep
<1>7. CASE CommitImage
    BY <1>1, <1>7, CommitImageStep
<1>8. CASE CommitYields \/ Resume \/ ResumeRejected
    BY <1>1, <1>8, YieldStep
<1>9. CASE EndStaging
  <2>1. IInv' /\ (NoInstall \/ Atomic!Install(RealPayloads(capsule), updates))
    BY <1>9, EndStagingStep
  <2>2. RealPayloads(capsule) \in {RealPayloads(c) : c \in Capsules}
    <3>1. pc = "end"
      BY <1>9 DEF EndStaging
    <3>2. capsule \in Capsules
      BY <3>1 DEF IInv, Typed, Control, Position, InCapsule, Updating
    <3>3. QED
      BY <3>2
  <2>3. updates \in Versions
    BY DEF IInv, Typed, Control, DataTypeOK, Versions
  <2>4. QED
    BY <1>1, <2>1, <2>2, <2>3 DEF Atomic!Next
<1>10. CASE CancelStaging
    BY <1>1, <1>10, CancelStagingStep
<1>11. CASE ExitBootServices \/ AllAccepted
    BY <1>1, <1>11, LeaveStep
<1>12. CASE AcceptImage
    BY <1>1, <1>12, AcceptImageStep DEF Atomic!Next
<1>13. CASE Reset
    BY <1>1, <1>13, ResetStep DEF Atomic!Next
<1>14. CASE UNCHANGED vars
    BY <1>1, <1>14, StutterStep
<1>15. CASE StreamStalls \/ StreamIsLeft
    BY <1>1, <1>15, StallStep
<1>16. QED
    BY <1>2, <1>3, <1>4, <1>5, <1>6, <1>7, <1>8, <1>9, <1>10, <1>11, <1>12, <1>13,
       <1>14, <1>15 DEF Next, ProcessCapsule, ReadInfo

\* The first firmware is version 0 in both banks.
LEMMA InitIsAtomic == Init => Atomic!Init
<1> SUFFICES ASSUME Init PROVE Atomic!Init
    OBVIOUS
<1>1. state = "regular" /\ active = 0 /\ bank = [b \in Banks |-> [i \in Images |-> 0]]
    BY DEF Init, AgentInit
<1>2. bank[active] = [i \in Images |-> 0]
    BY <1>1 DEF Banks
<1>3. QED
    BY <1>1, <1>2 DEF Atomic!Init

\* The state of U-Boot and of the agent has its type, and the client is where it
\* may be in the capsule: in every step of fwu_update_image() the payload is of the
\* kind the step is for.
THEOREM ClientTypeCorrect == Spec => [](TypeOK /\ Position)
<1>1. Init => IInv
    BY InitIInv
<1>2. IInv /\ [Next]_vars => IInv'
    BY StepIsAtomic
<1>3. IInv => TypeOK /\ Position
    BY TypedIsTypeOK DEF IInv
<1>4. QED
    BY <1>1, <1>2, <1>3, PTL DEF Spec

\* Whatever the agent answers and whenever the board is reset, the firmware of
\* the next boot changes as AtomicUpdate says: to all the images of one capsule
\* and the old ones for the rest, or back as a whole.
THEOREM ClientIsAtomic == Spec => UpdateIsAtomic
<1>1. Init => IInv
    BY InitIInv
<1>2. Init => Atomic!Init
    BY InitIsAtomic
<1>3. IInv /\ [Next]_vars => IInv' /\ [Atomic!Next]_(Atomic!vars)
    BY StepIsAtomic
<1>4. QED
    BY <1>1, <1>2, <1>3, PTL DEF Spec, UpdateIsAtomic, Atomic!Spec
-----------------------------------------------------------------------------
(***************************************************************************)
(* A capsule that failed has not changed the firmware.                     *)
(***************************************************************************)
\* As long as no reply is lost, what is being processed, or has failed, is newer
\* than everything the next boot runs.
Kept ==
    "lose" \notin faults /\ (InCapsule \/ result = "failure") =>
      \A i \in Images : bank[active][i] < updates

\* What may go wrong does not change.
LEMMA FaultsAreFixed ==
    ASSUME [Next]_vars
    PROVE  faults' = faults
<1> USE DEF agentVars
<1>1. CASE UNCHANGED vars
    BY <1>1 DEF vars
<1>2. CASE SubmitCapsule \/ GetImageInfo
    BY <1>2 DEF SubmitCapsule, GetImageInfo
<1>3. CASE ReadInfo
    BY <1>3 DEF ReadInfo, AgentInitialize, OpenImage, ReadImage, CloseImage,
       AgentOpen, AgentClose, Reply
<1>4. CASE \/ VerifyImage \/ BadCapsule \/ CommitYields \/ Resume \/ ResumeRejected
           \/ StreamStalls \/ StreamIsLeft
    BY <1>4 DEF VerifyImage, BadCapsule, CommitYields, Resume, ResumeRejected,
       StreamStalls, StreamIsLeft
<1>5. CASE BeginStaging \/ OpenWrite \/ CommitImage
    BY <1>5 DEF BeginStaging, OpenWrite, CommitImage, AgentBegin, AgentOpen,
       AgentClose, Reply
<1>6. CASE WriteImage
    BY <1>6 DEF WriteImage, AgentWrite, SetImage, Reply
<1>7. CASE EndStaging \/ CancelStaging
    BY <1>7 DEF EndStaging, CancelStaging, AgentEnd, AgentCancel, Reply
<1>8. CASE ExitBootServices \/ AcceptImage \/ AllAccepted
    BY <1>8 DEF ExitBootServices, AcceptImage, AllAccepted, AgentAccept, Reply
<1>9. CASE Reset
    BY <1>9 DEF Reset, AgentReset
<1>10. QED
    BY <1>1, <1>2, <1>3, <1>4, <1>5, <1>6, <1>7, <1>8, <1>9 DEF Next, ProcessCapsule

\* A capsule is only entered by its submission, and only fails from within.
LEMMA FailureIsOfCapsule ==
    ASSUME IInv, [Next]_vars, ~SubmitCapsule, InCapsule' \/ result' = "failure"
    PROVE  (InCapsule \/ result = "failure") /\ updates' = updates
<1>1. CASE UNCHANGED vars
    BY <1>1 DEF vars, clientVars, InCapsule
<1>2. CASE GetImageInfo \/ ExitBootServices \/ AllAccepted \/ AcceptImage \/ Reset
    BY <1>2 DEF GetImageInfo, ExitBootServices, AllAccepted, AcceptImage, Reset,
       InCapsule, Query, Reading, Updating
<1>3. CASE ReadInfo \/ ResumeRejected \/ StreamStalls \/ StreamIsLeft
  <2>1. pc \in Reading \cup Updating /\ updates' = updates
    BY <1>3 DEF ReadInfo, AgentInitialize, OpenImage, ReadImage, CloseImage,
       ResumeRejected, StreamStalls, StreamIsLeft, Reading, Updating
  <2>2. CASE InCapsule
    BY <2>1, <2>2
  <2>3. CASE ~InCapsule
    <3>1. pc \in Reading /\ pc \notin Updating /\ info.caller # "capsule"
      BY <2>1, <2>3 DEF InCapsule
    <3>2. \/ Goto("open") \/ Goto("read") \/ Goto("reading") \/ InfoFails \/ AfterClose
          \/ pc' = "close" /\ result' = result /\ info'.caller = info.caller
      <4>1. CASE ReadImage
        BY <4>1, InfosType DEF ReadImage, IInv, Typed, Control, ControlTypeOK
      <4>2. CASE AgentInitialize \/ OpenImage \/ CloseImage
        BY <4>2 DEF AgentInitialize, OpenImage, CloseImage
      <4>3. CASE ResumeRejected
        BY <3>1, <4>3 DEF ResumeRejected, Reading, Updating
      <4>4. CASE StreamStalls
        BY <3>1, <4>4 DEF StreamStalls, Reading, Updating
      <4>5. CASE StreamIsLeft
        <5>1. pc = "reading"
          BY <3>1, <4>5 DEF StreamIsLeft, Updating
        <5>2. QED
          BY <4>5, <5>1, InfosType DEF StreamIsLeft, IInv, Typed, Control, ControlTypeOK
      <4>6. QED
        BY <1>3, <4>1, <4>2, <4>3, <4>4, <4>5 DEF ReadInfo
    <3>3. CASE AfterClose \/ InfoFails
      <4>1. result' = result
        BY <3>1, <3>3 DEF AfterClose, InfoFails, InfoDone
      <4>2. pc' = "idle" \/ (pc' = "open" /\ info'.caller = info.caller)
        <5>1. CASE AfterClose
          BY <3>1, <5>1, AfterCloseType DEF IInv, Typed, Control
        <5>2. CASE InfoFails
          BY <5>2 DEF InfoFails
        <5>3. QED
          BY <3>3, <5>1, <5>2
      <4>3. ~InCapsule'
        BY <3>1, <4>2 DEF InCapsule, Reading, Updating
      <4>4. QED
        BY <2>1, <4>1, <4>3
    <3>4. CASE \/ Goto("open") \/ Goto("read") \/ Goto("reading")
               \/ pc' = "close" /\ result' = result /\ info'.caller = info.caller
      <4>1. result' = result /\ ~InCapsule'
        BY <3>1, <3>4 DEF Goto, InCapsule, Reading, Updating
      <4>2. QED
        BY <2>1, <4>1
    <3>5. QED
      BY <3>2, <3>3, <3>4
  <2>4. QED
    BY <2>2, <2>3
<1>4. CASE ProcessCapsule
  <2>1. updates' = updates
    BY <1>4 DEF ProcessCapsule, VerifyImage, BadCapsule, BeginStaging, OpenWrite,
       WriteImage, CommitImage, CommitYields, Resume, EndStaging, CancelStaging
  <2>2. CASE CommitYields \/ Resume
    BY <2>1, <2>2 DEF CommitYields, Resume, Goto, InCapsule, Reading, Updating
  <2>3. CASE ~(CommitYields \/ Resume)
    <3>1. pc \in Updating
      BY <1>4, <2>3 DEF ProcessCapsule, VerifyImage, BadCapsule, BeginStaging,
         OpenWrite, WriteImage, CommitImage, EndStaging, CancelStaging, Updating
    <3>2. QED
      BY <2>1, <3>1 DEF InCapsule
  <2>4. QED
    BY <2>2, <2>3
<1>5. QED
    BY <1>1, <1>2, <1>3, <1>4 DEF Next

\* The end of a staging either changes nothing or is the end of the capsule.
LEMMA EndStagingKept ==
    ASSUME IInv, EndStaging, "lose" \notin faults, InCapsule' \/ result' = "failure"
    PROVE  UNCHANGED <<bank, active>>
<1>1. PICK r \in Replies : /\ AgentEnd(r)
                           /\ IF r = "ok" THEN NextPayload ELSE Goto("cancel")
    BY DEF EndStaging
<1>2. CASE r = "ok"
  <2>1. /\ capsule \in Capsules /\ item \in 1..Len(capsule)
        /\ capsule[item] = DUMMY_END
    BY DEF EndStaging, IInv, Typed, Control, Position, InCapsule, Updating, Payload
  <2>2. item = Len(capsule)
    BY <2>1, CapsuleType
  <2>3. pc' = "idle" /\ result' = "success"
    BY <1>1, <1>2, <2>2 DEF NextPayload
  <2>4. QED
    BY <2>3 DEF InCapsule, Reading, Updating
<1>3. CASE r # "ok"
  <2>1. UNCHANGED agentVars
    BY <1>1, <1>3 DEF AgentEnd, Reply
  <2>2. QED
    BY <2>1 DEF agentVars
<1>4. QED
    BY <1>2, <1>3

\* So it is kept by every step.
LEMMA KeptNext ==
    ASSUME IInv, Kept, [Next]_vars
    PROVE  Kept'
<1>1. SUFFICES ASSUME "lose" \notin faults, InCapsule' \/ result' = "failure"
               PROVE  \A i \in Images : bank'[active'][i] < updates'
    BY FaultsAreFixed DEF Kept
<1>2. CASE SubmitCapsule
  <2>1. UNCHANGED <<bank, active>> /\ updates' = updates + 1 /\ updates \in Int
    BY <1>2 DEF SubmitCapsule, agentVars, IInv, Typed, Control, DataTypeOK
  <2>2. \A i \in Images : bank[active][i] <= updates /\ bank[active][i] \in Int
    BY BankType DEF IInv, Typed, Older
  <2>3. QED
    BY <2>1, <2>2
<1>3. CASE ~SubmitCapsule
  <2>1. updates' = updates /\ \A i \in Images : bank[active][i] < updates
    BY <1>1, <1>3, FailureIsOfCapsule DEF Kept
  <2>2. bank'[active'] = bank[active]
    <3>1. CASE EndStaging
      BY <1>1, <3>1, EndStagingKept
    <3>2. CASE AcceptImage
      BY <3>2, AcceptImageStep DEF NoInstall, Atomic!Confirm
    <3>3. CASE Reset
      BY <1>1, <3>3 DEF Reset, InCapsule, Reading, Updating
    <3>4. CASE GetImageInfo \/ ReadInfo
      BY <3>4, QueryStep DEF ReadInfo, NoInstall
    <3>5. CASE CommitYields \/ Resume \/ ResumeRejected
      BY <3>5, YieldStep DEF NoInstall
    <3>6. CASE ProcessCapsule
      BY <3>1, <3>5, <3>6, PayloadStep, BeginStagingStep, WriteImageStep,
         CommitImageStep, CancelStagingStep DEF ProcessCapsule, NoInstall
    <3>7. CASE ExitBootServices \/ AllAccepted
      BY <3>7, LeaveStep DEF NoInstall
    <3>8. CASE UNCHANGED vars
      BY <3>8, StutterStep DEF NoInstall
    <3>9. CASE StreamStalls \/ StreamIsLeft
      BY <3>9, StallStep DEF NoInstall
    <3>10. QED
      BY <1>3, <3>1, <3>2, <3>3, <3>4, <3>5, <3>6, <3>7, <3>8, <3>9 DEF Next
  <2>3. QED
    BY <2>1, <2>2
<1>4. QED
    BY <1>2, <1>3

\* "The previously installed firmware is retained" when a capsule fails: none of
\* its images is what the next boot runs, as long as no reply of the agent is
\* lost.
THEOREM FailureIsHarmless == Spec => []FailureKeepsFirmware
<1>1. Init => IInv /\ Kept
  <2>1. Init => Kept
    BY DEF Init, Kept, InCapsule, Query, Reading, Updating
  <2>2. QED
    BY <2>1, InitIInv
<1>2. IInv /\ Kept /\ [Next]_vars => (IInv /\ Kept)'
    BY StepIsAtomic, KeptNext
<1>3. IInv /\ Kept => FailureKeepsFirmware
  <2>1. SUFFICES ASSUME IInv, Kept, "lose" \notin faults, result = "failure"
                 PROVE  \A i \in Images : bank[active][i] # updates
    BY DEF FailureKeepsFirmware, NotInstalled
  <2>2. \A i \in Images : bank[active][i] < updates /\ bank[active][i] \in Int
    BY <2>1, BankType DEF Kept, IInv, Typed
  <2>3. updates \in Int
    BY <2>1 DEF IInv, Typed, Control, DataTypeOK
  <2>4. QED
    BY <2>2, <2>3
<1>4. QED
    BY <1>1, <1>2, <1>3, PTL DEF Spec

-----------------------------------------------------------------------------
(***************************************************************************)
(* What U-Boot leaves to the operating system and says of a capsule, for   *)
(* any number of images, handles and capsules: a trial is confirmed, the   *)
(* handles are closed, and a success is one of all images or of none.      *)
(***************************************************************************)
\* The operating system is about to be started, or has been.
Leaving == {"accept", "os"}

-----------------------------------------------------------------------------
(***************************************************************************)
(* Which steps matter.                                                     *)
(***************************************************************************)
\* Only these steps touch the state of the agent that decides about a trial.
LEMMA OtherSteps ==
    ASSUME [Next]_vars,
           ~(BeginStaging \/ EndStaging \/ CancelStaging \/ AcceptImage \/ Reset)
    PROVE  UNCHANGED <<state, accepted, active, booted, trialBoot, unaccepted>>
<1> USE DEF agentVars
<1>1. CASE UNCHANGED vars
    BY <1>1 DEF vars, clientVars
<1>2. CASE SubmitCapsule \/ GetImageInfo
    BY <1>2 DEF SubmitCapsule, GetImageInfo
<1>3. CASE ReadInfo
    BY <1>3 DEF ReadInfo, AgentInitialize, OpenImage, ReadImage, CloseImage,
       AgentOpen, AgentClose, Reply
<1>4. CASE \/ VerifyImage \/ BadCapsule \/ CommitYields \/ Resume \/ ResumeRejected
           \/ StreamStalls \/ StreamIsLeft
    BY <1>4 DEF VerifyImage, BadCapsule, CommitYields, Resume, ResumeRejected,
       StreamStalls, StreamIsLeft
<1>5. CASE OpenWrite \/ CommitImage
    BY <1>5 DEF OpenWrite, CommitImage, AgentOpen, AgentClose, Reply
<1>6. CASE WriteImage
    BY <1>6 DEF WriteImage, AgentWrite, SetImage, Reply
<1>7. CASE ExitBootServices \/ AllAccepted
    BY <1>7 DEF ExitBootServices, AllAccepted
<1>8. QED
    BY <1>1, <1>2, <1>3, <1>4, <1>5, <1>6, <1>7 DEF Next, ProcessCapsule

\* U-Boot only leaves through ExitBootServices(), and then is back after a reset.
LEMMA LeavingSteps ==
    ASSUME IInv, [Next]_vars, ~(ExitBootServices \/ AcceptImage \/ AllAccepted),
           ~UNCHANGED vars
    PROVE  pc' \notin Leaving /\ (pc \in Leaving => Reset)
<1> USE DEF Leaving
<1>1. CASE SubmitCapsule \/ GetImageInfo \/ Reset
    BY <1>1 DEF SubmitCapsule, Find, GetImageInfo, Reset
<1>2. CASE ReadInfo \/ ResumeRejected \/ StreamStalls \/ StreamIsLeft
  <2>1. pc \notin Leaving
    BY <1>2 DEF ReadInfo, AgentInitialize, OpenImage, ReadImage, CloseImage, ResumeRejected,
       StreamStalls, StreamIsLeft
  <2>2. \/ Goto("open") \/ Goto("read") \/ Goto("cancel") \/ pc' = "close"
        \/ pc' \in {"reading", "writing"} \/ InfoFails \/ AfterClose
    BY <1>2 DEF ReadInfo, AgentInitialize, OpenImage, ReadImage, CloseImage, ResumeRejected,
       StreamStalls, StreamIsLeft, Goto
  <2>3. AfterClose => pc' \in {"idle", "verify", "open"}
    BY DEF AfterClose, InfoFails, InfoDone
  <2>4. QED
    BY <2>1, <2>2, <2>3 DEF Goto, InfoFails
<1>3. CASE ProcessCapsule
  <2>1. pc \notin Leaving
    BY <1>3 DEF ProcessCapsule, VerifyImage, BadCapsule, BeginStaging, OpenWrite,
       WriteImage, CommitImage, CommitYields, Resume, EndStaging, CancelStaging
  <2>2. \/ NextPayload \/ Abort
        \/ \E s \in {"begin", "end", "openwrite", "write", "commit", "resume",
                     "resumeclose", "cancel", "crashed"} : Goto(s)
    BY <1>3 DEF ProcessCapsule, VerifyImage, Verified, BadCapsule, BeginStaging, OpenWrite,
       WriteImage, CommitImage, CommitYields, Resume, EndStaging, CancelStaging
  <2>3. NextPayload => pc' \in {"idle", "open", "agentinit", "verify"}
    BY DEF NextPayload, Find
  <2>4. QED
    BY <2>1, <2>2, <2>3 DEF Goto, Abort
<1>4. QED
    BY <1>1, <1>2, <1>3 DEF Next

-----------------------------------------------------------------------------
(***************************************************************************)
(* The confirmation of a trial.                                            *)
(***************************************************************************)
\* An image is only not accepted in a trial, and a staging is of a system that
\* was booted from the active bank.
Banked ==
    /\ accepted # Images => state = "trial"
    /\ state = "staging" => booted = active

\* In a boot that found a trial, the trial is that of the bank it was booted from,
\* it is over when the last image that was not accepted is, and U-Boot knows which
\* ones are left.
Confirming ==
    trialBoot /\ faults = {} =>
        /\ booted = active
        /\ unaccepted \subseteq Images /\ accepted = Images \ unaccepted
        /\ state = IF unaccepted = {} THEN "regular" ELSE "trial"
        /\ pc \notin Leaving => unaccepted # {}
        /\ pc = "os" /\ initialized => unaccepted = {}

LEMMA BankedNext ==
    ASSUME IInv, Banked, [Next]_vars
    PROVE  Banked'
<1>1. CASE BeginStaging
  <2>1. PICK r \in Replies : AgentBegin(RealPayloads(capsule), r)
    BY <1>1 DEF BeginStaging
  <2>2. QED
    BY <2>1 DEF AgentBegin, Reply, Banked, agentVars
<1>2. CASE EndStaging
  <2>1. PICK r \in Replies : AgentEnd(r)
    BY <1>2 DEF EndStaging
  <2>2. QED
    BY <2>1 DEF AgentEnd, Reply, Banked, agentVars
<1>3. CASE CancelStaging
  <2>1. PICK r \in Replies : AgentCancel(r)
    BY <1>3 DEF CancelStaging
  <2>2. QED
    BY <2>1 DEF AgentCancel, Reply, Banked, agentVars
<1>4. CASE AcceptImage
  <2>1. PICK i \in unaccepted, r \in Replies : AgentAccept(i, r)
    BY <1>4 DEF AcceptImage
  <2>2. QED
    BY <2>1 DEF AgentAccept, Reply, Banked, agentVars
<1>5. CASE Reset
    BY <1>5 DEF Reset, AgentReset, Banked
<1>6. CASE ~(BeginStaging \/ EndStaging \/ CancelStaging \/ AcceptImage \/ Reset)
    BY <1>6, OtherSteps DEF Banked
<1>7. QED
    BY <1>1, <1>2, <1>3, <1>4, <1>5, <1>6

LEMMA ConfirmingNext ==
    ASSUME IInv, Banked, Confirming, [Next]_vars
    PROVE  Confirming'
<1>1. CASE Reset
  <2>1. accepted' \subseteq Images
    BY <1>1, AgentResetType DEF Reset, IInv, Typed, AgentTypeOK
  <2>2. accepted' # Images => state' = "trial"
    BY BankedNext DEF Banked
  <2>3. /\ pc' = "idle" /\ trialBoot' = (accepted' # Images)
        /\ unaccepted' = Images \ accepted' /\ booted' = active'
    BY <1>1 DEF Reset, AgentReset
  <2>4. QED
    BY <2>1, <2>2, <2>3 DEF Confirming, Leaving
<1>2. SUFFICES ASSUME ~Reset, trialBoot', faults' = {}
               PROVE  /\ booted' = active'
                      /\ unaccepted' \subseteq Images /\ accepted' = Images \ unaccepted'
                      /\ state' = IF unaccepted' = {} THEN "regular" ELSE "trial"
                      /\ pc' \notin Leaving => unaccepted' # {}
                      /\ pc' = "os" /\ initialized' => unaccepted' = {}
    BY <1>1 DEF Confirming
<1>3. faults = {}
    BY <1>2, FaultsAreFixed
<1>4. CASE BeginStaging \/ EndStaging \/ CancelStaging
  <2>1. pc \notin Leaving /\ trialBoot' = trialBoot /\ unaccepted' = unaccepted
    BY <1>4 DEF BeginStaging, EndStaging, CancelStaging, Leaving
  <2>2. state = "trial"
    BY <1>2, <1>3, <2>1 DEF Confirming
  <2>3. UNCHANGED <<state, accepted, active, booted>>
    BY <1>4, <2>2 DEF BeginStaging, EndStaging, CancelStaging, AgentBegin, AgentEnd,
       AgentCancel, Reply, agentVars
  <2>4. pc' \notin Leaving
    <3>1. pc \in {"begin", "end", "cancel"}
      BY <1>4 DEF BeginStaging, EndStaging, CancelStaging
    <3>2. ~(ExitBootServices \/ AcceptImage \/ AllAccepted)
      BY <3>1 DEF ExitBootServices, AcceptImage, AllAccepted
    <3>3. CASE UNCHANGED vars
      BY <2>1, <3>3 DEF vars, clientVars
    <3>4. QED
      BY <3>2, <3>3, LeavingSteps
  <2>5. QED
    BY <1>2, <1>3, <2>1, <2>2, <2>3, <2>4 DEF Confirming, Leaving
<1>5. CASE AcceptImage
  <2>1. PICK i \in unaccepted, r \in Replies :
          /\ AgentAccept(i, r)
          /\ unaccepted' = unaccepted \ {i}
          /\ pc' = IF r = "ok" THEN "accept" ELSE "os"
    BY <1>5 DEF AcceptImage
  <2>2. trialBoot
    BY <1>2, <1>5 DEF AcceptImage
  <2>3. /\ booted = active /\ unaccepted \subseteq Images
        /\ accepted = Images \ unaccepted /\ state = "trial"
    BY <1>3, <2>1, <2>2 DEF Confirming
  <2>4. /\ r = "ok" /\ accepted' = accepted \cup {i}
        /\ state' = IF accepted' = Images THEN "regular" ELSE "trial"
        /\ booted' = booted /\ active' = active
    BY <1>3, <2>1, <2>3 DEF AgentAccept, Reply
  <2>5. accepted' = Images \ unaccepted' /\ unaccepted' \subseteq Images
    BY <2>1, <2>3, <2>4
  <2>6. QED
    BY <2>1, <2>3, <2>4, <2>5 DEF Leaving
<1>6. CASE ~(BeginStaging \/ EndStaging \/ CancelStaging \/ AcceptImage)
  <2>1. UNCHANGED <<state, accepted, active, booted, trialBoot, unaccepted>>
    BY <1>2, <1>6, OtherSteps
  <2>2. CASE ExitBootServices
    BY <1>2, <1>3, <2>1, <2>2 DEF Confirming, ExitBootServices, Leaving
  <2>3. CASE AllAccepted
    BY <1>2, <1>3, <2>1, <2>3 DEF Confirming, AllAccepted, Leaving
  <2>4. CASE UNCHANGED vars
    BY <1>2, <1>3, <2>1, <2>4 DEF Confirming, vars, clientVars
  <2>5. CASE ~(ExitBootServices \/ AllAccepted \/ UNCHANGED vars)
    <3>1. pc' \notin Leaving /\ pc \notin Leaving
      BY <1>2, <1>6, <2>5, LeavingSteps
    <3>2. QED
      BY <1>2, <1>3, <2>1, <3>1 DEF Confirming, Leaving
  <2>6. QED
    BY <2>2, <2>3, <2>4, <2>5
<1>7. QED
    BY <1>4, <1>5, <1>6

\* fwu_accept_notify_exit_boot_services() ends the trial the boot has found, as
\* long as the agent does what it is asked: every image is accepted, also when an
\* earlier boot was reset in the middle of it.
THEOREM TrialsAreConfirmed == Spec => []OsConfirmsTrial
<1>1. Init => IInv /\ Banked /\ Confirming
  <2>1. Init => Banked /\ Confirming
    BY DEF Init, AgentInit, Banked, Confirming
  <2>2. QED
    BY <2>1, InitIInv
<1>2. IInv /\ Banked /\ Confirming /\ [Next]_vars => (IInv /\ Banked /\ Confirming)'
    BY StepIsAtomic, BankedNext, ConfirmingNext
<1>3. Confirming => OsConfirmsTrial
    BY DEF Confirming, OsConfirmsTrial
<1>4. QED
    BY <1>1, <1>2, <1>3, PTL DEF Spec

-----------------------------------------------------------------------------
(***************************************************************************)
(* Handles.                                                                *)
(***************************************************************************)
\* An agent that does what it is asked has one handle open for the query that reads
\* through it, and else only handles of images, in a staging.
Opened ==
    faults = {} =>
        /\ pc \notin {"resume", "resumeclose", "reading", "writing"}
        /\ pc \in {"read", "close"} => open[info.of] = 1
        /\ \A h \in Handles :
              open[h] > 0 => \/ h \in Images /\ state = "staging"
                             \/ pc \in {"read", "close"} /\ h = info.of

\* The directory and the ESRT are no images.
LEMMA QueriedType ==
    ASSUME ControlTypeOK
    PROVE  info.of \in Handles /\ info.of \notin Images
<1>1. info.of \in {DIRECTORY, ESRT}
    BY DEF ControlTypeOK, Infos
<1>2. QED
    BY <1>1, ConstantsType DEF DIRECTORY, ESRT, Images

\* A query opens its handle, reads, and closes it.
LEMMA QueryOpened ==
    ASSUME IInv, Opened, faults = {}, faults' = faults,
           GetImageInfo \/ AgentInitialize \/ OpenImage \/ ReadImage \/ CloseImage
    PROVE  Opened'
<1>1. open \in [Handles -> 0..MaxOpen] /\ MaxOpen \in Nat \ {0}
    BY ConstantsType DEF IInv, Typed, AgentTypeOK
<1>2. info.of \in Handles /\ info.of \notin Images
    BY QueriedType DEF IInv, Typed, Control
<1>3. CASE GetImageInfo \/ AgentInitialize
  <2>1. /\ pc \notin {"read", "close"}
        /\ pc' \notin {"read", "close", "resume", "resumeclose", "reading", "writing"}
        /\ UNCHANGED <<open, state>>
    BY <1>3 DEF GetImageInfo, AgentInitialize, Goto, InfoFails, agentVars
  <2>2. QED
    BY <2>1 DEF Opened
<1>4. CASE OpenImage
  <2>1. PICK r \in Replies : /\ AgentOpen(info.of, r)
                             /\ IF r = "ok" THEN Goto("read") ELSE InfoFails
    BY <1>4 DEF OpenImage
  <2>2. pc = "open"
    BY <1>4 DEF OpenImage
  <2>3. ~(open[info.of] > 0)
    BY <1>2, <2>2 DEF Opened
  <2>4. open[info.of] = 0
    BY <1>1, <1>2, <2>3
  <2>5. CASE r = "ok"
    <3>1. open' = [open EXCEPT ![info.of] = @ + 1] /\ state' = state
      BY <2>1, <2>5 DEF AgentOpen, Reply
    <3>2. pc' = "read" /\ info' = info
      BY <2>1, <2>5 DEF Goto
    <3>3. open'[info.of] = 1 /\ \A h \in Handles \ {info.of} : open'[h] = open[h]
      BY <1>1, <1>2, <2>4, <3>1
    <3>4. QED
      BY <2>2, <3>1, <3>2, <3>3 DEF Opened
  <2>6. CASE r # "ok"
    <3>1. UNCHANGED <<open, state>> /\ pc' = "idle"
      BY <2>1, <2>6 DEF AgentOpen, Reply, agentVars, InfoFails
    <3>2. QED
      BY <2>2, <3>1 DEF Opened
  <2>7. QED
    BY <2>5, <2>6
<1>5. CASE ReadImage
  <2>1. pc = "read" /\ pc' = "close" /\ UNCHANGED <<open, state>>
    BY <1>5 DEF ReadImage, agentVars
  <2>2. info'.of = info.of
    BY <1>5 DEF ReadImage, IInv, Typed, Control, ControlTypeOK, Infos
  <2>3. QED
    BY <2>1, <2>2 DEF Opened
<1>6. CASE CloseImage
  <2>1. PICK r \in Replies : AgentClose(info.of, r)
    BY <1>6 DEF CloseImage
  <2>2. pc = "close" /\ AfterClose
    BY <1>6 DEF CloseImage
  <2>3. open[info.of] = 1
    BY <2>2 DEF Opened
  <2>4. open' = [open EXCEPT ![info.of] = @ - 1] /\ state' = state
    BY <2>1, <2>3 DEF AgentClose, Reply
  <2>5. open'[info.of] = 0 /\ \A h \in Handles \ {info.of} : open'[h] = open[h]
    BY <1>1, <1>2, <2>3, <2>4
  <2>6. pc' \in {"idle", "verify", "open"}
    BY <2>2 DEF AfterClose, InfoFails, InfoDone
  <2>7. QED
    BY <2>2, <2>4, <2>5, <2>6 DEF Opened
<1>7. QED
    BY <1>3, <1>4, <1>5, <1>6

\* The steps of a payload: where they come from and where they go.
LEMMA PayloadGoes ==
    ASSUME [Next]_vars, faults = {}, ProcessCapsule \/ SubmitCapsule, Opened
    PROVE  /\ pc \notin {"read", "close"}
           /\ pc' \notin {"read", "close", "resume", "resumeclose", "reading", "writing"}
<1>1. CASE SubmitCapsule
    BY <1>1 DEF SubmitCapsule, Find
<1>2. CASE CommitYields \/ Resume
    BY <1>2 DEF CommitYields, Resume, Opened
<1>3. CASE \/ VerifyImage \/ BadCapsule \/ BeginStaging \/ OpenWrite \/ WriteImage
           \/ CommitImage \/ EndStaging \/ CancelStaging
  <2>1. pc \notin {"read", "close"}
    BY <1>3 DEF VerifyImage, BadCapsule, BeginStaging, OpenWrite, WriteImage, CommitImage,
       EndStaging, CancelStaging
  <2>2. \/ NextPayload \/ Abort
        \/ \E s \in {"begin", "end", "openwrite", "write", "commit", "cancel", "crashed"} :
             Goto(s)
    BY <1>3 DEF VerifyImage, Verified, BadCapsule, BeginStaging, OpenWrite, WriteImage,
       CommitImage, EndStaging, CancelStaging
  <2>3. NextPayload => pc' \in {"idle", "open", "agentinit", "verify"}
    BY DEF NextPayload, Find
  <2>4. QED
    BY <2>1, <2>2, <2>3 DEF Goto, Abort
<1>4. QED
    BY <1>1, <1>2, <1>3 DEF ProcessCapsule

\* A payload opens the handle of its image in a staging, and the end of the staging
\* closes what is left.
LEMMA PayloadOpened ==
    ASSUME IInv, Opened, [Next]_vars, faults = {}, faults' = faults,
           ProcessCapsule \/ SubmitCapsule
    PROVE  Opened'
<1>1. open \in [Handles -> 0..MaxOpen] /\ MaxOpen \in Nat \ {0}
    BY ConstantsType DEF IInv, Typed, AgentTypeOK
<1>2. /\ pc \notin {"read", "close"}
      /\ pc' \notin {"read", "close", "resume", "resumeclose", "reading", "writing"}
    BY PayloadGoes
<1>3. \A h \in Handles : open[h] > 0 => h \in Images /\ state = "staging"
    BY <1>2 DEF Opened
<1>4. SUFFICES \A h \in Handles : open'[h] > 0 => h \in Images /\ state' = "staging"
    BY <1>2 DEF Opened
<1>5. CASE UNCHANGED <<open, state>>
    BY <1>3, <1>5
<1>6. CASE OpenWrite \/ CommitImage
  <2>1. Payload \in Images /\ Payload \in Handles
    BY <1>6, ConstantsType
       DEF OpenWrite, CommitImage, IInv, Typed, Control, Position
  <2>2. \/ UNCHANGED <<open, state>>
        \/ open' = [open EXCEPT ![Payload] = @ + 1] /\ state' = state /\ state = "staging"
        \/ open' = [open EXCEPT ![Payload] = @ - 1] /\ state' = state /\ open[Payload] > 0
    BY <1>6, <2>1 DEF OpenWrite, CommitImage, AgentOpen, AgentClose, Reply, agentVars
  <2>3. \A h \in Handles \ {Payload} : open'[h] = open[h]
    BY <1>1, <2>1, <2>2
  <2>4. QED
    BY <1>3, <2>1, <2>2, <2>3
<1>7. CASE BeginStaging
  <2>1. PICK r \in Replies : AgentBegin(RealPayloads(capsule), r)
    BY <1>7 DEF BeginStaging
  <2>2. UNCHANGED <<open, state>> \/ (open' = WithoutWriteHandles /\ state' = "staging")
    BY <2>1 DEF AgentBegin, Reply, agentVars
  <2>3. QED
    BY <1>3, <1>5, <2>2 DEF WithoutWriteHandles
<1>8. CASE CancelStaging
  <2>1. PICK r \in Replies : AgentCancel(r)
    BY <1>8 DEF CancelStaging
  <2>2. UNCHANGED <<open, state>> \/ open' = WithoutWriteHandles
    BY <2>1 DEF AgentCancel, Reply, agentVars
  <2>3. QED
    BY <1>3, <1>5, <2>2 DEF WithoutWriteHandles
<1>9. CASE EndStaging
  <2>1. PICK r \in Replies : AgentEnd(r)
    BY <1>9 DEF EndStaging
  <2>2. UNCHANGED <<open, state>> \/ (open' = open /\ \A h \in Handles : open[h] = 0)
    BY <2>1 DEF AgentEnd, Reply, agentVars
  <2>3. QED
    BY <1>5, <2>2
<1>10. CASE WriteImage
    BY <1>5, <1>10 DEF WriteImage, AgentWrite, SetImage, Reply, agentVars
<1>11. CASE SubmitCapsule \/ VerifyImage \/ BadCapsule \/ CommitYields \/ Resume
    BY <1>5, <1>11 DEF SubmitCapsule, VerifyImage, BadCapsule, CommitYields, Resume, agentVars
<1>12. QED
    BY <1>6, <1>7, <1>8, <1>9, <1>10, <1>11 DEF ProcessCapsule

LEMMA OpenedNext ==
    ASSUME IInv, Opened, [Next]_vars
    PROVE  Opened'
<1>1. faults' = faults
    BY FaultsAreFixed
<1>2. SUFFICES ASSUME faults = {} PROVE Opened'
    BY <1>1 DEF Opened
<1>3. CASE GetImageInfo \/ ReadInfo
    BY <1>1, <1>2, <1>3, QueryOpened DEF ReadInfo
<1>4. CASE SubmitCapsule \/ ProcessCapsule
    BY <1>1, <1>2, <1>4, PayloadOpened
<1>5. CASE ResumeRejected \/ StreamStalls \/ StreamIsLeft
    BY <1>2, <1>5 DEF ResumeRejected, StreamStalls, StreamIsLeft, Opened
<1>6. CASE ExitBootServices \/ AllAccepted
  <2>1. /\ pc \notin {"read", "close"} /\ pc' \in {"accept", "os"}
        /\ UNCHANGED <<open, state>>
    BY <1>6 DEF ExitBootServices, AllAccepted, agentVars
  <2>2. QED
    BY <1>2, <2>1 DEF Opened
<1>7. CASE AcceptImage
  <2>1. PICK i \in unaccepted, r \in Replies : AgentAccept(i, r)
    BY <1>7 DEF AcceptImage
  <2>2. pc \notin {"read", "close"} /\ pc' \in {"accept", "os"}
    BY <1>7 DEF AcceptImage
  <2>3. open' = open /\ (state' = state \/ state = "trial")
    BY <2>1 DEF AgentAccept, Reply, agentVars
  <2>4. QED
    BY <1>2, <2>2, <2>3 DEF Opened
<1>8. CASE Reset
  <2>1. pc' = "idle" /\ open' = [h \in Handles |-> 0]
    BY <1>8 DEF Reset, AgentReset
  <2>2. QED
    BY <2>1 DEF Opened
<1>9. CASE UNCHANGED vars
    BY <1>9 DEF Opened, vars, clientVars, agentVars
<1>10. QED
    BY <1>3, <1>4, <1>5, <1>6, <1>7, <1>8, <1>9 DEF Next

\* fwu_arm_psa_get_image_info() and fwu_update_image() close every handle they have
\* opened, as long as the agent does what it is asked, but those of the images of a
\* staging that was given up.
THEOREM NoHandleIsLeft == Spec => []HandlesAreClosed
<1>1. Init => IInv /\ Opened
  <2>1. Init => Opened
    BY DEF Init, AgentInit, Opened
  <2>2. QED
    BY <2>1, InitIInv
<1>2. IInv /\ Opened /\ [Next]_vars => (IInv /\ Opened)'
    BY StepIsAtomic, OpenedNext
<1>3. Opened => HandlesAreClosed
    BY DEF Opened, HandlesAreClosed
<1>4. QED
    BY <1>1, <1>2, <1>3, PTL DEF Spec

-----------------------------------------------------------------------------
(***************************************************************************)
(* Reports.                                                                *)
(***************************************************************************)
\* A capsule is a success only when it is over.  The trial of one that installed its
\* images is of the bank that was not booted from, so that this boot cannot end it.
Reported ==
    /\ InCapsule => result # "success"
    /\ result = "success" /\ Complete =>
         \/ state = "trial" /\ Installed /\ booted # active
         \/ state = "regular" /\ NotInstalled

\* Most steps report nothing but failures.
LEMMA SilentSteps ==
    ASSUME [Next]_vars,
           ~(BeginStaging \/ CommitImage \/ EndStaging \/ CancelStaging)
    PROVE  result' \in {result, "none", "failure"}
<1>1. CASE UNCHANGED vars
    BY <1>1 DEF vars, clientVars
<1>2. CASE \/ SubmitCapsule \/ GetImageInfo \/ Reset \/ ExitBootServices \/ AllAccepted
           \/ AcceptImage
    BY <1>2 DEF SubmitCapsule, GetImageInfo, Reset, ExitBootServices, AllAccepted, AcceptImage
<1>3. CASE ReadInfo \/ ResumeRejected \/ StreamStalls \/ StreamIsLeft
  <2>1. \/ Goto("open") \/ Goto("read") \/ Goto("cancel") \/ result' = result
        \/ InfoFails \/ AfterClose
    BY <1>3 DEF ReadInfo, AgentInitialize, OpenImage, ReadImage, CloseImage, ResumeRejected,
       StreamStalls, StreamIsLeft, Goto
  <2>2. QED
    BY <2>1 DEF Goto, InfoFails, InfoDone, AfterClose
<1>4. CASE \/ VerifyImage \/ BadCapsule \/ OpenWrite \/ WriteImage \/ CommitYields \/ Resume
    BY <1>4 DEF VerifyImage, Verified, BadCapsule, OpenWrite, WriteImage, CommitYields,
       Resume, Goto, Abort
<1>5. QED
    BY <1>1, <1>2, <1>3, <1>4 DEF Next, ProcessCapsule

\* The next payload, or the report of a capsule that is over.
LEMMA NextPayloadReports ==
    ASSUME IInv, InCapsule, NextPayload, result # "success", capsule' = capsule
    PROVE  \/ result' # "success"
           \/ result' = "success" /\ ~InCapsule' /\ (Complete => Payload = DUMMY_END)
<1>1. CASE item = Len(capsule)
    BY <1>1 DEF NextPayload, InCapsule, Reading, Updating, Complete, Payload
<1>2. CASE item # Len(capsule)
    BY <1>2 DEF NextPayload
<1>3. QED
    BY <1>1, <1>2

\* END_STAGING that succeeds installs the images; one that does not is cancelled.
LEMMA EndReports ==
    ASSUME IInv, Banked, EndStaging, result # "success", result' = "success"
    PROVE  Reported'
<1>1. PICK r \in Replies : /\ AgentEnd(r)
                           /\ IF r = "ok" THEN NextPayload ELSE Goto("cancel")
    BY DEF EndStaging
<1>2. r = "ok"
    BY <1>1 DEF Goto
<1>3. /\ InCapsule /\ capsule' = capsule /\ updates' = updates
    BY DEF EndStaging, InCapsule, Updating
<1>4. ~InCapsule'
    BY <1>1, <1>2, <1>3, NextPayloadReports
<1>5. state = "staging" /\ state' = "trial" /\ active' = Update /\ booted' = booted
    BY <1>1, <1>2 DEF AgentEnd, Reply
<1>6. booted' # active'
    BY <1>5, BankType DEF Banked, IInv, Typed
<1>7. Atomic!Install(RealPayloads(capsule), updates)
    BY <1>5, EndStagingStep DEF NoInstall
<1>8. \A i \in RealPayloads(capsule) : i \in Images /\ bank'[active'][i] = updates
    BY <1>7 DEF Atomic!Install, RealPayloads
<1>9. Installed'
    BY <1>3, <1>8 DEF Installed, RealPayloads
<1>10. QED
    BY <1>4, <1>5, <1>6, <1>9 DEF Reported

\* A cancellation that is granted leaves the firmware as it was.
LEMMA CancelReports ==
    ASSUME IInv, CancelStaging, result # "success", result' = "success"
    PROVE  Reported'
<1>1. PICK r \in Replies : AgentCancel(r) /\ IF r = "ok" THEN NextPayload ELSE Abort
    BY DEF CancelStaging
<1>2. r = "ok"
    BY <1>1 DEF Abort
<1>3. InCapsule /\ capsule' = capsule /\ updates' = updates
    BY DEF CancelStaging, InCapsule, Updating
<1>4. ~InCapsule'
    BY <1>1, <1>2, <1>3, NextPayloadReports
<1>5. state = "staging" /\ state' = "regular" /\ UNCHANGED <<bank, active>>
    BY <1>1, <1>2 DEF AgentCancel, Reply
<1>6. \A i \in Images : bank[active][i] < updates /\ bank[active][i] \in Int
    BY <1>3, <1>5, BankType DEF IInv, Older, Typed
<1>7. updates \in Int
    BY DEF IInv, Typed, Control, DataTypeOK
<1>8. NotInstalled'
    BY <1>3, <1>5, <1>6, <1>7 DEF NotInstalled
<1>9. QED
    BY <1>4, <1>5, <1>8 DEF Reported

\* The other steps of a capsule cannot report a success of a complete one.
LEMMA PayloadReports ==
    ASSUME IInv, BeginStaging \/ CommitImage, result # "success", result' = "success"
    PROVE  Reported'
<1>1. InCapsule /\ capsule' = capsule
    BY DEF BeginStaging, CommitImage, InCapsule, Updating
<1>2. NextPayload
    BY DEF BeginStaging, CommitImage, Abort, Goto
<1>3. Payload = DUMMY_START \/ Payload \in Images
    BY DEF BeginStaging, CommitImage, IInv, Typed, Control, Position
<1>4. ~InCapsule' /\ ~Complete
    BY <1>1, <1>2, <1>3, NextPayloadReports, ConstantsType
<1>5. ~Complete'
    BY <1>1, <1>4 DEF Complete
<1>6. QED
    BY <1>4, <1>5 DEF Reported

\* This boot cannot confirm what it has installed.
LEMMA AcceptReports ==
    ASSUME IInv, Reported, AcceptImage
    PROVE  Reported'
<1>1. PICK i \in unaccepted, r \in Replies : AgentAccept(i, r)
    BY DEF AcceptImage
<1>2. UNCHANGED <<result, capsule, updates>> /\ pc' \in {"accept", "os"}
    BY DEF AcceptImage
<1>3. ~InCapsule'
    BY <1>2 DEF InCapsule, Reading, Updating
<1>4. CASE result = "success" /\ Complete
  <2>1. UNCHANGED agentVars
    BY <1>1, <1>4 DEF AgentAccept, Reply, Reported
  <2>2. QED
    BY <1>2, <1>3, <2>1
       DEF Reported, Complete, Installed, NotInstalled, agentVars
<1>5. CASE ~(result = "success" /\ Complete)
    BY <1>2, <1>3, <1>5 DEF Reported, Complete
<1>6. QED
    BY <1>4, <1>5

\* A success is not withdrawn or made wrong by what follows it.
LEMMA QuietReports ==
    ASSUME IInv, Reported, [Next]_vars,
           ~(BeginStaging \/ CommitImage \/ EndStaging \/ CancelStaging \/ AcceptImage)
    PROVE  Reported'
<1>1. CASE SubmitCapsule \/ Reset
    BY <1>1 DEF SubmitCapsule, Reset, Reported
<1>2. CASE ~(SubmitCapsule \/ Reset)
  <2>1. SUFFICES ASSUME result' = "success" PROVE Reported'
    BY DEF Reported
  <2>2. result = "success" /\ ~InCapsule
    BY <2>1, SilentSteps DEF Reported
  <2>3. ~InCapsule'
    BY <1>2, <2>2, FailureIsOfCapsule
  <2>4. UNCHANGED <<state, active, booted>>
    BY <1>2, OtherSteps
  <2>5. UNCHANGED <<capsule, updates, bank>>
    <3>1. CASE UNCHANGED vars
      BY <3>1 DEF vars, agentVars, clientVars
    <3>2. CASE GetImageInfo \/ ExitBootServices \/ AllAccepted
      BY <3>2 DEF GetImageInfo, ExitBootServices, AllAccepted, agentVars
    <3>3. CASE ReadInfo
      BY <3>3 DEF ReadInfo, AgentInitialize, OpenImage, ReadImage, CloseImage, AgentOpen,
         AgentClose, Reply, agentVars
    <3>4. CASE \/ VerifyImage \/ BadCapsule \/ CommitYields \/ Resume \/ ResumeRejected
               \/ StreamStalls \/ StreamIsLeft
      BY <3>4 DEF VerifyImage, BadCapsule, CommitYields, Resume, ResumeRejected,
         StreamStalls, StreamIsLeft, agentVars
    <3>5. CASE OpenWrite \/ WriteImage
      BY <2>2, <3>5 DEF OpenWrite, WriteImage, InCapsule, Updating
    <3>6. QED
      BY <1>2, <3>1, <3>2, <3>3, <3>4, <3>5 DEF Next, ProcessCapsule
  <2>6. QED
    BY <2>2, <2>3, <2>4, <2>5 DEF Reported, Complete, Installed, NotInstalled
<1>3. QED
    BY <1>1, <1>2

LEMMA ReportedNext ==
    ASSUME IInv, Banked, Reported, [Next]_vars
    PROVE  Reported'
<1>1. CASE BeginStaging \/ CommitImage \/ EndStaging \/ CancelStaging
  <2>1. result # "success"
    BY <1>1 DEF Reported, BeginStaging, CommitImage, EndStaging, CancelStaging, InCapsule,
       Updating
  <2>2. CASE result' = "success"
    BY <1>1, <2>1, <2>2, EndReports, CancelReports, PayloadReports
  <2>3. CASE result' # "success"
    BY <2>3 DEF Reported
  <2>4. QED
    BY <2>2, <2>3
<1>2. CASE AcceptImage
    BY <1>2, AcceptReports
<1>3. CASE ~(BeginStaging \/ CommitImage \/ EndStaging \/ CancelStaging \/ AcceptImage)
    BY <1>3, QuietReports
<1>4. QED
    BY <1>1, <1>2, <1>3

\* A complete capsule that is reported as applied has all of its images on trial, or
\* none of them in the firmware and no staging left, whatever the agent answers: the
\* success of a cancellation, which fwu_update_image() returns, is of the second kind.
THEOREM SuccessIsOfAllOrNone == Spec => []SuccessIsAllOrNothing
<1>1. Init => IInv /\ Banked /\ Reported
  <2>1. Init => Banked /\ Reported
    BY DEF Init, AgentInit, Banked, Reported, InCapsule, Reading, Updating
  <2>2. QED
    BY <2>1, InitIInv
<1>2. IInv /\ Banked /\ Reported /\ [Next]_vars => (IInv /\ Banked /\ Reported)'
    BY StepIsAtomic, BankedNext, ReportedNext
<1>3. Reported => SuccessIsAllOrNothing
    BY DEF Reported, SuccessIsAllOrNothing
<1>4. QED
    BY <1>1, <1>2, <1>3, PTL DEF Spec
=============================================================================
