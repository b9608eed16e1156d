---------------------- MODULE ApplicationRuntime_proofs ----------------------
(***************************************************************************)
(* Theorems about applications and the requests they serve, for any        *)
(* requests, declarations, bodies, destinations and limits.                *)
(*                                                                         *)
(* A step of a request touches what is that request's and nothing else but *)
(* the destinations, so most of the invariant speaks of one request, and   *)
(* its steps are looked at one action at a time.                           *)
(***************************************************************************)
EXTENDS ApplicationRuntime, FiniteSetTheorems, SequenceTheorems, TLAPS

USE DEF Inner, Inside

Stages == {"idle", "throttle", "guards", "buffering", "answered", "dropped"} \cup Inside

FilesOf(r) == {r} \X Nat
Files == Requests \X Nat

Copies(S) == [file: S, to: Destinations, copied: BOOLEAN]
Placed == [file: Files, whole: BOOLEAN]

GateType ==
    /\ stage \in [Requests -> Stages]
    /\ limiter \in BOOLEAN
    /\ declared \in [Requests -> Declarations]
    /\ body \in [Requests -> Bodies]
    /\ admitted \in [Requests -> BOOLEAN]
    /\ DOMAIN allowed = Requests /\ DOMAIN entered = Requests

UploadType ==
    /\ form \in [Requests -> SUBSET Files]
    /\ handles \in [Requests -> SUBSET Files]
    /\ writing \in [Requests -> Files \cup {NoFile}]
    /\ persisting \in [Requests -> Copies(Files) \cup {Idle}]
    /\ disk \subseteq Files
    /\ stored \in [Destinations -> Placed \cup {NoFile}]
    /\ reported \subseteq Files \X Destinations

(* What a stage says of the uploads of its request. *)
StageInv(r) ==
    /\ form[r] # {} => stage[r] \in {"parsing", "taking"}
    /\ writing[r] # NoFile => stage[r] = "parsing"
    /\ handles[r] # {} => stage[r] \in {"arguments", "handler"}
    /\ persisting[r] # Idle => stage[r] = "handler"

(* A request has files of its own, each in one place. *)
FilesInv(r) ==
    /\ form[r] \subseteq FilesOf(r) /\ IsFiniteSet(form[r])
    /\ handles[r] \subseteq FilesOf(r)
    /\ writing[r] \in FilesOf(r) \cup {NoFile}
    /\ persisting[r] \in Copies(FilesOf(r)) \cup {Idle}
    /\ persisting[r].file \notin handles[r]

(* They exist, and those that exist are its. *)
DiskInv(r) ==
    /\ writing[r] # NoFile => writing[r] \in disk
    /\ Owned(r) \subseteq disk
    /\ (disk \cap FilesOf(r)) \ broken \subseteq Owned(r) \cup {writing[r]}

UploadInv == \A r \in Requests : StageInv(r) /\ FilesInv(r) /\ DiskInv(r)

(* A destination that is being written to is its writer's. *)
StoreInv ==
    /\ \A r \in Requests : persisting[r] # Idle =>
        stored[persisting[r].to] = [file |-> persisting[r].file, whole |-> persisting[r].copied]
    /\ PersistedFilesStay

RuntimeInv == ListenIsTruthful /\ failed \subseteq {"bind", "server", "hooks"}

Step(r) == Arrive(r) \/ Progress(r)

-----------------------------------------------------------------------------
(* Steps of the runtime and of requests. *)

LEMMA NextIsStep == [Next]_vars => UNCHANGED requestVars \/ \E r \in Requests : Step(r)
<1> SUFFICES ASSUME [Next]_vars PROVE UNCHANGED requestVars \/ \E r \in Requests : Step(r)
  OBVIOUS
<1>1. CASE RuntimeNext
  BY <1>1 DEF RuntimeNext, ActixNew, AxumNew, WithOpenapiFails, WithSocketIoPanics,
     PrepareDoctor, ActixBind, AxumBind, IntoRouter, BindFails, AxumKilled, ActixSignal,
     ForceStop, ServerReturns, Shutdown
<1>2. CASE \E r \in Requests : Serve(r)
  BY <1>2 DEF Serve, Step, Progress
<1>3. CASE UNCHANGED vars
  BY <1>3 DEF vars
<1> QED
  BY <1>1, <1>2, <1>3 DEF Next

LEMMA NoFileIsNoFile == NoFile \notin Files /\ NoFile \notin Placed
  BY NoFileAssumption DEF Files, Placed

LEMMA InitTypes == Init => GateType /\ UploadType
<1> SUFFICES ASSUME PipelineInit PROVE GateType /\ UploadType
  BY DEF Init
<1>1. Routes(limiter) \subseteq Declarations
  BY DEF Routes
<1>2. GateType
  BY <1>1 DEF PipelineInit, GateType, Stages
<1>3. UploadType
  BY DEF PipelineInit, UploadType
<1> QED
  BY <1>2, <1>3

LEMMA GateTypeStep ==
  ASSUME GateType, NEW r \in Requests, Step(r)
  PROVE  GateType'
<1> USE DEF GateType, Stages, shape, To
<1>1. CASE Arrive(r) \/ Gate(r)
  BY <1>1 DEF Arrive, Gate, Throttle, Guard, GuardsAllow, Buffer
<1>2. CASE Intercept(r)
  BY <1>2 DEF Intercept, RunNext, Proceed, Return, Answer, DropNext
<1>3. CASE Extract(r) \/ Cancel(r)
  BY <1>3 DEF Extract, Payload, Refuse, OpenPart, PartEnds, BodyEnds, TakeFiles, Call,
     HandlerReturns, Cancel, gateVars
<1>4. CASE Persist(r)
  BY <1>4 DEF Persist, PersistTo, Copy, RemoveSource, PersistFails, gateVars
<1> QED
  BY <1>1, <1>2, <1>3, <1>4 DEF Step, Progress

(* The part that is opened next. *)
LEMMA NextFile ==
  ASSUME GateType, UploadType, NEW r \in Requests, IsFiniteSet(form[r])
  PROVE  <<r, Cardinality(form[r]) + 1>> \in FilesOf(r)
  BY FS_CardinalityType DEF FilesOf

LEMMA FilesOfRequest ==
  /\ \A r \in Requests : FilesOf(r) \subseteq Files /\ NoFile \notin FilesOf(r)
  /\ \A r, q \in Requests : r # q => FilesOf(r) \cap FilesOf(q) = {}
  /\ \A f \in Files : f[1] \in Requests /\ f \in FilesOf(f[1])
  /\ \A r \in Requests : \A f \in FilesOf(r) : f[1] = r
  BY NoFileIsNoFile DEF Files, FilesOf

LEMMA DropType ==
  ASSUME UploadType, NEW r \in Requests, DropUploads(r)
  PROVE  UploadType'
<1> USE DEF UploadType
<1>1. form' \in [Requests -> SUBSET Files] /\ handles' \in [Requests -> SUBSET Files]
  BY DEF DropUploads
<1>2. writing' \in [Requests -> Files \cup {NoFile}]
  BY DEF DropUploads
<1>3. persisting' \in [Requests -> Copies(Files) \cup {Idle}]
  BY DEF DropUploads
<1> QED
  BY <1>1, <1>2, <1>3 DEF DropUploads

LEMMA UploadTypeStep ==
  ASSUME GateType, UploadType, UploadInv, NEW r \in Requests, Step(r)
  PROVE  UploadType'
<1> USE DEF UploadType
<1>1. CASE UNCHANGED uploadVars
  BY <1>1 DEF uploadVars
<1>2. CASE DropUploads(r)
  BY <1>2, DropType
<1>3. CASE OpenPart(r)
  <2>1. <<r, Cardinality(form[r]) + 1>> \in Files
    BY NextFile, FilesOfRequest DEF UploadInv, FilesInv
  <2> QED
    BY <1>3, <2>1 DEF OpenPart
<1>4. CASE PartEnds(r)
  BY <1>4 DEF PartEnds
<1>5. CASE TakeFiles(r)
  <2>1. PICK S \in SUBSET form[r] : handles' = [handles EXCEPT ![r] = S] /\ disk' = disk \ (form[r] \ S)
    BY <1>5 DEF TakeFiles, Takings
  <2> QED
    BY <1>5, <2>1 DEF TakeFiles
<1>6. CASE PersistTo(r)
  <2>1. PICK f \in handles[r], d \in Destinations :
          /\ handles' = [handles EXCEPT ![r] = @ \ {f}]
          /\ \/ /\ stored' = [stored EXCEPT ![d] = [file |-> f, whole |-> FALSE]]
                /\ persisting' = [persisting EXCEPT ![r] = [file |-> f, to |-> d, copied |-> FALSE]]
                /\ UNCHANGED disk
             \/ disk' = disk \ {f} /\ UNCHANGED <<stored, persisting>>
    BY <1>6 DEF PersistTo
  <2>2. f \in Files
    OBVIOUS
  <2>3. [file |-> f, whole |-> FALSE] \in Placed /\ [file |-> f, to |-> d, copied |-> FALSE] \in Copies(Files)
    BY <2>2 DEF Placed, Copies
  <2>4. stored' \in [Destinations -> Placed \cup {NoFile}]
    BY <2>1, <2>3
  <2>5. persisting' \in [Requests -> Copies(Files) \cup {Idle}]
    BY <2>1, <2>3
  <2>6. handles' \in [Requests -> SUBSET Files] /\ disk' \subseteq Files
    BY <2>1
  <2> QED
    BY <1>6, <2>4, <2>5, <2>6 DEF PersistTo
<1>7. CASE Copy(r) \/ RemoveSource(r) \/ PersistFails(r)
  <2>1. persisting[r] \in Copies(Files)
    BY <1>7 DEF Copy, RemoveSource, PersistFails, Idle
  <2>2. CASE Copy(r)
    <3>1. [file |-> persisting[r].file, whole |-> TRUE] \in Placed
      BY <2>1 DEF Placed, Copies
    <3>2. stored' \in [Destinations -> Placed \cup {NoFile}]
      BY <2>2, <3>1 DEF Copy
    <3>3. persisting' \in [Requests -> Copies(Files) \cup {Idle}]
      BY <2>2, <2>1 DEF Copy, Copies
    <3> QED
      BY <2>2, <3>2, <3>3 DEF Copy
  <2>3. CASE RemoveSource(r)
    <3>1. <<persisting[r].file, persisting[r].to>> \in Files \X Destinations
      BY <2>1 DEF Copies
    <3> QED
      BY <2>3, <3>1 DEF RemoveSource
  <2>4. CASE PersistFails(r)
    BY <2>4 DEF PersistFails
  <2> QED
    BY <1>7, <2>2, <2>3, <2>4
<1> QED
  BY <1>1, <1>2, <1>3, <1>4, <1>5, <1>6, <1>7
     DEF Step, Progress, Gate, Intercept, Extract, Persist, Arrive, Throttle, Guard, GuardsAllow,
         Buffer, RunNext, Proceed, Return, Answer, DropNext, Payload, Refuse, BodyEnds, Call,
         HandlerReturns, Cancel

-----------------------------------------------------------------------------
(* Staged files. *)

LEMMA OwnedAreOwn ==
  ASSUME NEW r \in Requests, FilesInv(r)
  PROVE  Owned(r) \subseteq FilesOf(r)
  BY DEF FilesInv, Owned, Copies, Idle

(* What a request does leaves the others' uploads alone. *)
LEMMA OthersUploads ==
  ASSUME GateType, UploadType, UploadInv, NEW r \in Requests, Step(r),
         NEW q \in Requests, q # r
  PROVE  /\ stage'[q] = stage[q] /\ form'[q] = form[q] /\ handles'[q] = handles[q]
         /\ writing'[q] = writing[q] /\ persisting'[q] = persisting[q]
         /\ disk' \cap FilesOf(q) = disk \cap FilesOf(q) /\ broken \subseteq broken'
<1> USE DEF GateType, UploadType, To
<1>0. FilesInv(r) /\ Owned(r) \subseteq FilesOf(r) /\ FilesOf(r) \cap FilesOf(q) = {}
  BY OwnedAreOwn, FilesOfRequest DEF UploadInv
<1>1. CASE Arrive(r) \/ Gate(r)
  BY <1>1 DEF Arrive, Gate, Throttle, Guard, GuardsAllow, Buffer, uploadVars
<1>2. CASE RunNext(r) \/ Proceed(r) \/ Return(r) \/ Answer(r) \/ Payload(r) \/ BodyEnds(r) \/ Call(r)
  BY <1>2 DEF RunNext, Proceed, Return, Answer, Payload, BodyEnds, Call, uploadVars
<1>3. CASE DropNext(r) \/ Cancel(r) \/ Refuse(r) \/ HandlerReturns(r)
  <2>1. To(r, "leaving") \/ To(r, "dropped")
    BY <1>3 DEF DropNext, Cancel, Refuse, HandlerReturns
  <2>2. DropUploads(r)
    BY <1>3 DEF DropNext, Cancel, Refuse, HandlerReturns
  <2> QED
    BY <2>1, <2>2, <1>0 DEF DropUploads
<1>4. CASE OpenPart(r)
  <2>1. <<r, Cardinality(form[r]) + 1>> \notin FilesOf(q)
    BY DEF FilesOf
  <2> QED
    BY <1>4, <2>1 DEF OpenPart, gateVars
<1>5. CASE PartEnds(r)
  BY <1>5 DEF PartEnds, gateVars
<1>6. CASE TakeFiles(r)
  <2>1. PICK S \in SUBSET form[r] : handles' = [handles EXCEPT ![r] = S] /\ disk' = disk \ (form[r] \ S)
    BY <1>6 DEF TakeFiles, Takings
  <2> QED
    BY <1>6, <2>1, <1>0 DEF TakeFiles, FilesInv
<1>7. CASE Persist(r)
  <2>1. CASE PersistTo(r)
    BY <2>1, <1>0 DEF PersistTo, gateVars, FilesInv
  <2>2. CASE Copy(r)
    BY <2>2 DEF Copy, gateVars
  <2>3. CASE RemoveSource(r) \/ PersistFails(r)
    <3>1. disk' = disk \ {persisting[r].file} /\ persisting[r] \in Copies(FilesOf(r))
      BY <2>3, <1>0 DEF RemoveSource, PersistFails, FilesInv, Idle
    <3>2. persisting[r].file \in FilesOf(r)
      BY <3>1 DEF Copies
    <3> QED
      BY <2>3, <3>1, <3>2, <1>0 DEF RemoveSource, PersistFails, gateVars
  <2> QED
    BY <1>7, <2>1, <2>2, <2>3 DEF Persist
<1> QED
  BY <1>1, <1>2, <1>3, <1>4, <1>5, <1>6, <1>7 DEF Step, Progress, Intercept, Extract

LEMMA OthersKeepUploads ==
  ASSUME GateType, UploadType, UploadInv, NEW r \in Requests, Step(r),
         NEW q \in Requests, q # r
  PROVE  StageInv(q)' /\ FilesInv(q)' /\ DiskInv(q)'
<1>1. /\ stage'[q] = stage[q] /\ form'[q] = form[q] /\ handles'[q] = handles[q]
      /\ writing'[q] = writing[q] /\ persisting'[q] = persisting[q]
      /\ disk' \cap FilesOf(q) = disk \cap FilesOf(q) /\ broken \subseteq broken'
  BY OthersUploads
<1>2. StageInv(q) /\ FilesInv(q) /\ DiskInv(q)
  BY DEF UploadInv
<1>3. StageInv(q)'
  BY <1>1, <1>2 DEF StageInv
<1>4. FilesInv(q)'
  BY <1>1, <1>2 DEF FilesInv
<1>5. Owned(q)' = Owned(q) /\ Owned(q) \subseteq FilesOf(q)
  BY <1>1, <1>2, OwnedAreOwn DEF Owned
<1>6. DiskInv(q)'
  <2>1. Owned(q) \subseteq disk'
    BY <1>1, <1>2, <1>5 DEF DiskInv
  <2>2. writing[q] # NoFile => writing[q] \in disk'
    BY <1>1, <1>2 DEF DiskInv, FilesInv
  <2>3. (disk' \cap FilesOf(q)) \ broken' \subseteq Owned(q) \cup {writing[q]}
    BY <1>1, <1>2 DEF DiskInv
  <2> QED
    BY <2>1, <2>2, <2>3, <1>1, <1>5 DEF DiskInv
<1> QED
  BY <1>3, <1>4, <1>6

(* Destructors leave nothing but the file that was being written. *)
LEMMA DropLeavesNothing ==
  ASSUME GateType, UploadType, NEW r \in Requests, FilesInv(r), DiskInv(r), DropUploads(r)
  PROVE  StageInv(r)' /\ FilesInv(r)' /\ DiskInv(r)'
<1>1. form'[r] = {} /\ handles'[r] = {} /\ writing'[r] = NoFile /\ persisting'[r] = Idle
  BY DEF DropUploads, UploadType
<1>2. StageInv(r)'
  BY <1>1 DEF StageInv
<1>3. FilesInv(r)'
  BY <1>1, FS_EmptySet DEF FilesInv
<1>4. Owned(r)' = {}
  BY <1>1 DEF Owned, Idle
<1>5. disk' = disk \ Owned(r) /\ broken' = broken \cup ({writing[r]} \ {NoFile})
  BY DEF DropUploads
<1>6. (disk' \cap FilesOf(r)) \ broken' = {}
  BY <1>5, FilesOfRequest DEF DiskInv
<1> QED
  BY <1>1, <1>2, <1>3, <1>4, <1>6 DEF DiskInv

LEMMA OwnUploads ==
  ASSUME GateType, UploadType, UploadInv, NEW r \in Requests, Step(r)
  PROVE  StageInv(r)' /\ FilesInv(r)' /\ DiskInv(r)'
<1> USE DEF GateType, UploadType, To
<1>0. StageInv(r) /\ FilesInv(r) /\ DiskInv(r)
  BY DEF UploadInv
<1>1. CASE Arrive(r) \/ Gate(r) \/ RunNext(r) \/ Proceed(r) \/ Return(r) \/ Answer(r) \/ Payload(r)
           \/ BodyEnds(r) \/ Call(r)
  <2>1. UNCHANGED uploadVars
    BY <1>1 DEF Arrive, Gate, Throttle, Guard, GuardsAllow, Buffer, RunNext, Proceed, Return,
       Answer, Payload, BodyEnds, Call
  <2> HIDE DEF GateType, UploadType
  <2>2. FilesInv(r)' /\ DiskInv(r)'
    BY <2>1, <1>0 DEF uploadVars, FilesInv, DiskInv, Owned
  <2>7. form' = form /\ writing' = writing /\ handles' = handles /\ persisting' = persisting
    BY <2>1 DEF uploadVars
  <2>3. CASE Arrive(r) \/ Gate(r) \/ RunNext(r) \/ Proceed(r) \/ Return(r) \/ Answer(r) \/ Payload(r)
    <3>1. stage[r] \notin {"parsing", "taking", "arguments", "handler"}
      BY <2>3 DEF Arrive, Gate, Throttle, Guard, GuardsAllow, Buffer, RunNext, Proceed, Return,
         Answer, Payload
    <3>2. form[r] = {} /\ writing[r] = NoFile /\ handles[r] = {} /\ persisting[r] = Idle
      BY <3>1, <1>0 DEF StageInv
    <3> QED
      BY <3>2, <2>2, <2>7 DEF StageInv
  <2>4. CASE BodyEnds(r)
    <3>1. stage[r] = "parsing" /\ stage'[r] = "taking" /\ writing[r] = NoFile
      BY <2>4 DEF BodyEnds, GateType
    <3> QED
      BY <3>1, <2>2, <2>7, <1>0 DEF StageInv
  <2>5. CASE Call(r)
    <3>1. stage[r] = "arguments" /\ stage'[r] = "handler"
      BY <2>5 DEF Call, GateType
    <3> QED
      BY <3>1, <2>2, <2>7, <1>0 DEF StageInv
  <2> QED
    BY <1>1, <2>2, <2>3, <2>4, <2>5
<1>2. CASE DropUploads(r)
  BY <1>2, <1>0, DropLeavesNothing
<1>3. CASE OpenPart(r)
  <2> DEFINE f == <<r, Cardinality(form[r]) + 1>>
  <2>1. f \in FilesOf(r)
    BY NextFile, <1>0 DEF FilesInv
  <2>2. /\ stage'[r] = "parsing" /\ writing'[r] = f /\ disk' = disk \cup {f}
        /\ form'[r] = form[r] /\ handles'[r] = handles[r] /\ persisting'[r] = persisting[r]
        /\ broken' = broken /\ writing[r] = NoFile
    BY <1>3 DEF OpenPart, gateVars
  <2>3. StageInv(r)'
    BY <2>2, <1>0, <1>3 DEF StageInv, OpenPart
  <2>4. FilesInv(r)'
    BY <2>1, <2>2, <1>0 DEF FilesInv
  <2>5. Owned(r)' = Owned(r)
    BY <2>2 DEF Owned
  <2>6. (disk' \cap FilesOf(r)) \ broken' \subseteq Owned(r) \cup {f}
    BY <2>2, <1>0, FilesOfRequest DEF DiskInv
  <2> QED
    BY <2>2, <2>3, <2>4, <2>5, <2>6, <1>0 DEF DiskInv
<1>4. CASE PartEnds(r)
  <2>1. /\ stage[r] = "parsing" /\ stage'[r] = "parsing" /\ writing'[r] = NoFile
        /\ form'[r] = form[r] \cup {writing[r]} /\ disk' = disk /\ broken' = broken
        /\ handles'[r] = handles[r] /\ persisting'[r] = persisting[r] /\ writing[r] # NoFile
    BY <1>4 DEF PartEnds, gateVars
  <2>2. StageInv(r)'
    BY <2>1, <1>0 DEF StageInv
  <2>3. FilesInv(r)'
    <3>1. writing[r] \in FilesOf(r)
      BY <2>1, <1>0 DEF FilesInv
    <3>2. IsFiniteSet(form'[r])
      <4>1. IsFiniteSet(form[r])
        BY <1>0 DEF FilesInv
      <4>2. IsFiniteSet(form[r] \cup {writing[r]})
        BY <4>1, FS_AddElement
      <4> QED
        BY <4>2, <2>1
    <3> QED
      BY <3>1, <3>2, <2>1, <1>0 DEF FilesInv
  <2>4. Owned(r)' = Owned(r) \cup {writing[r]}
    BY <2>1 DEF Owned
  <2> QED
    BY <2>1, <2>2, <2>3, <2>4, <1>0 DEF DiskInv
<1>5. CASE TakeFiles(r)
  <2>1. PICK S \in SUBSET form[r] : handles' = [handles EXCEPT ![r] = S] /\ disk' = disk \ (form[r] \ S)
    BY <1>5 DEF TakeFiles, Takings
  <2>2. /\ stage[r] = "taking" /\ stage'[r] = "arguments" /\ form'[r] = {} /\ handles'[r] = S
        /\ writing'[r] = writing[r] /\ persisting'[r] = persisting[r] /\ broken' = broken
    BY <1>5, <2>1 DEF TakeFiles
  <2>3. writing[r] = NoFile /\ persisting[r] = Idle /\ handles[r] = {}
    BY <2>2, <1>0 DEF StageInv
  <2>4. StageInv(r)'
    BY <2>2, <2>3 DEF StageInv
  <2>5. FilesInv(r)'
    <3>1. NoFile \notin S /\ Idle.file = NoFile
      BY <1>0, FilesOfRequest DEF FilesInv, Idle
    <3> QED
      BY <2>2, <2>3, <3>1, <1>0, FS_EmptySet DEF FilesInv
  <2>6. Owned(r) = form[r] /\ Owned(r)' = S
    BY <2>2, <2>3 DEF Owned, Idle
  <2> QED
    BY <2>1, <2>2, <2>3, <2>4, <2>5, <2>6, <1>0 DEF DiskInv
<1>6. CASE PersistTo(r)
  <2>1. PICK f \in handles[r], d \in Destinations :
          /\ handles' = [handles EXCEPT ![r] = @ \ {f}]
          /\ \/ persisting' = [persisting EXCEPT ![r] = [file |-> f, to |-> d, copied |-> FALSE]]
                /\ disk' = disk
             \/ disk' = disk \ {f} /\ persisting' = persisting
    BY <1>6 DEF PersistTo
  <2>2. /\ stage[r] = "handler" /\ stage' = stage /\ form' = form /\ writing' = writing
        /\ broken' = broken /\ persisting[r] = Idle
    BY <1>6 DEF PersistTo, gateVars
  <2>3. form[r] = {} /\ writing[r] = NoFile
    BY <2>2, <1>0 DEF StageInv
  <2>4. StageInv(r)'
    BY <2>2, <2>3 DEF StageInv
  <2>5. handles'[r] = handles[r] \ {f} /\ f \in FilesOf(r) /\ f # NoFile
    BY <2>1, <1>0, FilesOfRequest DEF FilesInv
  <2>6. Owned(r) = handles[r]
    BY <2>2, <2>3 DEF Owned, Idle
  <2>7. CASE persisting' = [persisting EXCEPT ![r] = [file |-> f, to |-> d, copied |-> FALSE]] /\ disk' = disk
    <3>1. persisting'[r] = [file |-> f, to |-> d, copied |-> FALSE]
      BY <2>7
    <3>2. FilesInv(r)'
      BY <3>1, <2>2, <2>5, <1>0 DEF FilesInv, Copies
    <3>3. Owned(r)' = Owned(r)
      BY <3>1, <2>2, <2>3, <2>5, <2>6 DEF Owned
    <3> QED
      BY <2>4, <3>2, <3>3, <2>2, <2>7, <1>0 DEF DiskInv
  <2>8. CASE disk' = disk \ {f} /\ persisting' = persisting
    <3>2. FilesInv(r)'
      BY <2>8, <2>2, <2>5, <1>0 DEF FilesInv
    <3>3. Owned(r)' = Owned(r) \ {f}
      BY <2>8, <2>2, <2>3, <2>5, <2>6 DEF Owned, Idle
    <3> QED
      BY <2>4, <3>2, <3>3, <2>2, <2>3, <2>8, <1>0 DEF DiskInv
  <2> QED
    BY <2>1, <2>7, <2>8
<1>7. CASE Copy(r)
  <2>1. persisting[r] \in Copies(FilesOf(r)) /\ stage[r] = "handler"
    BY <1>7, <1>0 DEF Copy, FilesInv, StageInv
  <2>2. /\ persisting'[r] \in Copies(FilesOf(r)) /\ persisting'[r].file = persisting[r].file
        /\ stage' = stage /\ form' = form /\ writing' = writing /\ handles' = handles
        /\ disk' = disk /\ broken' = broken
    BY <1>7, <2>1 DEF Copy, gateVars, Copies
  <2>3. Owned(r)' = Owned(r)
    BY <2>2 DEF Owned
  <2>4. StageInv(r)'
    BY <2>1, <2>2, <1>0 DEF StageInv
  <2>5. FilesInv(r)'
    BY <2>2, <1>0 DEF FilesInv
  <2> QED
    BY <2>2, <2>3, <2>4, <2>5, <1>0 DEF DiskInv
<1>8. CASE RemoveSource(r) \/ PersistFails(r)
  <2>1. /\ disk' = disk \ {persisting[r].file} /\ persisting'[r] = Idle /\ persisting[r] # Idle
        /\ stage' = stage /\ form' = form /\ writing' = writing /\ handles' = handles
        /\ broken' = broken
    <3>1. persisting[r] # Idle
      BY <1>8 DEF RemoveSource, PersistFails, Idle
    <3> QED
      BY <3>1, <1>8 DEF RemoveSource, PersistFails, gateVars
  <2>2. stage[r] = "handler" /\ form[r] = {} /\ writing[r] = NoFile
    BY <2>1, <1>0 DEF StageInv
  <2>3. persisting[r].file \in FilesOf(r) /\ persisting[r].file \notin handles[r]
    BY <2>1, <1>0 DEF FilesInv, Copies
  <2>4. Owned(r)' = handles[r] /\ Owned(r) = handles[r] \cup {persisting[r].file}
    BY <2>1, <2>2, <2>3, FilesOfRequest DEF Owned, Idle
  <2>5. FilesInv(r)'
    <3>1. NoFile \notin handles[r] /\ Idle.file = NoFile
      BY <1>0, FilesOfRequest DEF FilesInv, Idle
    <3> QED
      BY <2>1, <3>1, <1>0 DEF FilesInv
  <2>6. StageInv(r)'
    BY <2>1, <2>2, <1>0 DEF StageInv
  <2> QED
    BY <2>1, <2>2, <2>3, <2>4, <2>5, <2>6, <1>0 DEF DiskInv
<1> QED
  BY <1>1, <1>2, <1>3, <1>4, <1>5, <1>6, <1>7, <1>8
     DEF Step, Progress, Intercept, Extract, Persist, DropNext, Refuse, HandlerReturns, Cancel

LEMMA UploadStep ==
  ASSUME GateType, UploadType, UploadInv, NEW r \in Requests, Step(r)
  PROVE  UploadInv'
  BY OwnUploads, OthersKeepUploads DEF UploadInv

LEMMA UploadsAreStaged ==
  ASSUME UploadType, UploadInv
  PROVE  StagedFilesAreOwned
<1>1. ASSUME NEW f \in disk \ broken
      PROVE  \E r \in Requests : f \in Owned(r) \cup {writing[r]}
  <2>1. f \in Files
    BY <1>1 DEF UploadType
  <2>2. f[1] \in Requests /\ f \in FilesOf(f[1])
    BY <2>1, FilesOfRequest
  <2> QED
    BY <1>1, <2>2 DEF UploadInv, DiskInv
<1>2. ASSUME NEW r \in Requests
      PROVE  Owned(r) \subseteq disk /\ (Owned(r) # {} => Busy(r))
  <2>1. StageInv(r) /\ DiskInv(r)
    BY DEF UploadInv
  <2> QED
    BY <2>1 DEF DiskInv, StageInv, Owned, Idle, Busy
<1> QED
  BY <1>1, <1>2 DEF StagedFilesAreOwned

-----------------------------------------------------------------------------
(* Persisted files. *)

LEMMA PlacedIsSome ==
  ASSUME NEW f \in Files, NEW b \in BOOLEAN
  PROVE  [file |-> f, whole |-> b] # NoFile
<1>1. [file |-> f, whole |-> b] \in Placed
  BY DEF Placed
<1> QED
  BY <1>1, NoFileIsNoFile

LEMMA PersistingIsCopy ==
  ASSUME UploadType, NEW r \in Requests, persisting[r] # Idle
  PROVE  persisting[r].file \in Files /\ persisting[r].to \in Destinations /\ persisting[r].copied \in BOOLEAN
<1>1. persisting[r] \in Copies(Files)
  BY DEF UploadType
<1> QED
  BY <1>1 DEF Copies

LEMMA StoreStep ==
  ASSUME UploadType, UploadInv, StoreInv, NEW r \in Requests, Step(r)
  PROVE  StoreInv'
<1>1. CASE UNCHANGED <<stored, reported>> /\ persisting' \in {persisting, [persisting EXCEPT ![r] = Idle]}
  <2>1. \A q \in Requests : persisting'[q] # Idle => persisting'[q] = persisting[q]
    BY <1>1 DEF UploadType
  <2> QED
    BY <1>1, <2>1 DEF StoreInv, PersistedFilesStay
<1>2. CASE PersistTo(r)
  <2>1. PICK f \in handles[r], d \in Destinations :
          \/ /\ Free(d)
             /\ stored' = [stored EXCEPT ![d] = [file |-> f, whole |-> FALSE]]
             /\ persisting' = [persisting EXCEPT ![r] = [file |-> f, to |-> d, copied |-> FALSE]]
          \/ UNCHANGED <<stored, persisting>>
    BY <1>2 DEF PersistTo
  <2>2. reported' = reported
    BY <1>2 DEF PersistTo
  <2>3. CASE UNCHANGED <<stored, persisting>>
    BY <2>2, <2>3, <1>1
  <2>4. CASE /\ Free(d)
             /\ stored' = [stored EXCEPT ![d] = [file |-> f, whole |-> FALSE]]
             /\ persisting' = [persisting EXCEPT ![r] = [file |-> f, to |-> d, copied |-> FALSE]]
    <3>1. stored' = [stored EXCEPT ![d] = [file |-> f, whole |-> FALSE]]
      BY <2>1, <2>4
    <3>2. persisting' = [persisting EXCEPT ![r] = [file |-> f, to |-> d, copied |-> FALSE]]
      BY <2>1, <2>4
    <3>3. ASSUME NEW q \in Requests, persisting'[q] # Idle
          PROVE  stored'[persisting'[q].to] = [file |-> persisting'[q].file, whole |-> persisting'[q].copied]
      <4>1. CASE q = r
        BY <4>1, <3>1, <3>2 DEF UploadType
      <4>2. CASE q # r
        <5>1. persisting'[q] = persisting[q] /\ persisting[q] # Idle
          BY <4>2, <3>2, <3>3 DEF UploadType
        <5>2. stored[persisting[q].to] = [file |-> persisting[q].file, whole |-> persisting[q].copied]
          BY <5>1 DEF StoreInv
        <5>3. persisting[q].to # d
          BY <5>1, <5>2, PersistingIsCopy, PlacedIsSome, <2>4 DEF Free
        <5> QED
          BY <5>1, <5>2, <5>3, <3>1, PersistingIsCopy DEF UploadType
      <4> QED
        BY <4>1, <4>2
    <3>4. ASSUME NEW p \in reported
          PROVE  stored'[p[2]] = [file |-> p[1], whole |-> TRUE]
      <4>1. stored[p[2]] = [file |-> p[1], whole |-> TRUE] /\ p[1] \in Files /\ p[2] \in Destinations
        BY DEF StoreInv, PersistedFilesStay, UploadType
      <4>2. p[2] # d
        BY <4>1, PlacedIsSome, <2>4 DEF Free
      <4> QED
        BY <4>1, <4>2, <3>1 DEF UploadType
    <3> QED
      BY <3>3, <3>4, <2>2 DEF StoreInv, PersistedFilesStay
  <2> QED
    BY <2>1, <2>3, <2>4
<1>3. CASE Copy(r)
  <2> DEFINE me == persisting[r]
  <2>1. /\ me # Idle /\ me.copied = FALSE /\ me.to \in Destinations /\ me.file \in Files
    BY <1>3, PersistingIsCopy DEF Copy
  <2>2. stored' = [stored EXCEPT ![me.to] = [file |-> me.file, whole |-> TRUE]]
    BY <1>3 DEF Copy
  <2>3. persisting'[r] = [file |-> me.file, to |-> me.to, copied |-> TRUE]
    <3>1. me \in Copies(Files)
      BY <2>1 DEF UploadType
    <3> QED
      BY <1>3, <3>1 DEF Copy, Copies, UploadType
  <2>4. stored[me.to] = [file |-> me.file, whole |-> FALSE]
    BY <2>1 DEF StoreInv
  <2>5. ASSUME NEW q \in Requests, q # r, persisting'[q] # Idle
        PROVE  stored'[persisting'[q].to] = [file |-> persisting'[q].file, whole |-> persisting'[q].copied]
    <3>1. persisting'[q] = persisting[q] /\ persisting[q] # Idle
      BY <1>3, <2>5 DEF Copy, UploadType
    <3>2. stored[persisting[q].to] = [file |-> persisting[q].file, whole |-> persisting[q].copied]
      BY <3>1 DEF StoreInv
    <3>3. persisting[q].file \in FilesOf(q) /\ me.file \in FilesOf(r)
      BY <2>1, <3>1 DEF UploadInv, FilesInv, Copies
    <3>4. persisting[q].file # me.file
      BY <3>3, <2>5, FilesOfRequest
    <3>5. persisting[q].to # me.to
      <4>1. stored[persisting[q].to].file = persisting[q].file
        BY <3>2
      <4>2. stored[me.to].file = me.file
        BY <2>4
      <4> QED
        BY <4>1, <4>2, <3>4
    <3> QED
      BY <3>1, <3>2, <3>5, <2>2, PersistingIsCopy DEF UploadType
  <2>6. ASSUME NEW p \in reported
        PROVE  stored'[p[2]] = [file |-> p[1], whole |-> TRUE]
    <3>1. stored[p[2]] = [file |-> p[1], whole |-> TRUE] /\ p[2] \in Destinations
      BY DEF StoreInv, PersistedFilesStay, UploadType
    <3>2. p[2] # me.to
      <4>1. stored[p[2]].whole = TRUE
        BY <3>1
      <4>2. stored[me.to].whole = FALSE
        BY <2>4
      <4> QED
        BY <4>1, <4>2
    <3> QED
      BY <3>1, <3>2, <2>2 DEF UploadType
  <2>7. stored'[me.to] = [file |-> me.file, whole |-> TRUE]
    BY <2>1, <2>2 DEF UploadType
  <2>8. reported' = reported
    BY <1>3 DEF Copy
  <2>9. stored'[persisting'[r].to] = [file |-> persisting'[r].file, whole |-> persisting'[r].copied]
    BY <2>3, <2>7
  <2>10. PersistedFilesStay'
    BY <2>6, <2>8 DEF PersistedFilesStay
  <2> QED
    BY <2>5, <2>9, <2>10 DEF StoreInv
<1>4. CASE RemoveSource(r)
  <2>1. persisting[r] # Idle /\ persisting[r].copied = TRUE
    <3>1. persisting[r].copied
      BY <1>4 DEF RemoveSource
    <3>2. persisting[r] # Idle
      BY <3>1 DEF Idle
    <3> QED
      BY <3>1, <3>2, PersistingIsCopy
  <2>2. stored[persisting[r].to] = [file |-> persisting[r].file, whole |-> TRUE]
    BY <2>1 DEF StoreInv
  <2>3. /\ stored' = stored
        /\ reported' = reported \cup {<<persisting[r].file, persisting[r].to>>}
        /\ persisting' = [persisting EXCEPT ![r] = Idle]
    BY <1>4 DEF RemoveSource
  <2>4. \A q \in Requests : persisting'[q] # Idle => persisting'[q] = persisting[q]
    BY <2>3 DEF UploadType
  <2>5. ASSUME NEW p \in reported'
        PROVE  stored'[p[2]] = [file |-> p[1], whole |-> TRUE]
    <3>1. CASE p \in reported
      BY <3>1, <2>3 DEF StoreInv, PersistedFilesStay
    <3>2. CASE p = <<persisting[r].file, persisting[r].to>>
      BY <3>2, <2>2, <2>3
    <3> QED
      BY <2>3, <3>1, <3>2
  <2>6. ASSUME NEW q \in Requests, persisting'[q] # Idle
        PROVE  stored'[persisting'[q].to] = [file |-> persisting'[q].file, whole |-> persisting'[q].copied]
    BY <2>3, <2>4, <2>6 DEF StoreInv
  <2> QED
    BY <2>5, <2>6 DEF StoreInv, PersistedFilesStay
<1>5. CASE DropUploads(r) \/ PersistFails(r)
  BY <1>5, <1>1 DEF DropUploads, PersistFails
<1>6. CASE UNCHANGED uploadVars
  BY <1>6, <1>1 DEF uploadVars
<1>7. CASE OpenPart(r) \/ PartEnds(r) \/ TakeFiles(r)
  BY <1>7, <1>1 DEF OpenPart, PartEnds, TakeFiles
<1> QED
  BY <1>2, <1>3, <1>4, <1>5, <1>6, <1>7
     DEF Step, Progress, Gate, Intercept, Extract, Persist, Arrive, Throttle, Guard, GuardsAllow,
         Buffer, RunNext, Proceed, Return, Answer, DropNext, Payload, Refuse, BodyEnds, Call,
         HandlerReturns, Cancel

-----------------------------------------------------------------------------
(* The runtime. *)

LEMMA RuntimeStep == RuntimeInv /\ [Next]_vars => RuntimeInv'
<1> SUFFICES ASSUME RuntimeInv, [Next]_vars PROVE RuntimeInv'
  OBVIOUS
<1> USE DEF RuntimeInv, ListenIsTruthful
<1>1. CASE UNCHANGED <<failed, hooks, result>> /\ app # "returned" /\ app' # "returned"
  BY <1>1
<1>2. CASE ActixNew \/ AxumNew \/ WithOpenapiFails \/ WithSocketIoPanics \/ PrepareDoctor
           \/ ActixBind \/ AxumBind
  BY <1>1, <1>2 DEF ActixNew, AxumNew, WithOpenapiFails, WithSocketIoPanics, PrepareDoctor,
     ActixBind, AxumBind
<1>3. CASE IntoRouter \/ AxumKilled \/ ActixSignal \/ ForceStop
  BY <1>1, <1>3 DEF IntoRouter, AxumKilled, ActixSignal, ForceStop
<1>4. CASE BindFails \/ ServerReturns
  BY <1>4 DEF BindFails, ServerReturns, ServerIsOver
<1>5. CASE Shutdown
  <2>1. app = "stopped" /\ app' = "returned" /\ hooks' = hooks + 1 /\ result' = Outcome(failed')
    BY <1>5 DEF Shutdown
  <2>2. failed' \subseteq {"bind", "server", "hooks"}
    BY <1>5 DEF Shutdown
  <2>3. result' = "ok" <=> failed' = {}
    BY <2>1 DEF Outcome
  <2>4. result' \in failed' \cup {"ok"}
    BY <2>1, <2>2 DEF Outcome
  <2>5. hooks' = 1
    BY <2>1
  <2> QED
    BY <2>1, <2>2, <2>3, <2>4, <2>5
<1>6. CASE UNCHANGED runtimeVars
  BY <1>6 DEF runtimeVars
<1> QED
  BY <1>2, <1>3, <1>4, <1>5, <1>6 DEF Next, RuntimeNext, Serve, vars

-----------------------------------------------------------------------------
(* What a request has passed. *)

Chain(r) == route(r).interceptors
Known(r) == Range(declared[r].controller.interceptors) \cup Range(declared[r].method.interceptors)

AfterThrottle == {"guards", "buffering"} \cup Inside

(* The gates a request has passed, by its stage. *)
PassedInv(r) ==
    /\ stage[r] \in AfterThrottle /\ Throttled(r) => admitted[r]
    /\ stage[r] \in Inside \cup {"buffering"} => allowed[r] = route(r).guards
    /\ stage[r] \in Inside /\ route(r).takes # {} => body[r].length <= BodyLimit

(* Files are staged only of forms that are short enough. *)
LimitInv(r) ==
    stage[r] = "parsing" \/ disk \cap FilesOf(r) # {} => body[r].length <= Limit(r)

(* The interceptors entered are the first of those declared, and all of them
   once the payload is looked at. *)
EnteredInv(r) ==
    /\ entered[r] \in Seq(Known(r))
    /\ Len(entered[r]) <= Len(Chain(r))
    /\ \A k \in 1..Len(entered[r]) : entered[r][k] = Chain(r)[k]
    /\ stage[r] \in Inner => Len(entered[r]) = Len(Chain(r))

(* The files that were taken have passed their checks. *)
CheckedInv(r) == \A f \in handles[r] : Passes(r, f)

GateInv == \A r \in Requests : PassedInv(r) /\ LimitInv(r) /\ EnteredInv(r) /\ CheckedInv(r)

LEMMA ChainIsList ==
  ASSUME GateType, NEW r \in Requests
  PROVE  /\ Chain(r) = declared[r].controller.interceptors \o declared[r].method.interceptors
         /\ Chain(r) \in Seq(Known(r))
<1> DEFINE c == declared[r].controller
           m == declared[r].method
<1>1. c.interceptors \in Seq(Range(c.interceptors)) /\ m.interceptors \in Seq(Range(m.interceptors))
  BY PipelineAssumption DEF GateType, IsMethod, IsAnnotated
<1>2. c.interceptors \in Seq(Known(r)) /\ m.interceptors \in Seq(Known(r))
  BY <1>1, SeqMonotonic DEF Known
<1>3. Chain(r) = c.interceptors \o m.interceptors
  BY DEF Chain, route, Expand
<1> QED
  BY <1>2, <1>3, ConcatProperties

(* Routes do not change. *)
LEMMA ShapeStep ==
  ASSUME NEW r \in Requests, Step(r)
  PROVE  UNCHANGED shape
  BY DEF Step, Progress, Gate, Intercept, Extract, Persist, Arrive, Throttle, Guard, GuardsAllow,
     Buffer, RunNext, Proceed, Return, Answer, DropNext, Payload, Refuse, OpenPart, PartEnds,
     BodyEnds, TakeFiles, Call, HandlerReturns, PersistTo, Copy, RemoveSource, PersistFails,
     Cancel, gateVars, shape

LEMMA RouteStep ==
  ASSUME NEW r \in Requests, Step(r), NEW q \in Requests
  PROVE  /\ route(q)' = route(q) /\ Chain(q)' = Chain(q) /\ Known(q)' = Known(q)
         /\ Throttled(q)' = Throttled(q) /\ Limit(q)' = Limit(q) /\ body'[q] = body[q]
         /\ \A f : Passes(q, f)' = Passes(q, f)
<1>1. limiter' = limiter /\ declared' = declared /\ body' = body
  BY ShapeStep DEF shape
<1> QED
  BY <1>1 DEF route, Chain, Known, Throttled, Limit, Passes

LEMMA OthersKeepGates ==
  ASSUME GateType, UploadType, UploadInv, GateInv, NEW r \in Requests, Step(r),
         NEW q \in Requests, q # r
  PROVE  PassedInv(q)' /\ LimitInv(q)' /\ EnteredInv(q)' /\ CheckedInv(q)'
<1>1. /\ stage'[q] = stage[q] /\ disk' \cap FilesOf(q) = disk \cap FilesOf(q)
      /\ handles'[q] = handles[q]
  BY OthersUploads
<1>2. admitted'[q] = admitted[q] /\ allowed'[q] = allowed[q] /\ entered'[q] = entered[q]
  <2>1. CASE UNCHANGED <<admitted, allowed, entered>>
    BY <2>1
  <2>2. CASE Throttle(r) \/ Guard(r) \/ RunNext(r) \/ Return(r) \/ DropNext(r) \/ Cancel(r)
    BY <2>2 DEF Throttle, Guard, RunNext, Return, DropNext, Cancel, GateType
  <2> QED
    BY <2>1, <2>2 DEF Step, Progress, Gate, Intercept, Extract, Persist, Arrive, GuardsAllow,
       Buffer, Proceed, Answer, Payload, Refuse, OpenPart, PartEnds, BodyEnds, TakeFiles, Call,
       HandlerReturns, PersistTo, Copy, RemoveSource, PersistFails, gateVars
<1>3. PassedInv(q) /\ LimitInv(q) /\ EnteredInv(q) /\ CheckedInv(q)
  BY DEF GateInv
<1>7. CheckedInv(q)'
  BY <1>1, <1>3, RouteStep DEF CheckedInv
<1>4. PassedInv(q)'
  BY <1>1, <1>2, <1>3, RouteStep DEF PassedInv
<1>5. LimitInv(q)'
  BY <1>1, <1>3, RouteStep DEF LimitInv
<1>6. EnteredInv(q)'
  BY <1>1, <1>2, <1>3, RouteStep DEF EnteredInv
<1> QED
  BY <1>4, <1>5, <1>6, <1>7

LEMMA OwnPassed ==
  ASSUME GateType, GateInv, NEW r \in Requests, Step(r)
  PROVE  PassedInv(r)'
<1> USE DEF GateType, AfterThrottle, To
<1>0. PassedInv(r)
  BY DEF GateInv
<1>1. /\ route(r)' = route(r) /\ Throttled(r)' = Throttled(r) /\ body'[r] = body[r]
  BY RouteStep
<1>2. CASE Arrive(r) \/ Answer(r) \/ Cancel(r)
  <2>1. stage'[r] \notin AfterThrottle
    BY <1>2 DEF Arrive, Answer, Cancel
  <2>2. CASE stage'[r] = "throttle" \/ stage'[r] \notin AfterThrottle
    BY <2>2 DEF PassedInv
  <2> QED
    BY <2>1, <2>2
<1>3. CASE Throttle(r)
  BY <1>3, <1>1, <1>0 DEF Throttle, PassedInv
<1>4. CASE Guard(r)
  BY <1>4, <1>1, <1>0 DEF Guard, PassedInv
<1>5. CASE GuardsAllow(r)
  BY <1>5, <1>1, <1>0 DEF GuardsAllow, PassedInv
<1>6. CASE Buffer(r)
  BY <1>6, <1>1, <1>0 DEF Buffer, PassedInv
<1>7. CASE UNCHANGED <<admitted, allowed>> /\ stage[r] \in Inside
  BY <1>7, <1>1, <1>0 DEF PassedInv
<1>8. CASE RunNext(r) \/ Proceed(r) \/ Return(r) \/ DropNext(r)
  BY <1>8, <1>7 DEF RunNext, Proceed, Return, DropNext
<1>9. CASE Extract(r)
  BY <1>9, <1>7 DEF Extract, Payload, Refuse, OpenPart, PartEnds, BodyEnds, TakeFiles, Call,
     HandlerReturns, gateVars
<1>10. CASE Persist(r)
  BY <1>10, <1>1, <1>0 DEF Persist, PersistTo, Copy, RemoveSource, PersistFails, gateVars, PassedInv
<1> QED
  BY <1>2, <1>3, <1>4, <1>5, <1>6, <1>8, <1>9, <1>10 DEF Step, Progress, Gate, Intercept

LEMMA OwnLimit ==
  ASSUME GateType, UploadType, UploadInv, GateInv, NEW r \in Requests, Step(r)
  PROVE  LimitInv(r)'
<1>0. LimitInv(r) /\ body'[r] = body[r] /\ Limit(r)' = Limit(r)
  BY RouteStep DEF GateInv
<1>1. CASE (stage'[r] = "parsing" => stage[r] = "parsing") /\ disk' \subseteq disk
  BY <1>1, <1>0 DEF LimitInv
<1>2. CASE Payload(r)
  BY <1>2, <1>0 DEF Payload, To, uploadVars, GateType, LimitInv
<1>3. CASE OpenPart(r)
  BY <1>3, <1>0 DEF OpenPart, gateVars, LimitInv
<1>4. CASE Arrive(r) \/ Gate(r) \/ Intercept(r) \/ Cancel(r)
  BY <1>4, <1>1 DEF Arrive, Gate, Throttle, Guard, GuardsAllow, Buffer, Intercept, RunNext,
     Proceed, Return, Answer, DropNext, Cancel, To, GateType, DropUploads, uploadVars
<1>5. CASE Refuse(r) \/ PartEnds(r) \/ BodyEnds(r) \/ TakeFiles(r) \/ Call(r) \/ HandlerReturns(r)
  BY <1>5, <1>1 DEF Refuse, PartEnds, BodyEnds, TakeFiles, Call, HandlerReturns, To, GateType,
     DropUploads, uploadVars, gateVars
<1>6. CASE Persist(r)
  BY <1>6, <1>1 DEF Persist, PersistTo, Copy, RemoveSource, PersistFails, gateVars
<1> QED
  BY <1>2, <1>3, <1>4, <1>5, <1>6 DEF Step, Progress, Extract

LEMMA OwnChecked ==
  ASSUME UploadType, GateInv, NEW r \in Requests, Step(r)
  PROVE  CheckedInv(r)'
<1>0. CheckedInv(r) /\ \A f : Passes(r, f)' = Passes(r, f)
  BY RouteStep DEF GateInv
<1>1. CASE handles'[r] \subseteq handles[r]
  BY <1>0, <1>1 DEF CheckedInv
<1>2. CASE TakeFiles(r)
  <2>1. PICK S \in SUBSET form[r] :
          (\A f \in S : Passes(r, f)) /\ handles' = [handles EXCEPT ![r] = S]
    BY <1>2 DEF TakeFiles, Takings
  <2>2. handles'[r] = S
    BY <2>1 DEF UploadType
  <2> QED
    BY <1>0, <2>1, <2>2 DEF CheckedInv
<1>3. CASE UNCHANGED handles
  BY <1>1, <1>3
<1>4. CASE DropUploads(r) \/ PersistTo(r)
  BY <1>1, <1>4 DEF DropUploads, PersistTo, UploadType
<1> QED
  BY <1>2, <1>3, <1>4
     DEF Step, Progress, Gate, Intercept, Extract, Persist, Arrive, Throttle, Guard, GuardsAllow,
         Buffer, RunNext, Proceed, Return, Answer, DropNext, Payload, Refuse, OpenPart, PartEnds,
         BodyEnds, Call, HandlerReturns, Cancel, Copy, RemoveSource, PersistFails, uploadVars

LEMMA OwnEntered ==
  ASSUME GateType, GateInv, NEW r \in Requests, Step(r)
  PROVE  EnteredInv(r)'
<1> DEFINE L == Len(Chain(r))
           n == Len(entered[r])
<1>0. /\ entered[r] \in Seq(Known(r)) /\ n \in Nat /\ n <= L
      /\ \A k \in 1..n : entered[r][k] = Chain(r)[k]
      /\ stage[r] \in Inner => n = L
  BY LenProperties DEF GateInv, EnteredInv
<1>1. Chain(r) \in Seq(Known(r)) /\ L \in Nat
  BY ChainIsList, LenProperties
<1>2. Chain(r)' = Chain(r) /\ Known(r)' = Known(r)
  BY RouteStep
<1>3. ASSUME NEW m \in 0..n, entered'[r] = SubSeq(entered[r], 1, m), stage'[r] \notin Inner
      PROVE  EnteredInv(r)'
  <2>1. \A k \in 1..m : entered[r][k] \in Known(r)
    BY <1>0, ElementOfSeq
  <2>2. /\ SubSeq(entered[r], 1, m) \in Seq(Known(r)) /\ Len(SubSeq(entered[r], 1, m)) = m
        /\ \A k \in 1..m : SubSeq(entered[r], 1, m)[k] = entered[r][k]
    BY <2>1, <1>0, SubSeqProperties
  <2>3. \A k \in 1..m : SubSeq(entered[r], 1, m)[k] = Chain(r)[k]
    BY <2>2, <1>0
  <2>4. entered'[r] \in Seq(Known(r)) /\ Len(entered'[r]) = m
    BY <2>2, <1>3
  <2>5. \A k \in 1..m : entered'[r][k] = Chain(r)[k]
    BY <2>3, <1>3
  <2>6. m <= L /\ stage'[r] \notin Inner
    BY <1>0, <1>1, <1>3
  <2> QED
    BY <2>4, <2>5, <2>6, <1>2 DEF EnteredInv
<1>4. ASSUME entered'[r] = entered[r], stage'[r] \in Inner => n = L
      PROVE  EnteredInv(r)'
  BY <1>4, <1>0, <1>2 DEF EnteredInv
<1>5. CASE Arrive(r) \/ Gate(r) \/ Proceed(r) \/ Answer(r)
  BY <1>5, <1>4 DEF Arrive, Gate, Throttle, Guard, GuardsAllow, Buffer, Proceed, Answer, To, GateType
<1>6. CASE RunNext(r)
  <2> DEFINE waiting == Len(Made(r)) - n
  <2>1. /\ Len(Made(r)) = L
        /\ \A i \in 1..L : Made(r)[i] = Chain(r)[(L - i) + 1]
    <3>1. Made(r) = [i \in 1..L |-> Chain(r)[(L - i) + 1]]
      BY DEF Made, Chain, Reverse
    <3>2. DOMAIN Made(r) = 1..L
      BY <3>1
    <3>3. \A i \in 1..L : Chain(r)[(L - i) + 1] \in Known(r)
      BY <1>1, ElementOfSeq
    <3>4. Made(r) \in Seq(Known(r))
      BY <3>1, <3>3, <1>1, SeqDef
    <3>5. Len(Made(r)) = L
      BY <3>2, <3>4, <1>1, LenProperties
    <3> QED
      BY <3>1, <3>5
  <2>2. CASE waiting > 0
    <3>1. entered'[r] = Append(entered[r], Made(r)[waiting]) /\ stage'[r] = "interceptor"
      BY <1>6, <2>2 DEF RunNext, To, GateType
    <3>2. Made(r)[waiting] = Chain(r)[n + 1]
      BY <2>1, <2>2, <1>0, <1>1
    <3>3. Chain(r)[n + 1] \in Known(r)
      BY <2>1, <2>2, <1>0, <1>1, ElementOfSeq
    <3>4. /\ Append(entered[r], Chain(r)[n + 1]) \in Seq(Known(r))
          /\ Len(Append(entered[r], Chain(r)[n + 1])) = n + 1
          /\ \A k \in 1..n : Append(entered[r], Chain(r)[n + 1])[k] = entered[r][k]
          /\ Append(entered[r], Chain(r)[n + 1])[n + 1] = Chain(r)[n + 1]
      BY <1>0, <3>3, AppendProperties
    <3>5. entered'[r] = Append(entered[r], Chain(r)[n + 1])
      BY <3>1, <3>2
    <3>6. n + 1 <= L
      BY <2>1, <2>2, <1>0, <1>1
    <3>7. \A k \in 1..(n + 1) : entered'[r][k] = Chain(r)[k]
      BY <3>4, <3>5, <1>0
    <3>8. entered'[r] \in Seq(Known(r)) /\ Len(entered'[r]) = n + 1
      BY <3>4, <3>5
    <3> QED
      BY <3>1, <3>6, <3>7, <3>8, <1>2 DEF EnteredInv
  <2>3. CASE ~(waiting > 0)
    <3>1. n = L
      BY <2>1, <2>3, <1>0, <1>1
    <3>2. entered'[r] = entered[r]
      BY <1>6, <2>3 DEF RunNext
    <3> QED
      BY <3>1, <3>2, <1>4
  <2> QED
    BY <2>2, <2>3
<1>7. CASE Return(r)
  <2>1. entered'[r] = SubSeq(entered[r], 1, n - 1) /\ stage'[r] = "leaving"
    BY <1>7 DEF Return, To, GateType
  <2>2. CASE n > 0
    BY <2>1, <2>2, <1>0, <1>3
  <2>3. CASE n = 0
    <3>1. SubSeq(entered[r], 1, n - 1) = SubSeq(entered[r], 1, 0)
      BY <2>3, SubSeqEmpty
    <3> QED
      BY <3>1, <2>1, <2>3, <1>3
  <2> QED
    BY <2>2, <2>3, <1>0
<1>8. CASE DropNext(r)
  <2>1. PICK k \in 1..n : entered' = [entered EXCEPT ![r] = SubSeq(@, 1, k)]
    BY <1>8 DEF DropNext
  <2>2. stage'[r] = "leaving" /\ entered'[r] = SubSeq(entered[r], 1, k)
    BY <1>8, <2>1 DEF DropNext, To, GateType
  <2> QED
    BY <2>2, <1>0, <1>3
<1>9. CASE Cancel(r)
  <2>1. stage'[r] = "dropped" /\ entered'[r] = <<>>
    BY <1>9 DEF Cancel, To, GateType
  <2> QED
    BY <2>1, EmptySeq, <1>1, <1>2 DEF EnteredInv
<1>10. CASE Extract(r)
  <2>1. entered' = entered
    BY <1>10 DEF Extract, Payload, Refuse, OpenPart, PartEnds, BodyEnds, TakeFiles, Call,
       HandlerReturns, gateVars
  <2>2. stage[r] \in Inner
    BY <1>10 DEF Extract, Payload, Refuse, OpenPart, PartEnds, BodyEnds, TakeFiles, Call,
       HandlerReturns
  <2> QED
    BY <2>1, <2>2, <1>0, <1>4
<1>11. CASE Persist(r)
  <2>1. UNCHANGED <<stage, entered>>
    BY <1>11 DEF Persist, PersistTo, Copy, RemoveSource, PersistFails, gateVars
  <2> QED
    BY <2>1, <1>0, <1>4
<1> QED
  BY <1>5, <1>6, <1>7, <1>8, <1>9, <1>10, <1>11 DEF Step, Progress, Intercept

LEMMA GateStep ==
  ASSUME GateType, UploadType, UploadInv, GateInv, NEW r \in Requests, Step(r)
  PROVE  GateInv'
  BY OwnPassed, OwnLimit, OwnEntered, OwnChecked, OthersKeepGates DEF GateInv

LEMMA GatesAdmit ==
  ASSUME GateType, UploadType, GateInv
  PROVE  OnlyAdmittedRequestsRun
<1> SUFFICES ASSUME NEW r \in Requests
    PROVE  LET c == declared[r].controller
               m == declared[r].method IN
           /\ stage[r] \in Inside =>
               /\ MustBeAdmitted(r) => admitted[r]
               /\ allowed[r] = c.guards \o m.guards
               /\ m.takes # {} => body[r].length <= BodyLimit
               /\ Prefix(entered[r], c.interceptors \o m.interceptors)
           /\ stage[r] \in Inner => entered[r] = c.interceptors \o m.interceptors
           /\ (\E f \in disk : f[1] = r) /\ m.limit > 0 => body[r].length <= m.limit
           /\ DeclaredChecksHold(r)
  BY DEF OnlyAdmittedRequestsRun
<1> DEFINE c == declared[r].controller
           m == declared[r].method
<1>0. PassedInv(r) /\ LimitInv(r) /\ EnteredInv(r) /\ CheckedInv(r)
  BY DEF GateInv
<1>1. /\ route(r).throttle = Effective(c, m) /\ route(r).guards = c.guards \o m.guards
      /\ route(r).takes = m.takes /\ route(r).limit = m.limit
  BY DEF route, Expand
<1>2. MustBeAdmitted(r) => Throttled(r)
  <2>0. <<"policy">> # <<>> /\ <<"policy">>[1] = "policy"
    OBVIOUS
  <2>1. CASE m.throttle = <<"policy">>
    <3>1. Effective(c, m) = "policy"
      BY <2>0, <2>1 DEF Effective
    <3> QED
      BY <3>1, <1>1 DEF Throttled
  <2>2. CASE m.throttle = <<>> /\ c.throttle = <<"policy">>
    <3>1. Effective(c, m) = "policy"
      BY <2>0, <2>2 DEF Effective
    <3> QED
      BY <3>1, <1>1 DEF Throttled
  <2>3. CASE m.throttle = <<>> /\ c.throttle = <<>> /\ limiter
    <3>1. Effective(c, m) = "global"
      BY <2>3 DEF Effective
    <3> QED
      BY <3>1, <1>1, <2>3 DEF Throttled
  <2> QED
    BY <2>1, <2>2, <2>3 DEF MustBeAdmitted
<1>3. stage[r] \in Inside => /\ MustBeAdmitted(r) => admitted[r]
                             /\ allowed[r] = c.guards \o m.guards
                             /\ m.takes # {} => body[r].length <= BodyLimit
  BY <1>0, <1>1, <1>2 DEF PassedInv, AfterThrottle
<1>4. Chain(r) = c.interceptors \o m.interceptors /\ Chain(r) \in Seq(Known(r))
  BY ChainIsList
<1>5. /\ entered[r] \in Seq(Known(r)) /\ Len(entered[r]) \in Nat /\ Len(Chain(r)) \in Nat
      /\ Len(entered[r]) <= Len(Chain(r))
      /\ \A k \in 1..Len(entered[r]) : entered[r][k] = Chain(r)[k]
  BY <1>0, <1>4, LenProperties DEF EnteredInv
<1>6. Prefix(entered[r], Chain(r))
  <2> DEFINE p == SubSeq(Chain(r), 1, Len(entered[r]))
  <2>1. \A k \in 1..Len(entered[r]) : Chain(r)[k] \in Known(r)
    BY <1>4, <1>5, ElementOfSeq
  <2>2. p \in Seq(Known(r)) /\ Len(p) = Len(entered[r])
        /\ \A k \in 1..Len(entered[r]) : p[k] = Chain(r)[k]
    BY <2>1, <1>5, SubSeqProperties
  <2>3. entered[r] = p
    BY <2>2, <1>5, SeqEqual
  <2> QED
    BY <2>3 DEF Prefix
<1>7. stage[r] \in Inner => entered[r] = Chain(r)
  <2> SUFFICES ASSUME stage[r] \in Inner PROVE entered[r] = Chain(r)
    OBVIOUS
  <2>1. Len(entered[r]) = Len(Chain(r))
    BY <1>0 DEF EnteredInv
  <2> QED
    BY <2>1, <1>4, <1>5, SeqEqual
<1>8. (\E f \in disk : f[1] = r) /\ m.limit > 0 => body[r].length <= m.limit
  <2> SUFFICES ASSUME NEW f \in disk, f[1] = r, m.limit > 0 PROVE body[r].length <= m.limit
    OBVIOUS
  <2>1. f \in FilesOf(r)
    BY FilesOfRequest DEF UploadType
  <2>2. Limit(r) = m.limit
    BY <1>1 DEF Limit
  <2> QED
    BY <2>1, <2>2, <1>0 DEF LimitInv
<1>9. DeclaredChecksHold(r)
  <2>1. route(r).checks = Checks(m)
    BY DEF route, Expand
  <2>2. \A k \in Checks(m) : ~Fails(r, k)
    BY <1>0, <2>1 DEF CheckedInv, Passes, Fails
  <2> QED
    BY <2>2 DEF DeclaredChecksHold, Checks
<1> QED
  BY <1>3, <1>4, <1>6, <1>7, <1>8, <1>9

-----------------------------------------------------------------------------
(* Theorems. *)

IInv == GateType /\ UploadType /\ UploadInv /\ StoreInv /\ GateInv /\ RuntimeInv

LEMMA InitIInv == Init => IInv
<1> SUFFICES ASSUME RuntimeInit, PipelineInit PROVE IInv
  BY DEF Init
<1>1. GateType /\ UploadType
  BY InitTypes DEF Init
<1>2. UploadInv
  <2> SUFFICES ASSUME NEW r \in Requests PROVE StageInv(r) /\ FilesInv(r) /\ DiskInv(r)
    BY DEF UploadInv
  <2>1. /\ form[r] = {} /\ handles[r] = {} /\ writing[r] = NoFile /\ persisting[r] = Idle
        /\ disk = {}
    BY DEF PipelineInit
  <2>2. Owned(r) = {}
    BY <2>1 DEF Owned, Idle
  <2> QED
    BY <2>1, <2>2, FS_EmptySet DEF StageInv, FilesInv, DiskInv
<1>3. StoreInv
  BY DEF PipelineInit, StoreInv, PersistedFilesStay
<1>4. GateInv
  <2> SUFFICES ASSUME NEW r \in Requests
               PROVE  PassedInv(r) /\ LimitInv(r) /\ EnteredInv(r) /\ CheckedInv(r)
    BY DEF GateInv
  <2>1. stage[r] = "idle" /\ entered[r] = <<>> /\ disk = {} /\ handles[r] = {}
    BY DEF PipelineInit
  <2>2. <<>> \in Seq(Known(r)) /\ Len(<<>>) = 0
    BY EmptySeq
  <2>3. Len(Chain(r)) \in Nat
    BY <1>1, ChainIsList, LenProperties
  <2> QED
    BY <2>1, <2>2, <2>3 DEF PassedInv, AfterThrottle, LimitInv, EnteredInv, CheckedInv
<1>5. RuntimeInv
  BY DEF RuntimeInit, PipelineInit, RuntimeInv, ListenIsTruthful
<1> QED
  BY <1>1, <1>2, <1>3, <1>4, <1>5 DEF IInv

LEMMA StepIInv == IInv /\ [Next]_vars => IInv'
<1> SUFFICES ASSUME IInv, [Next]_vars PROVE IInv'
  OBVIOUS
<1> USE DEF IInv
<1>1. RuntimeInv'
  BY RuntimeStep
<1>2. CASE UNCHANGED requestVars
  <2>1. UNCHANGED <<gateVars, uploadVars, shape>>
    BY <1>2 DEF requestVars, gateVars
  <2>2. GateType' /\ UploadType'
    BY <2>1 DEF gateVars, uploadVars, shape, GateType, UploadType
  <2>3. UploadInv'
    BY <2>1 DEF gateVars, uploadVars, UploadInv, StageInv, FilesInv, DiskInv, Owned
  <2>4. StoreInv'
    BY <2>1 DEF uploadVars, StoreInv, PersistedFilesStay
  <2>5. GateInv'
    <3>1. /\ stage' = stage /\ admitted' = admitted /\ allowed' = allowed /\ entered' = entered
          /\ limiter' = limiter /\ declared' = declared /\ body' = body /\ disk' = disk
          /\ handles' = handles
      BY <2>1 DEF gateVars, uploadVars, shape
    <3> SUFFICES ASSUME NEW r \in Requests
                 PROVE  PassedInv(r)' /\ LimitInv(r)' /\ EnteredInv(r)' /\ CheckedInv(r)'
      BY DEF GateInv
    <3>2. /\ route(r)' = route(r) /\ Chain(r)' = Chain(r) /\ Known(r)' = Known(r)
          /\ Throttled(r)' = Throttled(r) /\ Limit(r)' = Limit(r)
          /\ \A f : Passes(r, f)' = Passes(r, f)
      BY <3>1 DEF route, Chain, Known, Throttled, Limit, Passes
    <3>3. PassedInv(r) /\ LimitInv(r) /\ EnteredInv(r) /\ CheckedInv(r)
      BY DEF GateInv
    <3> QED
      BY <3>1, <3>2, <3>3 DEF PassedInv, LimitInv, EnteredInv, CheckedInv
  <2> QED
    BY <1>1, <2>2, <2>3, <2>4, <2>5
<1>3. CASE \E r \in Requests : Step(r)
  <2>1. PICK r \in Requests : Step(r)
    BY <1>3
  <2> QED
    BY <1>1, <2>1, GateTypeStep, UploadTypeStep, UploadStep, StoreStep, GateStep
<1> QED
  BY <1>2, <1>3, NextIsStep

LEMMA Invariance == Spec => []IInv
<1> QED
  BY InitIInv, StepIInv, PTL DEF Spec

(* Whatever is declared and however requests overlap, none reaches an
   interceptor, an extractor or its handler without having passed the throttle,
   the guards and the limits that its controller and its method declare, nor a
   file its handler without the checks declared for it. *)
THEOREM GatesHold == Spec => []OnlyAdmittedRequestsRun
<1>1. IInv => OnlyAdmittedRequestsRun
  BY GatesAdmit DEF IInv
<1> QED
  BY <1>1, Invariance, PTL

(* Wherever a request is refused, fails, is dropped by an interceptor or
   cancelled, the destructors leave no staged file but of a part that broke
   off, and remove none that another request has. *)
THEOREM StagedFilesHaveOwners == Spec => []StagedFilesAreOwned
<1>1. IInv => StagedFilesAreOwned
  BY UploadsAreStaged DEF IInv
<1> QED
  BY <1>1, Invariance, PTL

(* A file that persist_to reported is never overwritten by another upload. *)
THEOREM PersistedFilesAreKept == Spec => []PersistedFilesStay
<1>1. IInv => PersistedFilesStay
  BY DEF IInv, StoreInv
<1> QED
  BY <1>1, Invariance, PTL

(* listen shuts the module down once, and tells what failed, whether it could
   not bind, the server failed or stopped, or a hook failed. *)
THEOREM ListenTellsTheTruth == Spec => []ListenIsTruthful
<1>1. IInv => ListenIsTruthful
  BY DEF IInv, RuntimeInv
<1> QED
  BY <1>1, Invariance, PTL
=============================================================================
