-------------------------- MODULE RequestPipeline --------------------------
(***************************************************************************)
(* What a generated controller wrapper does with a request                 *)
(* (crates/caelix-macros/src/controller.rs), with the payload it buffers   *)
(* (request_payload.rs of the two adapters) and the uploads it stages      *)
(* (crates/caelix-core/src/upload.rs).                                     *)
(*                                                                         *)
(* Requests share the directory of staged files and the destinations that  *)
(* their handlers persist to.  The future of a request may be dropped at   *)
(* every await; a drop runs the destructors of what it holds.  Guards,     *)
(* interceptors and handlers are the application's: they do as they like.  *)
(***************************************************************************)
EXTENDS ControllerMacro

CONSTANTS
    Requests,
    Declarations,   \* the methods considered, each with its controller
    Bodies,         \* the bodies of requests: their content type, their length,
                    \* which bounds the file parts that they have, and the
                    \* checks that each of these fails
    BodyLimit,      \* Application::body_limit
    Destinations,   \* paths that handlers persist uploads to
    NoFile          \* where a file may be, none is

ASSUME PipelineAssumption ==
    /\ \A d \in Declarations : IsAnnotated(d.controller) /\ IsMethod(d.method)
    /\ Bodies \subseteq [length: Nat, type: {"json", "multipart", "other"},
                        flaws: SUBSET (Nat \X {"max_size", "header", "bytes", "validate"})]
    /\ BodyLimit \in Nat

(* Files are numbered per request. *)
ASSUME NoFileAssumption ==
    /\ NoFile \notin Requests \X Nat
    /\ NoFile \notin [file: Requests \X Nat, whole: BOOLEAN]

(* The routes of the controllers that compile.  An application without
   ThrottleModule does not start with a route that has a policy. *)
Routes(hasLimiter) ==
    {d \in Declarations :
        /\ ~Rejected(d.controller, d.method)
        /\ Effective(d.controller, d.method) = "policy" => hasLimiter}

VARIABLES
    limiter,        \* is ThrottleModule imported?
    stage,          \* where in the wrapper each request is
    declared,       \* the method it is for, and its controller
    body,           \* its body; without a content type it counts as json
    admitted,       \* history: throttle.check let it pass
    allowed,        \* the guards that let it pass
    entered,        \* the interceptors whose futures are alive, outermost first
    form,           \* the complete file parts of its MultipartForm
    writing,        \* the file whose part is being written
    handles,        \* the UploadedFiles its handler owns
    persisting,     \* the one that persist_to has consumed
    disk,           \* staged files that exist
    broken,         \* history: files whose part broke off
    stored,         \* what is at the destinations
    reported        \* history: the files and where persist_to told of them

shape == <<limiter, declared, body>>
gateVars == <<stage, shape, admitted, allowed, entered>>
uploadVars == <<form, writing, handles, persisting, disk, broken, stored, reported>>
requestVars == <<gateVars, uploadVars>>

Idle == [file |-> NoFile, to |-> NoFile, copied |-> FALSE]

PipelineInit ==
    /\ stage = [r \in Requests |-> "idle"]
    /\ limiter \in BOOLEAN
    /\ declared \in [Requests -> Routes(limiter)]
    /\ body \in [Requests -> Bodies]
    /\ admitted = [r \in Requests |-> FALSE]
    /\ allowed = [r \in Requests |-> <<>>]
    /\ entered = [r \in Requests |-> <<>>]
    /\ form = [r \in Requests |-> {}] /\ handles = form
    /\ writing = [r \in Requests |-> NoFile]
    /\ persisting = [r \in Requests |-> Idle]
    /\ disk = {} /\ broken = {} /\ reported = {}
    /\ stored = [d \in Destinations |-> NoFile]

route(r) == Expand(declared[r].controller, declared[r].method)

Busy(r) == stage[r] \notin {"idle", "answered", "dropped"}

To(r, next) == stage' = [stage EXCEPT ![r] = next]

-----------------------------------------------------------------------------
(* Before the future of the handler: throttle, guards, buffering. *)

(* Actix and Axum extract path and query parameters before the wrapper runs
   and refuse bad ones.  A header that is not text is refused when the wrapper
   builds the RequestContext. *)
Arrive(r) ==
    /\ stage[r] = "idle"
    /\ To(r, "throttle") \/ To(r, "answered")
    /\ UNCHANGED <<shape, admitted, allowed, entered, uploadVars>>

Throttled(r) == route(r).throttle = "policy" \/ (route(r).throttle = "global" /\ limiter)

(* Refused are 429 and the errors of the store. *)
Throttle(r) ==
    /\ stage[r] = "throttle"
    /\ IF Throttled(r)
       THEN \/ To(r, "guards") /\ admitted' = [admitted EXCEPT ![r] = TRUE]
            \/ To(r, "answered") /\ UNCHANGED admitted
       ELSE To(r, "guards") /\ UNCHANGED admitted
    /\ UNCHANGED <<shape, allowed, entered, uploadVars>>

(* can_activate of the next guard: Ok(true), or else Ok(false) or an error. *)
Guard(r) ==
    LET n == Len(allowed[r]) + 1 IN
    /\ stage[r] = "guards" /\ n <= Len(route(r).guards)
    /\ \/ allowed' = [allowed EXCEPT ![r] = Append(@, route(r).guards[n])] /\ UNCHANGED stage
       \/ To(r, "answered") /\ UNCHANGED allowed
    /\ UNCHANGED <<shape, admitted, entered, uploadVars>>

GuardsAllow(r) ==
    /\ stage[r] = "guards" /\ allowed[r] = route(r).guards
    /\ To(r, "buffering")
    /\ UNCHANGED <<shape, admitted, allowed, entered, uploadVars>>

(* Without a payload extractor nothing is read.  buffer() refuses a body that
   is too long or breaks off. *)
Buffer(r) ==
    /\ stage[r] = "buffering"
    /\ \/ (route(r).takes = {} \/ body[r].length <= BodyLimit) /\ To(r, "chain")
       \/ route(r).takes # {} /\ To(r, "answered")
    /\ UNCHANGED <<shape, admitted, allowed, entered, uploadVars>>

-----------------------------------------------------------------------------
(* Destructors. *)

Owned(r) == form[r] \cup handles[r] \cup ({persisting[r].file} \ {NoFile})

(* What the inner future holds is dropped.  UploadedFile removes its file; a
   part that is still being written has no UploadedFile. *)
DropUploads(r) ==
    /\ disk' = disk \ Owned(r)
    /\ broken' = broken \cup ({writing[r]} \ {NoFile})
    /\ form' = [form EXCEPT ![r] = {}]
    /\ handles' = [handles EXCEPT ![r] = {}]
    /\ writing' = [writing EXCEPT ![r] = NoFile]
    /\ persisting' = [persisting EXCEPT ![r] = Idle]
    /\ UNCHANGED <<stored, reported>>

-----------------------------------------------------------------------------
(* The interceptors.  Each Next holds the future made before it: they are made
   from the last interceptor to the first, and the one made last runs first. *)

Made(r) == Reverse(route(r).interceptors)

(* next.run(), of the wrapper or of the innermost interceptor entered. *)
RunNext(r) ==
    LET waiting == Len(Made(r)) - Len(entered[r]) IN
    /\ stage[r] = "chain"
    /\ IF waiting > 0
       THEN /\ entered' = [entered EXCEPT ![r] = Append(@, Made(r)[waiting])]
            /\ To(r, "interceptor")
       ELSE To(r, "payload") /\ UNCHANGED entered
    /\ UNCHANGED <<shape, admitted, allowed, uploadVars>>

Proceed(r) ==
    /\ stage[r] = "interceptor"
    /\ To(r, "chain")
    /\ UNCHANGED <<shape, admitted, allowed, entered, uploadVars>>

(* An interceptor returns without next, or with what it makes of the result;
   the wrapper's future returns the answer. *)
Return(r) ==
    /\ \/ stage[r] = "interceptor"
       \/ stage[r] = "leaving" /\ entered[r] # <<>>
    /\ entered' = [entered EXCEPT ![r] = SubSeq(@, 1, Len(@) - 1)]
    /\ To(r, "leaving")
    /\ UNCHANGED <<shape, admitted, allowed, uploadVars>>

Answer(r) ==
    /\ stage[r] = "leaving" /\ entered[r] = <<>>
    /\ To(r, "answered")
    /\ UNCHANGED <<shape, admitted, allowed, entered, uploadVars>>

Inner == {"payload", "parsing", "taking", "arguments", "handler"}

(* An interceptor drops the future of its next, as a timeout does. *)
DropNext(r) ==
    /\ stage[r] \in Inner \cup {"interceptor", "leaving"}
    /\ \E k \in 1..Len(entered[r]) :
        /\ stage[r] \notin Inner => k < Len(entered[r])
        /\ entered' = [entered EXCEPT ![r] = SubSeq(@, 1, k)]
    /\ To(r, "leaving")
    /\ DropUploads(r)
    /\ UNCHANGED <<shape, admitted, allowed>>

(* The client disconnects, or something panics. *)
Cancel(r) ==
    /\ Busy(r)
    /\ To(r, "dropped")
    /\ entered' = [entered EXCEPT ![r] = <<>>]
    /\ DropUploads(r)
    /\ UNCHANGED <<shape, admitted, allowed>>

-----------------------------------------------------------------------------
(* The payload. *)

Parses(r) == body[r].type = "multipart" /\ route(r).takes # {}

(* The optional file of a JSON request is None. *)
TakesJson(r) == body[r].type = "json" /\ route(r).takes # {} /\ ~route(r).multipart

Limit(r) == IF route(r).limit = 0 THEN BodyLimit ELSE route(r).limit

Payload(r) ==
    /\ stage[r] = "payload"
    /\ \/ (route(r).takes = {} \/ TakesJson(r)) /\ To(r, "arguments")
       \/ Parses(r) /\ body[r].length <= Limit(r) /\ To(r, "parsing")
    /\ UNCHANGED <<shape, admitted, allowed, entered, uploadVars>>

(* The inner future returns an error: 415 and 413, an invalid payload, a part
   that breaks off or cannot be written, a form that the extractors do not
   accept, a validator, no user, no cookie. *)
Refuse(r) ==
    /\ stage[r] \in {"payload", "parsing", "taking", "arguments"}
    /\ stage[r] = "payload" => route(r).takes # {}
    /\ To(r, "leaving")
    /\ DropUploads(r)
    /\ UNCHANGED <<shape, admitted, allowed, entered>>

OpenPart(r) ==
    LET f == <<r, Cardinality(form[r]) + 1>> IN
    /\ stage[r] = "parsing" /\ writing[r] = NoFile /\ f[2] <= body[r].length
    /\ writing' = [writing EXCEPT ![r] = f]
    /\ disk' = disk \cup {f}
    /\ UNCHANGED <<gateVars, form, handles, persisting, broken, stored, reported>>

PartEnds(r) ==
    /\ stage[r] = "parsing" /\ writing[r] # NoFile
    /\ form' = [form EXCEPT ![r] = @ \cup {writing[r]}]
    /\ writing' = [writing EXCEPT ![r] = NoFile]
    /\ UNCHANGED <<gateVars, handles, persisting, disk, broken, stored, reported>>

BodyEnds(r) ==
    /\ stage[r] = "parsing" /\ writing[r] = NoFile
    /\ To(r, "taking")
    /\ UNCHANGED <<shape, admitted, allowed, entered, uploadVars>>

(* What the extractors may take of the form: take_file wants one file of its
   field, take_files all of its, #[multipart] the form itself. *)
Takings(r) ==
    LET singles == route(r).takes \cap {"file", "option"} IN
    IF "multipart" \in route(r).takes THEN {form[r]}
    ELSE {S \in SUBSET form[r] :
            /\ "file" \in singles => S # {}
            /\ "files" \notin route(r).takes => Cardinality(S) <= Cardinality(singles)}

(* validate_max_size, validate_content_type and the validator. *)
Passes(r, f) == \A k \in route(r).checks : <<f[2], k>> \notin body[r].flaws

(* Mutant: files that no extractor takes are forgotten. *)
TakeFiles_Forgets(r) ==
    /\ stage[r] = "taking"
    /\ \E S \in Takings(r) :
        /\ \A f \in S : Passes(r, f)
        /\ handles' = [handles EXCEPT ![r] = S]
    /\ form' = [form EXCEPT ![r] = {}]
    /\ To(r, "arguments")
    /\ UNCHANGED <<shape, admitted, allowed, entered, writing, persisting, disk, broken,
                   stored, reported>>

(* Each file is checked as it is taken; what is left in the form is dropped
   with it before the handler is called. *)
TakeFiles(r) ==
    /\ stage[r] = "taking"
    /\ \E S \in Takings(r) :
        /\ \A f \in S : Passes(r, f)
        /\ handles' = [handles EXCEPT ![r] = S]
        /\ disk' = disk \ (form[r] \ S)
    /\ form' = [form EXCEPT ![r] = {}]
    /\ To(r, "arguments")
    /\ UNCHANGED <<shape, admitted, allowed, entered, writing, persisting, broken, stored,
                   reported>>

Call(r) ==
    /\ stage[r] = "arguments"
    /\ To(r, "handler")
    /\ UNCHANGED <<shape, admitted, allowed, entered, uploadVars>>

HandlerReturns(r) ==
    /\ stage[r] = "handler"
    /\ To(r, "leaving")
    /\ DropUploads(r)
    /\ UNCHANGED <<shape, admitted, allowed, entered>>

-----------------------------------------------------------------------------
(* UploadedFile::persist_to, which consumes the handle. *)

(* Mutant: an existing destination is replaced. *)
Free_Always(d) == TRUE
(* create_new. *)
Free(d) == stored[d] = NoFile

(* The source or the destination may not be opened, as when that exists. *)
PersistTo(r) ==
    /\ stage[r] = "handler" /\ persisting[r] = Idle
    /\ \E f \in handles[r], d \in Destinations :
        /\ handles' = [handles EXCEPT ![r] = @ \ {f}]
        /\ \/ /\ Free(d)
              /\ stored' = [stored EXCEPT ![d] = [file |-> f, whole |-> FALSE]]
              /\ persisting' = [persisting EXCEPT ![r] = [file |-> f, to |-> d, copied |-> FALSE]]
              /\ UNCHANGED disk
           \/ disk' = disk \ {f} /\ UNCHANGED <<stored, persisting>>
    /\ UNCHANGED <<gateVars, form, writing, broken, reported>>

Copy(r) ==
    /\ persisting[r] # Idle /\ ~persisting[r].copied
    /\ stored' = [stored EXCEPT ![persisting[r].to] = [file |-> persisting[r].file, whole |-> TRUE]]
    /\ persisting' = [persisting EXCEPT ![r].copied = TRUE]
    /\ UNCHANGED <<gateVars, form, writing, handles, disk, broken, reported>>

RemoveSource(r) ==
    /\ persisting[r].copied
    /\ disk' = disk \ {persisting[r].file}
    /\ persisting' = [persisting EXCEPT ![r] = Idle]
    /\ reported' = reported \cup {<<persisting[r].file, persisting[r].to>>}
    /\ UNCHANGED <<gateVars, form, writing, handles, broken, stored>>

(* The copy or the removal fails: the destination stays as it is, and the
   handle's destructor removes the source. *)
PersistFails(r) ==
    /\ persisting[r] # Idle
    /\ disk' = disk \ {persisting[r].file}
    /\ persisting' = [persisting EXCEPT ![r] = Idle]
    /\ UNCHANGED <<gateVars, form, writing, handles, broken, stored, reported>>

Gate(r) == Throttle(r) \/ Guard(r) \/ GuardsAllow(r) \/ Buffer(r)
Intercept(r) == RunNext(r) \/ Proceed(r) \/ Return(r) \/ Answer(r) \/ DropNext(r)
Extract(r) ==
    \/ Payload(r) \/ Refuse(r) \/ OpenPart(r) \/ PartEnds(r) \/ BodyEnds(r) \/ TakeFiles(r)
    \/ Call(r) \/ HandlerReturns(r)
Persist(r) == PersistTo(r) \/ Copy(r) \/ RemoveSource(r) \/ PersistFails(r)
Progress(r) == Gate(r) \/ Intercept(r) \/ Extract(r) \/ Persist(r) \/ Cancel(r)

-----------------------------------------------------------------------------
(* Properties. *)

Inside == Inner \cup {"chain", "interceptor", "leaving"}

(* What the declaration asks for: an annotation at the method overrides the
   controller's, and that the global policy. *)
MustBeAdmitted(r) ==
    LET c == declared[r].controller
        m == declared[r].method IN
    \/ m.throttle = <<"policy">>
    \/ m.throttle = <<>> /\ c.throttle = <<"policy">>
    \/ m.throttle = <<>> /\ c.throttle = <<>> /\ limiter

Prefix(s, t) == s = SubSeq(t, 1, Len(s))

Fails(r, check) == \E f \in handles[r] : <<f[2], check>> \in body[r].flaws

DeclaredChecksHold(r) ==
    LET options == Range(declared[r].method.options)
        sight == IF "trust_content_type_header" \in options THEN "header" ELSE "bytes" IN
    /\ "max_size" \in options => ~Fails(r, "max_size")
    /\ "content_type" \in options => ~Fails(r, sight)
    /\ "validate" \in options => ~Fails(r, "validate")

(* Nothing of a route, its interceptors, extractors and handler, runs for a
   request that the throttle or a guard refused or that is too long, and those
   run that are declared: the guards of the controller and then the method's,
   and, from the outside, the interceptors of the controller and then the
   method's, all before the payload is looked at; no part of a form that is
   longer than #[upload(limit)] is staged; and no file that fails a check its
   extractor declares reaches the handler. *)
OnlyAdmittedRequestsRun ==
    \A r \in Requests :
        LET c == declared[r].controller
            m == declared[r].method IN
        /\ stage[r] \in Inside =>
            /\ MustBeAdmitted(r) => admitted[r]
            /\ allowed[r] = c.guards \o m.guards
            /\ m.takes # {} => body[r].length <= BodyLimit
            /\ Prefix(entered[r], c.interceptors \o m.interceptors)
        /\ stage[r] \in Inner => entered[r] = c.interceptors \o m.interceptors
        /\ (\E f \in disk : f[1] = r) /\ m.limit > 0 => body[r].length <= m.limit
        /\ DeclaredChecksHold(r)

(* Whatever is refused, fails, times out or is cancelled, a staged file
   belongs to a request that is being handled, and every UploadedFile has its
   file.  Files whose part broke off are the exception: nothing removes them. *)
StagedFilesAreOwned ==
    /\ disk \ broken \subseteq UNION {Owned(r) \cup {writing[r]} : r \in Requests}
    /\ \A r \in Requests : Owned(r) \subseteq disk /\ (Owned(r) # {} => Busy(r))

(* What persist_to reported stays where it is said to be, whole and nobody
   else's, whichever other request persists to the same path. *)
PersistedFilesStay ==
    \A p \in reported : stored[p[2]] = [file |-> p[1], whole |-> TRUE]
=============================================================================
