--------------------------- MODULE ControllerMacro ---------------------------
(***************************************************************************)
(* What #[controller] makes of an impl block                               *)
(* (crates/caelix-macros/src/controller.rs): the attributes of the block   *)
(* and of a method become the route of that method, or compile errors.     *)
(***************************************************************************)
EXTENDS Integers, FiniteSets, SequencesExt

(* #[throttle(...)] with its limits, and #[skip_throttle]. *)
Annotations == {"policy", "skip"}

(* The payload extractors: #[body], #[multipart], #[file] of an UploadedFile,
   #[file] of an Option<UploadedFile>, and #[files]. *)
PayloadExtractors == {"body", "multipart", "file", "option", "files"}

(* Both controllers and methods have annotations, and lists of guards and
   interceptors. *)
IsAnnotated(d) ==
    /\ d.throttle \in Seq(Annotations)
    /\ d.guards \in Seq(Range(d.guards))
    /\ d.interceptors \in Seq(Range(d.interceptors))
IsMethod(m) ==
    /\ IsAnnotated(m)
    /\ m.takes \subseteq PayloadExtractors
    /\ m.bodies > 0 <=> "body" \in m.takes
    /\ m.options \in Seq(Range(m.options)) /\ m.validator \in BOOLEAN
    /\ m.options # <<>> => m.takes \cap {"file", "option", "files"} # {}

(* A controller c has throttle annotations, guards and interceptors, each in
   the order written; so has a method m, and the payload extractors it takes,
   the number of its #[body] arguments, #[upload(limit)], 0 without, the options
   written for its #[file] and #[files], the same for each, and whether what
   `validate` names is an upload validator of the controller. *)
Conflicting(d) == Len(d.throttle) > 1

UploadOptions == {"max_size", "content_type", "trust_content_type_header", "validate"}

(* An unknown option, a duplicate, or a header trusted without a type. *)
OptionsRejected(m) ==
    \/ ~(Range(m.options) \subseteq UploadOptions) \/ ~IsInjective(m.options)
    \/ /\ "trust_content_type_header" \in Range(m.options)
       /\ "content_type" \notin Range(m.options)

ValidatorRejected(m) == "validate" \in Range(m.options) /\ ~m.validator

Rejected(c, m) ==
    \/ Conflicting(c) \/ Conflicting(m)
    \/ m.bodies > 1
    \/ "multipart" \in m.takes /\ m.takes # {"multipart"}
    \/ OptionsRejected(m) \/ ValidatorRejected(m)

(* Mutant: the annotation of the controller comes first. *)
Effective_ControllerFirst(c, m) ==
    IF c.throttle # <<>> THEN c.throttle[1]
    ELSE IF m.throttle # <<>> THEN m.throttle[1] ELSE "global"

(* method_throttle.or(controller_throttle); without either the policy is the
   one of ThrottleModule, if there is one. *)
Effective(c, m) ==
    IF m.throttle # <<>> THEN m.throttle[1]
    ELSE IF c.throttle # <<>> THEN c.throttle[1] ELSE "global"

ForcesMultipart(takes) == takes \cap {"multipart", "file", "files"} # {}

(* The checks made of each file that is taken: its type is what its header
   says, if that is trusted, or else what its bytes look like. *)
Checks(m) ==
    (Range(m.options) \cap {"max_size", "validate"}) \cup
    IF "content_type" \notin Range(m.options) THEN {}
    ELSE IF "trust_content_type_header" \in Range(m.options) THEN {"header"} ELSE {"bytes"}

Expand(c, m) ==
    [throttle |-> Effective(c, m),
     guards |-> c.guards \o m.guards,
     interceptors |-> c.interceptors \o m.interceptors,
     takes |-> m.takes,
     multipart |-> ForcesMultipart(m.takes),
     checks |-> Checks(m),
     limit |-> m.limit]
=============================================================================
