-------------------------- MODULE ProjectCommands ---------------------------
(***************************************************************************)
(* The commands that change a project on disk: caelix new, generate and    *)
(* update (crates/caelix-cli/src/lib.rs).  A command writes its files one  *)
(* by one, any write or child process may fail, and what was written stays. *)
(* Between commands the user does what the output tells him to.            *)
(***************************************************************************)
EXTENDS Integers, SequencesExt

CONSTANTS
    Features,      \* names that FeatureName::parse accepts
    MaxVersion,    \* bound of the model: releases of caelix on crates.io
    MaxCommands    \* bound of the model

ASSUME ProjectAssumption == MaxVersion \in Nat \ {0} /\ MaxCommands \in Nat

VARIABLES
    files,      \* contents by path: <<feature, part>> and <<"app", part>>
    targetDir,  \* whether the application's directory exists
    version,    \* of caelix: on crates.io, in Cargo.toml, in Cargo.lock, the CLI's own
    command,    \* the one that runs
    outcome,    \* what the last one reported: none, created, updated, exists, failed
    commands,   \* how many ran
    harmed,     \* history: features on which a command failed or the user deleted a file
    lockHeld    \* history: an update failed after it wrote Cargo.toml, and none succeeded since

projectVars == <<files, targetDir, version, command, outcome, commands, harmed, lockHeld>>

NoCommand == [kind |-> "none"]
Manifest == <<"app", "Cargo.toml">>
Parts == {"mod", "service", "controller"}
AppFiles == <<"Cargo.toml", ".gitignore", "AGENTS.md", "src/main.rs", "src/lib.rs", "src/app.rs">>
Kinds == {"service", "controller", "module"}

(* What a file declares and uses, and whether all of it was written. *)
File(declares, uses, whole) == [declares |-> declares, uses |-> uses, whole |-> whole]
Plain == File({}, {}, TRUE)
Exists(path) == path \in DOMAIN files
With(path, content) ==
    [p \in DOMAIN files \cup {path} |-> IF p = path THEN content ELSE files[p]]

ProjectInit ==
    /\ files = <<>>
    /\ targetDir = FALSE
    /\ version = [latest |-> 1, manifest |-> 0, lock |-> 0, cli |-> 0]
    /\ command = NoCommand
    /\ outcome = "none"
    /\ commands = 0
    /\ harmed = {}
    /\ lockHeld = FALSE

(* ensure_missing of everything the command is about to make, but for a
   service's and a controller's mod.rs, which may be there. *)
Required_First(kind) == IF kind = "module" THEN {"mod"} ELSE {kind}
Required(kind) == IF kind = "module" THEN Parts ELSE {kind}

(* What render_feature_mod and render_feature_module declare. *)
Declared_Both(kind, service) ==
    IF kind = "service" THEN {"service"} ELSE {"service", "controller"}
Declared(kind, service) ==
    IF kind = "module" THEN {"service", "controller"}
    ELSE {kind} \cup {part \in {"service"} : service}

(* The files in the order they are created.  A controller is rendered with a
   service when service.rs was there before anything was created. *)
Plan(kind, f, service) ==
    LET mod == [path |-> <<f, "mod">>, content |-> File(Declared(kind, service), {}, TRUE)]
        svc == [path |-> <<f, "service">>, content |-> Plain]
        ctl(s) == [path |-> <<f, "controller">>,
                   content |-> File({}, {part \in {"service"} : s}, TRUE)]
    IN CASE kind = "service" -> <<svc, mod>>
         [] kind = "controller" -> <<ctl(service), mod>>
         [] kind = "module" -> <<mod, svc, ctl(TRUE)>>

Begins(kind, on, todo) ==
    /\ command' = [kind |-> kind, on |-> on, todo |-> todo, kept |-> DOMAIN files]
    /\ commands' = commands + 1
    /\ UNCHANGED outcome

Reports(result) ==
    /\ outcome' = result
    /\ command' = NoCommand

(* A command that ends before it has changed anything. *)
Refused(result) ==
    /\ Reports(result)
    /\ commands' = commands + 1
    /\ UNCHANGED files

Free == command = NoCommand /\ commands < MaxCommands

(* A name that is no Rust identifier is refused before anything is looked at.
   create_dir_all may fail before or after it made the directory. *)
New ==
    /\ Free
    /\ \/ targetDir /\ Refused("exists") /\ UNCHANGED targetDir
       \/ ~targetDir /\ Refused("failed") /\ targetDir' \in BOOLEAN
       \/ /\ ~targetDir /\ targetDir' = TRUE
          /\ Begins("new", "app",
                 [i \in DOMAIN AppFiles |-> [path |-> <<"app", AppFiles[i]>>, content |-> Plain]])
          /\ UNCHANGED files
    /\ UNCHANGED <<version, harmed, lockHeld>>

(* A failing create_dir_all is a failure of the first file. *)
Generate(kind, f) ==
    /\ Free
    /\ IF ~Exists(Manifest) THEN Refused("failed")
       ELSE IF \E part \in Required(kind) : Exists(<<f, part>>) THEN Refused("exists")
       ELSE Begins(kind, f, Plan(kind, f, Exists(<<f, "service">>))) /\ UNCHANGED files
    /\ UNCHANGED <<targetDir, version, harmed, lockHeld>>

(* A mod.rs that is there is left to the user unless the command is module. *)
Skips(path) == command.kind \in {"service", "controller"} /\ path[2] = "mod" /\ Exists(path)

CreateFile ==
    /\ command.kind \in Kinds \cup {"new"} /\ command.todo # <<>>
    /\ LET next == Head(command.todo) IN
        \/ /\ Skips(next.path)
           /\ command' = [command EXCEPT !.todo = Tail(@)]
           /\ UNCHANGED <<files, outcome, harmed>>
        \/ /\ ~Skips(next.path) /\ Exists(next.path)
           /\ Reports("exists")
           /\ harmed' = harmed \cup {command.on}
           /\ UNCHANGED files
        \/ /\ ~Exists(next.path)
           /\ files' = With(next.path, next.content)
           /\ command' = [command EXCEPT !.todo = Tail(@)]
           /\ UNCHANGED <<outcome, harmed>>
    /\ UNCHANGED <<targetDir, version, commands, lockHeld>>

(* fs::write fails before or after it made the file, or the process is killed. *)
FailToCreate ==
    /\ command.kind \in Kinds \cup {"new"} /\ command.todo # <<>>
    /\ ~Exists(Head(command.todo).path)
    /\ \/ UNCHANGED files
       \/ files' = With(Head(command.todo).path, File({}, {}, FALSE))
    /\ Reports("failed")
    /\ harmed' = harmed \cup {command.on}
    /\ UNCHANGED <<targetDir, version, commands, lockHeld>>

Created ==
    /\ command.kind \in Kinds \cup {"new"} /\ command.todo = <<>>
    /\ Reports("created")
    /\ UNCHANGED <<files, targetDir, version, commands, harmed, lockHeld>>

(* update: the latest version is fetched, then Cargo.toml is read. *)
Update ==
    /\ Free
    /\ \/ Begins("fetched", version.latest, <<>>) /\ UNCHANGED files
       \/ Refused("failed")
    /\ UNCHANGED <<targetDir, version, harmed, lockHeld>>

AfterManifest == IF version.manifest = command.on THEN "installing" ELSE "locking"

(* Cargo.toml is there, parses, and names caelix with a version. *)
Readable == Exists(Manifest) /\ files[Manifest].whole

UpdateManifest ==
    /\ command.kind = "fetched" /\ Readable
    /\ command' = [command EXCEPT !.kind = AfterManifest]
    /\ version' = [version EXCEPT !.manifest = command.on]
    /\ UNCHANGED <<files, targetDir, outcome, commands, harmed, lockHeld>>

(* Cargo.toml is not read, does not parse, or names caelix in no way that
   update knows; that of a finished application may name it in another way. *)
ManifestUnusable ==
    /\ command.kind = "fetched"
    /\ Reports("failed")
    /\ UNCHANGED <<files, targetDir, version, commands, harmed, lockHeld>>

(* fs::write fails before or after it emptied Cargo.toml, or when what it has
   written is a manifest already. *)
WriteManifestFails ==
    /\ command.kind = "fetched" /\ Readable /\ AfterManifest = "locking"
    /\ \E whole \in BOOLEAN, left \in {version.manifest, command.on} :
        /\ files' = [files EXCEPT ![Manifest].whole = whole]
        /\ version' = [version EXCEPT !.manifest = left]
        /\ lockHeld' = (lockHeld \/ left = command.on)
    /\ Reports("failed")
    /\ UNCHANGED <<targetDir, commands, harmed>>

(* cargo update -p caelix resolves what the manifest now asks for. *)
UpdateLock ==
    /\ command.kind = "locking"
    /\ \/ /\ version' = [version EXCEPT !.lock = version.manifest]
          /\ command' = [command EXCEPT !.kind = "installing"]
          /\ lockHeld' = FALSE
          /\ UNCHANGED outcome
       \/ Reports("failed") /\ lockHeld' = TRUE /\ UNCHANGED version
    /\ UNCHANGED <<files, targetDir, commands, harmed>>

(* cargo install takes the release that is the latest by then. *)
UpdateSelf ==
    /\ command.kind = "installing"
    /\ \/ version' = [version EXCEPT !.cli = version.latest] /\ Reports("updated")
       \/ Reports("failed") /\ UNCHANGED version
    /\ UNCHANGED <<files, targetDir, commands, harmed, lockHeld>>

Publish ==
    /\ version.latest < MaxVersion
    /\ version' = [version EXCEPT !.latest = @ + 1]
    /\ UNCHANGED <<files, targetDir, command, outcome, commands, harmed, lockHeld>>

(* The user adds the declaration that a command's output asks for, or throws
   a file away. *)
UserDeclares(f, part) ==
    /\ command = NoCommand
    /\ Exists(<<f, part>>) /\ Exists(<<f, "mod">>)
    /\ files' = [files EXCEPT ![<<f, "mod">>].declares = @ \cup {part}]
    /\ UNCHANGED <<targetDir, version, command, outcome, commands, harmed, lockHeld>>

UserDeletes(f, part) ==
    /\ command = NoCommand
    /\ Exists(<<f, part>>)
    /\ files' = [p \in DOMAIN files \ {<<f, part>>} |-> files[p]]
    /\ harmed' = harmed \cup {f}
    /\ UNCHANGED <<targetDir, version, command, outcome, commands, lockHeld>>

ProjectNext ==
    \/ New \/ CreateFile \/ FailToCreate \/ Created
    \/ Update \/ UpdateManifest \/ ManifestUnusable \/ WriteManifestFails
    \/ UpdateLock \/ UpdateSelf \/ Publish
    \/ \E f \in Features :
        \/ \E kind \in Kinds : Generate(kind, f)
        \/ \E part \in {"service", "controller"} : UserDeclares(f, part)
        \/ \E part \in Parts : UserDeletes(f, part)

(* The command is over: it reports. *)
Ends == command' = NoCommand /\ (command # NoCommand \/ commands' # commands)
Whole(path, contents) == path \in DOMAIN contents /\ contents[path].whole

(* Each report is true.  A command that is refused because something exists
   has created no file before it noticed.  When new reports success, all files
   of the application are there in full; when a generator does, all files of
   its kind are, and mod.rs is there.  When update does, Cargo.toml is at the
   version it fetched, the CLI at that or a later one, and Cargo.lock is with
   Cargo.toml, unless an update that failed between the two has held it back
   and none has brought it up since.  And no new and no generator takes a file
   away or writes over one. *)
ReportStep ==
    /\ command # NoCommand /\ command.kind \in Kinds \cup {"new"} =>
        \A p \in DOMAIN files : p \in DOMAIN files' /\ files'[p] = files[p]
    /\ Ends =>
        /\ outcome' = "exists" =>
            DOMAIN files' = IF command = NoCommand THEN DOMAIN files ELSE command.kept
        /\ outcome' = "created" =>
            IF command.kind = "new" THEN \A name \in Range(AppFiles) : Whole(<<"app", name>>, files')
            ELSE /\ \A part \in Required(command.kind) : Whole(<<command.on, part>>, files')
                 /\ <<command.on, "mod">> \in DOMAIN files'
        /\ outcome' = "updated" =>
            /\ version'.manifest = command.on /\ version'.cli >= command.on
            /\ version'.lock = version'.manifest \/ lockHeld
ReportsAreTrue == [][ReportStep]_projectVars

(* A feature that no failure and no user has touched compiles as far as its
   files go, whatever commands made it in whatever order: mod.rs declares only
   modules that are there, and a controller that was rendered with a service
   finds one next to it. *)
FeaturesHoldTogether ==
    command = NoCommand =>
        \A f \in Features \ harmed : \A part \in Parts :
            Exists(<<f, part>>) =>
                /\ Exists(<<f, "mod">>)
                /\ \A q \in files[<<f, part>>].declares \cup files[<<f, part>>].uses : Exists(<<f, q>>)
=============================================================================
