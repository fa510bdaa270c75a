---------------------------- MODULE ContentCache ----------------------------
(***************************************************************************)
(* The verified cache of official files (cubic-resources/src/lib.rs) and   *)
(* the launch that fills and uses it (run_world in cubic-app/src/main.rs): *)
(* several processes share one directory and may die anywhere.  Renaming,  *)
(* removing and creating a file are atomic; the network, the file system   *)
(* and the process ids are external.  "metadata" stands for metadata.json  *)
(* and asset-index.json, which load_or_fetch_bytes treats alike.           *)
(***************************************************************************)
EXTENDS Naturals, FiniteSets

CONSTANTS
    Programs,       \* processes that may run at the same time
    Pids,           \* process ids the system gives out
    MaxCrashes,     \* crashes in one behaviour
    MaxSpoils       \* cached files damaged from outside

VARIABLES
    disk,       \* what each final path holds
    parts,      \* the .part files, by final name and process id
    program,    \* the processes
    machine     \* what happened around them

cacheVars == <<disk, parts, program, machine>>

Missing == "missing"
Good == "official"
Old == "outdated"       \* a manifest that parses but does not list the version yet
Bad == "damaged"        \* truncated, altered, or not of the expected hash
Files == {"manifest", "metadata", "client"}

Off == [pc |-> "off", pid |-> 0, file |-> "manifest", got |-> Missing, calm |-> FALSE]

CacheInit ==
    /\ disk = [f \in Files |-> Missing]
    /\ parts = {}
    /\ program = [p \in Programs |-> Off]
    /\ machine = [published |-> FALSE, crashes |-> 0, spoils |-> 0, spoiled |-> {}]

Stopped == {"off", "failed", "ready"}
At(p, pc) == program[p].pc = pc
Goes(p, pc) == program' = [program EXCEPT ![p].pc = pc]
\* The network, or a name that is taken: nothing the launch could do about.
Aborts(p) == program' = [program EXCEPT ![p].pc = "failed", ![p].calm = FALSE]
Part(p) == <<program[p].file, program[p].pid>>

\* Mutants: a file is trusted because it exists; what arrives is trusted.
PresentIsValid(file, content) == content # Missing
AcceptsAll(file, content) == TRUE

\* verify_bytes, verify_file and, for the manifest, which has no hash, parsing it.
Valid(file, content) == content = Good \/ (file = "manifest" /\ content = Old)
Accepts(file, content) == Valid(file, content)

\* What follows a file that is in hand and not read again: the version is looked up in the
\* manifest; after the metadata comes the client archive, which is opened.
After(r, content) ==
    [r EXCEPT !.pc = IF r.file = "manifest" /\ content = Old THEN "failed"
                     ELSE IF r.file = "client" THEN "open" ELSE "check",
              !.file = IF r.file = "manifest" THEN "metadata" ELSE "client",
              !.got = Missing]

\* bootstrap, load_or_fetch_bytes and ensure_artifact look at the cache first; the last
\* then removes what it found before it downloads.
Check(p) ==
    /\ At(p, "check")
    /\ LET file == program[p].file
       IN IF Valid(file, disk[file])
          THEN program' = [program EXCEPT ![p] = After(@, disk[file])]
          ELSE Goes(p, IF file = "client" THEN "clear" ELSE "fetch")
    /\ UNCHANGED <<disk, parts, machine>>

\* What the network answers, if it does (a request may always fail): anything may come
\* back, and a manifest lists the version once it is published.
Answers(file) ==
    {Bad, IF file = "manifest" /\ ~machine.published THEN Old ELSE Good}

\* Fetcher::bytes into memory, verified before a file is touched.
Fetched(p) ==
    /\ At(p, "fetch")
    /\ \E content \in Answers(program[p].file) :
        /\ Accepts(program[p].file, content)
        /\ program' = [program EXCEPT ![p].pc = "write", ![p].got = content]
    /\ UNCHANGED <<disk, parts, machine>>
FetchFails(p) ==
    /\ At(p, "fetch")
    /\ Aborts(p)
    /\ UNCHANGED <<disk, parts, machine>>

\* atomic_write up to sync_all.  create_new refuses a name that exists: that of a process
\* that died, had the same id and had written as many files before.
WritePart(p) ==
    /\ At(p, "write")
    /\ parts' = parts \cup {Part(p)} /\ Goes(p, "clear")
    /\ UNCHANGED <<disk, machine>>
NameTaken(p) ==
    /\ At(p, "write") /\ Part(p) \in parts
    /\ Aborts(p)
    /\ UNCHANGED <<disk, parts, machine>>

\* path.exists(), of atomic_write after its temporary file and of ensure_artifact before it.
Cleared(p) == IF program[p].file = "client" THEN "download" ELSE "promote"
Clear(p) ==
    /\ At(p, "clear")
    /\ Goes(p, IF disk[program[p].file] = Missing THEN Cleared(p) ELSE "remove")
    /\ UNCHANGED <<disk, parts, machine>>

\* remove_file: an error if another process was faster, which leaves the temporary file.
Remove(p) ==
    /\ At(p, "remove")
    /\ Goes(p, IF disk[program[p].file] = Missing THEN "failed" ELSE Cleared(p))
    /\ disk' = [disk EXCEPT ![program[p].file] = Missing]
    /\ UNCHANGED <<parts, machine>>

\* Fetcher::artifact creates the temporary file, fills, syncs and verifies it; whatever
\* fails, ensure_artifact removes it.
Download(p) ==
    /\ At(p, "download")
    /\ parts' = parts \cup {Part(p)} /\ Goes(p, "transfer")
    /\ UNCHANGED <<disk, machine>>
Transferred(p) ==
    /\ At(p, "transfer")
    /\ \E content \in Answers("client") :
        /\ Accepts("client", content)
        /\ program' = [program EXCEPT ![p].pc = "promote", ![p].got = content]
    /\ UNCHANGED <<disk, parts, machine>>
DownloadFails(p) ==
    /\ At(p, "transfer")
    /\ parts' = parts \ {Part(p)} /\ Aborts(p)
    /\ UNCHANGED <<disk, machine>>

\* rename replaces whatever another process has put there meanwhile.
Promote(p) ==
    /\ At(p, "promote")
    /\ disk' = [disk EXCEPT ![program[p].file] = program[p].got]
    /\ parts' = parts \ {Part(p)}
    /\ program' = [program EXCEPT ![p] = After(@, @.got)]
    /\ machine' = [machine EXCEPT !.spoiled = @ \ {program[p].file}]

\* VanillaClientResources::open and the load of the resources do not verify again: what is
\* at the path now is used, if it is there and reads as an archive.
Open(p) ==
    /\ At(p, "open")
    /\ LET content == disk["client"]
       IN \/ content \notin {Missing} /\ program' = [program EXCEPT ![p].pc = "ready", ![p].got = content]
          \/ content # Good /\ Goes(p, "failed")
    /\ UNCHANGED <<disk, parts, machine>>

ProgramStep(p) ==
    \/ Check(p) \/ Fetched(p) \/ FetchFails(p) \/ WritePart(p) \/ NameTaken(p) \/ Clear(p) \/ Remove(p)
    \/ Download(p) \/ Transferred(p) \/ DownloadFails(p) \/ Promote(p) \/ Open(p)

\* run_world starts; calm is a launch that nothing and nobody disturbs.
Launch(p, pid) ==
    /\ program[p].pc \in {"off", "failed"}
    /\ \A q \in Programs \ {p} : program[q].pc = "off" \/ program[q].pid # pid
    /\ program' = [q \in Programs |->
        IF q = p
        THEN [Off EXCEPT !.pc = "check", !.pid = pid,
                         !.calm = \A other \in Programs \ {p} : program[other].pc \in Stopped]
        ELSE [program[q] EXCEPT !.calm = FALSE]]
    /\ UNCHANGED <<disk, parts, machine>>
Quit(p) ==
    /\ program[p].pc \in {"failed", "ready"}
    /\ program' = [program EXCEPT ![p] = Off]
    /\ UNCHANGED <<disk, parts, machine>>

\* The process dies: the files stay as they are, a temporary one among them.
Crash(p) ==
    /\ machine.crashes < MaxCrashes /\ program[p].pc \notin Stopped
    /\ program' = [program EXCEPT ![p] = Off]
    /\ machine' = [machine EXCEPT !.crashes = @ + 1]
    /\ UNCHANGED <<disk, parts>>

Spoil ==
    /\ machine.spoils < MaxSpoils
    /\ \E file \in Files :
        /\ disk[file] # Missing
        /\ disk' = [disk EXCEPT ![file] = Bad]
        /\ machine' = [machine EXCEPT !.spoils = @ + 1, !.spoiled = @ \cup {file}]
    /\ program' = [p \in Programs |-> [program[p] EXCEPT !.calm = FALSE]]
    /\ UNCHANGED parts
Publish ==
    /\ ~machine.published
    /\ machine' = [machine EXCEPT !.published = TRUE]
    /\ UNCHANGED <<disk, parts, program>>

CacheNext ==
    \/ \E p \in Programs : ProgramStep(p) \/ Quit(p) \/ Crash(p) \/ \E pid \in Pids : Launch(p, pid)
    \/ Spoil \/ Publish

(***************************************************************************)
(* Properties.                                                             *)
(***************************************************************************)
CacheTypeOK ==
    /\ disk \in [Files -> {Missing, Good, Old, Bad}]
    /\ parts \subseteq Files \X Pids
    /\ \A p \in Programs : program[p].pid \in Pids \cup {0} /\ program[p].file \in Files

\* Only verified files reach a final path, wherever processes die and however they
\* overlap: what is damaged there was damaged there, and nothing else is used.  Whatever
\* crashes, damage and failed downloads have left behind, a launch during which no other
\* process works on the cache, no request fails (none is made for what is in the cache) and
\* no temporary name is taken
\* gets to the game, unless the cached manifest is one that does not list the version,
\* which is never replaced.
CacheSound ==
    /\ \A f \in Files : disk[f] = Bad => f \in machine.spoiled
    /\ disk["metadata"] # Old /\ disk["client"] # Old
    /\ \A p \in Programs :
        /\ program[p].pc = "ready" /\ program[p].got # Good => machine.spoils > 0
        /\ program[p].pc = "failed" /\ program[p].calm => disk["manifest"] = Old
=============================================================================
