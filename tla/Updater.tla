-------------------------------- MODULE Updater --------------------------------
(***************************************************************************)
(* Updates of the application (updater/mod, github, archive, install): the   *)
(* manager that checks for a release, downloads and prepares it, and the     *)
(* script that installs it after the program has exited.  The Windows script *)
(* keeps a backup and rolls back; the macOS one stops where it fails.        *)
(***************************************************************************)
EXTENDS Integers, Sequences, FiniteSets

CONSTANTS
    Platforms,      \* of those in {"windows", "macos"}, the ones to run on
    Releases,       \* what GitHub may say: [version, digest], digest "none" without an asset
    Running,        \* the version that runs: [n : Seq(Nat), tag : STRING]
    Beside,        \* what may be installed beside it: records of files
    MaxChecks       \* bound: checks for a release

VARIABLES
    platform,
    phase,          \* UpdateStatus.phase
    busy,           \* UpdateManager.running
    selection, prepared,
    fetching,       \* check_latest is under way
    updating,       \* run_update: its step, its selection and what it downloaded
    restarting,     \* restart_to_install has seen that nothing is running
    installer,      \* the script: its step and what it found at its start
    files,          \* what is installed, and its backup
    program,        \* what runs: the version of its executable, or none
    lastError,      \* the error file that survives the update
    checks

updateVars == <<platform, phase, busy, selection, prepared, fetching, updating, restarting, installer,
                files, program, lastError, checks>>

NoRelease == [version |-> Running, digest |-> "none"]
NoUpdate == [at |-> "idle", of |-> NoRelease, got |-> "none"]
NotInstalling == [at |-> 0, how |-> "none", found |-> [ext |-> "none", marker |-> "none"]]
Phases == {"idle", "checking", "available", "upToDate", "downloading", "verifying", "extracting",
           "preparing", "readyToRestart", "restarting", "failed"}
Installed == {"none", "old", "new", "torn"}
Slots == {"exe", "ext", "marker", "bexe", "bext", "bmarker"}

\* An update has a stage directory of its own, without a backup at first.
ASSUME UpdateAssumption ==
    /\ MaxChecks \in Nat
    /\ \A b \in Beside : DOMAIN b \subseteq {"ext", "marker"} /\ \A s \in DOMAIN b : b[s] \in Installed

UpdateTypes ==
    /\ platform \in Platforms /\ phase \in Phases /\ busy \in BOOLEAN
    /\ selection \in Releases \cup {NoRelease} /\ prepared \in Releases \cup {NoRelease}
    /\ fetching \in BOOLEAN /\ restarting \in BOOLEAN /\ lastError \in BOOLEAN
    /\ updating \in [at : {"idle", "download", "verify", "extract", "prepare"}, of : Releases \cup {NoRelease},
                     got : {"none", "asset", "other"}]
    /\ installer \in [at : 0..9, how : {"none", "wait", "forward", "failing", "back", "done", "rolledBack", "dead"},
                      found : [ext : Installed, marker : Installed]]
    /\ files \in [Slots -> Installed] /\ program \in {"old", "new", "none"} /\ checks \in 0..MaxChecks

UpdateInit ==
    /\ platform \in Platforms /\ phase = "idle" /\ busy = FALSE
    /\ selection = NoRelease /\ prepared = NoRelease /\ fetching = FALSE /\ updating = NoUpdate
    /\ restarting = FALSE /\ installer = NotInstalling
    /\ files \in {[s \in Slots |-> IF s = "exe" THEN "old" ELSE IF s \in DOMAIN b THEN b[s] ELSE "none"] : b \in Beside}
    /\ program = "old" /\ lastError = FALSE /\ checks = 0

-----------------------------------------------------------------------------
\* compare_numeric_versions: missing parts count as zero.
Part(n, i) == IF i <= Len(n) THEN n[i] ELSE 0
NumericAbove(l, r) ==
    \E i \in 1..Len(l) : Part(l, i) > Part(r, i) /\ \A j \in 1..(i - 1) : Part(l, j) = Part(r, j)

\* is_remote_newer: what is not numeric is newer if it differs.
is_remote_newer(remote, current) ==
    /\ remote # current
    /\ (remote.n # <<>> /\ current.n # <<>>) => NumericAbove(remote.n, current.n)

ManagerOnly == UNCHANGED <<platform, installer, files, program>>
Up == program = "old" /\ installer.how = "none"

-----------------------------------------------------------------------------
\* check_latest: one at a time, and never beside an update.
CheckBegins ==
    /\ Up /\ ~busy /\ checks < MaxChecks
    /\ busy' = TRUE /\ fetching' = TRUE /\ phase' = "checking" /\ lastError' = FALSE /\ checks' = checks + 1
    /\ ManagerOnly /\ UNCHANGED <<selection, prepared, updating, restarting>>

\* What GitHub answers: no release, or one with or without an asset for this machine.
fetch_latest == Releases \cup {NoRelease}

\* finish_check
finish_check ==
    /\ Up /\ fetching /\ fetching' = FALSE /\ busy' = FALSE
    /\ \/ \E r \in fetch_latest :
            /\ selection' = r
            /\ phase' = IF ~is_remote_newer(r.version, Running) THEN "upToDate"
                        ELSE IF prepared # NoRelease /\ prepared.version = r.version THEN "readyToRestart"
                        ELSE "available"
       \/ phase' = "failed" /\ UNCHANGED selection
    /\ ManagerOnly /\ UNCHANGED <<prepared, updating, restarting, lastError, checks>>

Acceptable == selection # NoRelease /\ is_remote_newer(selection.version, Running) /\ selection.digest # "none"

\* start_update gives up what was prepared before it looks at the selection.
start_update ==
    /\ Up /\ ~busy
    /\ prepared' = NoRelease
    /\ IF Acceptable
       THEN /\ busy' = TRUE /\ phase' = "downloading"
            /\ updating' = [at |-> "download", of |-> selection, got |-> "none"]
       ELSE /\ phase' = IF selection # NoRelease /\ ~is_remote_newer(selection.version, Running) THEN "upToDate" ELSE "failed"
            /\ UNCHANGED <<busy, updating>>
    /\ ManagerOnly /\ UNCHANGED <<selection, fetching, restarting, lastError, checks>>

-----------------------------------------------------------------------------
UpdateFails ==
    /\ Up /\ updating.at # "idle"
    /\ updating' = NoUpdate /\ busy' = FALSE /\ phase' = "failed"
    /\ ManagerOnly /\ UNCHANGED <<selection, prepared, fetching, restarting, lastError, checks>>

UpdateStep(from, to, shown, what) ==
    /\ Up /\ updating.at = from
    /\ updating' = [updating EXCEPT !.at = to, !.got = what] /\ phase' = shown
    /\ ManagerOnly /\ UNCHANGED <<busy, selection, prepared, fetching, restarting, lastError, checks>>

\* download_zip: a body of the right size may still be another one.
download == \E what \in {"asset", "other"} : UpdateStep("download", "verify", "verifying", what)

Mutverify == UpdateStep("verify", "extract", "extracting", updating.got)

\* The digest of what arrived against the release's.
verify == updating.got = "asset" /\ UpdateStep("verify", "extract", "extracting", "asset")

extract_zip == UpdateStep("extract", "prepare", "preparing", updating.got)

\* prepare_update found the executable and a complete extension in the package.
prepare_update ==
    /\ Up /\ updating.at = "prepare"
    /\ prepared' = updating.of /\ phase' = "readyToRestart"
    /\ updating' = NoUpdate /\ busy' = FALSE
    /\ ManagerOnly /\ UNCHANGED <<selection, fetching, restarting, lastError, checks>>

\* restart_to_install: what runs is looked at first, what is prepared later.
LookIdle ==
    /\ Up /\ ~restarting
    /\ IF busy THEN phase' = "failed" /\ UNCHANGED restarting ELSE restarting' = TRUE /\ UNCHANGED phase
    /\ ManagerOnly /\ UNCHANGED <<busy, selection, prepared, fetching, updating, lastError, checks>>

spawn_installer ==
    /\ Up /\ restarting /\ restarting' = FALSE
    /\ \/ prepared # NoRelease /\ installer' = [NotInstalling EXCEPT !.how = "wait"] /\ phase' = "restarting"
       \/ phase' = "failed" /\ UNCHANGED installer
    /\ UNCHANGED <<platform, busy, selection, prepared, fetching, updating, files, program, lastError, checks>>

-----------------------------------------------------------------------------
\* The script finds out what is there while the program still runs, and waits for its end.
exit_for_update ==
    /\ installer.how = "wait" /\ program = "old"
    /\ program' = "none"
    /\ installer' = [installer EXCEPT !.how = "forward", !.at = 1,
                                      !.found = [ext |-> files["ext"], marker |-> files["marker"]]]
    /\ UNCHANGED <<platform, phase, busy, selection, prepared, fetching, updating, restarting, files, lastError, checks>>

Copied(f, from, to) == [f EXCEPT ![to] = f[from]]
Had(s) == installer.found[s] # "none"

\* One line of the scripts each: the files after it.
Forward(f) ==
    IF platform = "windows"
    THEN <<Copied(f, "exe", "bexe"),
           IF Had("ext") THEN Copied(f, "ext", "bext") ELSE f,
           IF Had("marker") THEN Copied(f, "marker", "bmarker") ELSE f,
           [f EXCEPT !["ext"] = "none"], [f EXCEPT !["ext"] = "new"], [f EXCEPT !["exe"] = "new"],
           [f EXCEPT !["marker"] = "new"]>>
    ELSE <<[f EXCEPT !["ext"] = "none"], [f EXCEPT !["ext"] = "new"], [f EXCEPT !["exe"] = "new"],
           [f EXCEPT !["marker"] = "new"]>>

\* What the lines write; one that fails may leave it torn.
Targets == IF platform = "windows" THEN <<"bexe", "bext", "bmarker", "ext", "ext", "exe", "marker">>
           ELSE <<"ext", "ext", "exe", "marker">>

Script == Len(Targets)
Scripted == UNCHANGED <<platform, phase, busy, selection, prepared, fetching, updating, restarting, checks>>

Line ==
    /\ installer.how = "forward" /\ installer.at <= Script
    /\ files' = Forward(files)[installer.at]
    /\ installer' = [installer EXCEPT !.at = @ + 1]
    /\ Scripted /\ UNCHANGED <<program, lastError>>

LineFails ==
    /\ installer.how = "forward" /\ installer.at <= Script
    /\ files' \in {files, [files EXCEPT ![Targets[installer.at]] = "torn"]}
    /\ installer' = [installer EXCEPT !.how = IF platform = "windows" THEN "failing" ELSE "dead"]
    /\ Scripted /\ UNCHANGED <<program, lastError>>

\* The error file goes, the new program starts; on Windows it has to answer within 45 s.
StartNew ==
    /\ installer.how = "forward" /\ installer.at = Script + 1
    /\ lastError' = FALSE
    /\ \/ installer' = [installer EXCEPT !.how = "done"] /\ program' = "new"
       \/ installer' = [installer EXCEPT !.how = IF platform = "windows" THEN "failing" ELSE "dead"] /\ program' = "none"
       \/ platform = "windows" /\ installer' = [installer EXCEPT !.how = "failing"] /\ program' = "new"
    /\ Scripted /\ UNCHANGED files

\* The error is written down before anything is put back; what cannot be written ends the script.
WriteError ==
    /\ installer.how = "failing"
    /\ \/ installer' = [installer EXCEPT !.how = "back", !.at = 1] /\ lastError' = TRUE /\ program' = "none"
       \/ installer' = [installer EXCEPT !.how = "dead"] /\ UNCHANGED <<lastError, program>>
    /\ Scripted /\ UNCHANGED files

MutBack(f) ==
    <<IF f["bexe"] # "none" THEN Copied(f, "bexe", "exe") ELSE f,
      IF Had("ext") /\ f["bext"] # "none" THEN Copied(f, "bext", "ext") ELSE f, f,
      IF f["bmarker"] # "none" THEN Copied(f, "bmarker", "marker") ELSE f>>

\* The catch block, line by line.
Back(f) ==
    <<IF f["bexe"] # "none" THEN Copied(f, "bexe", "exe") ELSE f,
      [f EXCEPT !["ext"] = "none"],
      IF Had("ext") /\ f["bext"] # "none" THEN Copied(f, "bext", "ext") ELSE f,
      IF Had("marker") /\ f["bmarker"] # "none" THEN Copied(f, "bmarker", "marker") ELSE [f EXCEPT !["marker"] = "none"]>>

BackLine ==
    /\ installer.how = "back" /\ installer.at <= 4
    /\ files' = Back(files)[installer.at]
    /\ installer' = [installer EXCEPT !.at = @ + 1]
    /\ Scripted /\ UNCHANGED <<program, lastError>>

BackFails ==
    /\ installer.how = "back" /\ installer.at <= 5
    /\ installer' = [installer EXCEPT !.how = "dead"]
    /\ UNCHANGED files
    /\ Scripted /\ UNCHANGED <<program, lastError>>

StartOld ==
    /\ installer.how = "back" /\ installer.at = 5
    /\ installer' = [installer EXCEPT !.how = "rolledBack"] /\ program' = "old"
    /\ Scripted /\ UNCHANGED <<files, lastError>>

UpdateNext ==
    \/ CheckBegins \/ finish_check \/ start_update \/ UpdateFails
    \/ download \/ verify \/ extract_zip \/ prepare_update
    \/ LookIdle \/ spawn_installer \/ exit_for_update
    \/ Line \/ LineFails \/ StartNew \/ WriteError \/ BackLine \/ BackFails \/ StartOld

-----------------------------------------------------------------------------
\* What is prepared was verified, is newer than what runs, and an update that is offered
\* for a restart is prepared, through checks, failed updates and restarts beside them.
PreparedIsVerified ==
    /\ prepared # NoRelease => is_remote_newer(prepared.version, Running) /\ prepared.digest # "none"
    /\ updating.at \in {"extract", "prepare"} => updating.got = "asset"
    /\ phase = "readyToRestart" => prepared # NoRelease

Backed == files["bexe"] = "old" /\ files["bext"] = installer.found.ext /\ files["bmarker"] = installer.found.marker

\* A script that ends well leaves all of the new version and runs it; one that rolls back
\* leaves all of the old, if it failed after its backup was complete; and until its backup
\* is complete nothing that is installed has changed.
InstallsWhole ==
    /\ installer.how = "done" => files["exe"] = "new" /\ files["ext"] = "new" /\ files["marker"] = "new" /\ program = "new"
    /\ installer.how = "rolledBack" /\ Backed =>
          files["exe"] = "old" /\ files["ext"] = installer.found.ext /\ files["marker"] = installer.found.marker
    /\ platform = "windows" /\ installer.how = "forward" /\ ~Backed =>
          files["exe"] = "old" /\ files["ext"] = installer.found.ext /\ files["marker"] = installer.found.marker

UpdatesSafe == PreparedIsVerified /\ InstallsWhole
=============================================================================
