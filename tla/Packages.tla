------------------------------ MODULE Packages ------------------------------
(***************************************************************************)
(* The package manager: `raytask install' from the configured repositories *)
(* into external/ (registry.rs), and the dependencies of project.rtp, kept *)
(* in .raytask/packages and filled from the local registry directories, a  *)
(* remote registry or a stub (project.rs), with publishing into the local  *)
(* registry.  Each command is a process of its own that changes the file   *)
(* system step by step; a command can fail or be killed between steps, and *)
(* commands of different processes interleave.                             *)
(*                                                                         *)
(* A version is a sequence of numbers.                                     *)
(***************************************************************************)
EXTENDS Integers, Sequences, FiniteSets, SequencesExt

CONSTANTS Procs,      \* command processes
          Versions,   \* versions a package can have
          Shelved,    \* version of the package in registry/<name>, put there
                      \* by hand, or NoVersion if there is none
          Configs,    \* rtp.repos.yml with the indexes the repositories serve
          MaxCommands \* bound: commands started

\* What a composition assumes of them.
VersionsAssumption ==
    /\ MaxCommands \in Nat /\ Versions \subseteq Seq(Nat) \ {<<>>}
    /\ Shelved \in Versions \cup {<<>>}

NoVersion == <<>>                  \* no version asked for, "*"

\* A repository: what its index lists of the package (the latest version, or all
\* of them, newest first), and the version of the one archive that it may name.
Repos == [id : Nat \ {0}, priority : Int, lists : BOOLEAN, version : Versions,
          versions : Seq(Versions), url : Versions \cup {NoVersion}]
ConfigsAssumption == Configs \subseteq Seq(Repos)

VARIABLES config,   \* the repositories
          external, \* external/<name>
          package,  \* .raytask/packages/<name>
          shelf,    \* registry/<name>-<version>
          index,    \* versions that registry/index.json lists
          proc,     \* the command each process executes
          started,  \* commands started so far
          disturbed \* directories in which two commands met, and registry/ if a
                    \* publisher failed or was killed before the index was right

packages == <<config, external, package, shelf, index, proc, started, disturbed>>

\* A directory: how much of a package is in it, of which version, and the
\* lock file.
Dir == [has : {"absent", "empty", "part", "all", "stub"},
        version : Versions \cup {NoVersion}, lock : Versions \cup {NoVersion}]
Absent == [has |-> "absent", version |-> NoVersion, lock |-> NoVersion]
Empty  == [Absent EXCEPT !.has = "empty"]
Holds(has, v) == [has |-> has, version |-> v, lock |-> NoVersion]

Idle == [cmd |-> "idle", at |-> "", want |-> NoVersion, found |-> NoVersion, served |-> NoVersion,
         seen |-> {}, ok |-> TRUE]
-----------------------------------------------------------------------------
(* Choosing a candidate (registry.rs resolve).                             *)

\* Repositories by descending priority, in the order of the file if equal.
Before(c, i, j) == \/ c[i].priority > c[j].priority
                   \/ c[i].priority = c[j].priority /\ i < j
Order(c) == CHOOSE o \in [DOMAIN c -> DOMAIN c] : \A j, k \in DOMAIN c : j < k => Before(c, o[j], o[k])
SortedRepos(c) == LET o == Order(c) IN [k \in DOMAIN c |-> c[o[k]]]

Offers(repo) == IF repo.versions = <<>> THEN <<repo.version>> ELSE repo.versions

SemverGt(a, b) ==
    LET n == IF Len(a) < Len(b) THEN Len(a) ELSE Len(b)
        differ == {i \in 1..n : a[i] # b[i]}
    IN IF differ = {} THEN Len(a) > Len(b)
       ELSE \E i \in differ : (\A j \in differ : i <= j) /\ a[i] > b[i]

NoCandidate == [version |-> NoVersion, repo |-> 0, served |-> NoVersion]
Candidate(repo, v) ==
    [version |-> v, repo |-> repo.id, served |-> IF repo.url = NoVersion THEN v ELSE repo.url]

\* What the repository makes of the best candidate so far; `down' are the
\* repositories that cannot be reached.
Consider(best, repo, want, down) ==
    LET v == IF want = NoVersion THEN Offers(repo)[1] ELSE want
        offered == want = NoVersion \/ v \in ToSet(Offers(repo))
    IN IF repo.id \in down \/ ~repo.lists \/ ~offered THEN best
       ELSE IF best = NoCandidate THEN Candidate(repo, v)
       ELSE IF want = NoVersion /\ SemverGt(v, best.version) THEN Candidate(repo, v) ELSE best

ResolveCandidate(c, want, down) ==
    LET repos == SortedRepos(c)
        best[k \in 0..Len(c)] == IF k = 0 THEN NoCandidate
                                 ELSE Consider(best[k - 1], repos[k], want, down)
    IN best[Len(c)]
-----------------------------------------------------------------------------
Step(p, r) == proc' = [proc EXCEPT ![p] = r]
At(p, cmd, pc) == proc[p].cmd = cmd /\ proc[p].at = pc
Goto(p, pc) == Step(p, [proc[p] EXCEPT !.at = pc])
End(p, ok) == Step(p, [Idle EXCEPT !.ok = ok])

Running(p) == proc[p].cmd # "idle"
Works(p, dir) == CASE dir = "external" -> proc[p].cmd \in {"install", "uninstall"}
                   [] dir = "package"  -> proc[p].cmd \in {"fetch", "remove"}
                   [] dir = "shelf"    -> proc[p].cmd = "publish"

\* A process begins a command in a directory (or completes a short one).
Begin(dir) ==
    /\ started < MaxCommands
    /\ started' = started + 1
    /\ disturbed' = IF \E q \in Procs : Works(q, dir) THEN disturbed \cup {dir} ELSE disturbed
    /\ UNCHANGED config

Still == UNCHANGED <<config, started, disturbed>>

\* remove_dir_all deletes one file after another, and fails if one cannot be
\* deleted: what is there on the way.
Remains(d) == IF d.has = "absent" THEN {}
              ELSE {[d EXCEPT !.has = IF @ = "empty" THEN @ ELSE "part", !.lock = l] :
                        l \in {d.lock, NoVersion}}
\* The process goes on with what it is doing, or gives up.
Halfway(p) == UNCHANGED proc \/ End(p, FALSE)

(* raytask install <name>[@<version>]; with --info, the user may say no.    *)
Install(p, want, down) ==
    /\ ~Running(p) /\ Begin("external")
    /\ LET c == ResolveCandidate(config, want, down)
       IN \/ End(p, FALSE)
          \/ /\ c # NoCandidate
             /\ Step(p, [Idle EXCEPT !.cmd = "install", !.at = "remove", !.want = want,
                                     !.found = c.version, !.served = c.served])
    /\ UNCHANGED <<external, package, shelf, index>>

InstallRemoveNothing(p) ==                   \* (mutant) unpacks over the old files
    /\ At(p, "install", "remove") /\ Goto(p, "create")
    /\ UNCHANGED <<external, package, shelf, index>> /\ Still
InstallRemove(p) ==
    /\ At(p, "install", "remove")
    /\ \/ external' = Absent /\ Goto(p, "create")
       \/ external' \in Remains(external) /\ Halfway(p)
    /\ UNCHANGED <<package, shelf, index>> /\ Still

InstallCreate(p) ==
    /\ At(p, "install", "create")
    /\ \/ external' = (IF external.has = "absent" THEN Empty ELSE external) /\ Goto(p, "download")
       \/ external' = external /\ End(p, FALSE)
    /\ UNCHANGED <<package, shelf, index>> /\ Still

\* Fetch the archive and unpack it: "cut" is an archive that ends early, of
\* which the complete entries are extracted; an error can come before or after
\* some of them.
Archives == {"all", "cut", "error", "errorLate"}
InstallDownload(p, archive) ==
    /\ At(p, "install", "download")
    /\ external' = CASE archive = "all" -> [external EXCEPT !.has = "all", !.version = proc[p].served]
                     [] archive \in {"cut", "errorLate"} ->
                            [external EXCEPT !.has = "part", !.version = proc[p].served]
                     [] archive = "error" -> external
    /\ IF archive \in {"all", "cut"} THEN Goto(p, "lock") ELSE End(p, FALSE)
    /\ UNCHANGED <<package, shelf, index>> /\ Still

\* The result of writing the lock file is ignored.
InstallLock(p, written) ==
    /\ At(p, "install", "lock") /\ End(p, TRUE)
    /\ written => external.has # "absent"
    /\ external' = IF written THEN [external EXCEPT !.lock = proc[p].found] ELSE external
    /\ UNCHANGED <<package, shelf, index>> /\ Still

Uninstall(p) ==
    /\ ~Running(p) /\ Begin("external")
    /\ IF external.has = "absent" THEN End(p, FALSE)
       ELSE Step(p, [Idle EXCEPT !.cmd = "uninstall", !.at = "remove"])
    /\ UNCHANGED <<external, package, shelf, index>>

UninstallRemove(p) ==
    /\ At(p, "uninstall", "remove")
    /\ \/ external' = Absent /\ End(p, TRUE)
       \/ external' \in Remains(external) /\ Halfway(p)
    /\ UNCHANGED <<package, shelf, index>> /\ Still

(* Dependencies of project.rtp: raytask update, and every build, which     *)
(* fetches what is missing.  `want' is NoVersion for a dependency without  *)
(* a version, which install_package takes literally.                       *)
Fetch(p, want) ==
    /\ ~Running(p) /\ Begin("package")
    /\ \/ package.has # "absent" /\ End(p, TRUE) /\ UNCHANGED package
       \/ package.has = "absent" /\ End(p, FALSE) /\ UNCHANGED package
       \/ /\ package.has = "absent" /\ package' = Empty
          /\ Step(p, [Idle EXCEPT !.cmd = "fetch", !.at = "search", !.want = want])
    /\ UNCHANGED <<external, shelf, index>>

\* The first registry directory that has the package; its files are copied one
\* by one.
OnShelf(v) == Shelved # NoVersion \/ (v \in Versions /\ shelf[v] # "absent")
FetchCopy(p) ==
    LET want == proc[p].want
        v    == IF Shelved # NoVersion THEN Shelved ELSE want
        has  == IF Shelved # NoVersion THEN "all" ELSE shelf[want]
    IN /\ At(p, "fetch", "search") /\ OnShelf(want)
       /\ \/ package' = Holds("part", v) /\ End(p, FALSE)        \* an I/O error
          \/ package' = Holds(has, v) /\ End(p, TRUE)
       /\ UNCHANGED <<external, shelf, index>> /\ Still

\* A remote registry, if one is set: the directory is made anew, or at least
\* removed, or something of it is.
FetchRemote(p) ==
    /\ At(p, "fetch", "search") /\ ~OnShelf(proc[p].want)
    /\ \/ Goto(p, "stub") /\ package' \in {package, Absent} \cup Remains(package)
       \/ Goto(p, "download") /\ package' = Empty
    /\ UNCHANGED <<external, shelf, index>> /\ Still

FetchDownload(p, archive, served) ==
    /\ At(p, "fetch", "download")
    /\ proc[p].want = NoVersion \/ served = proc[p].want
    /\ package' = IF archive = "error" THEN package
                  ELSE [package EXCEPT !.has = IF archive = "all" THEN "all" ELSE "part",
                                       !.version = served]
    /\ IF archive \in {"all", "cut"} THEN End(p, TRUE) ELSE Goto(p, "stub")
    /\ UNCHANGED <<external, shelf, index>> /\ Still

\* Nothing found: a package of that name that defines one function is written,
\* or some of it, into the directory that was made for the download.
FetchStub(p) ==
    /\ At(p, "fetch", "stub")
    /\ \/ End(p, FALSE) /\ package' = package
       \/ /\ package.has # "absent"
          /\ \/ End(p, FALSE) /\ package' = Holds("part", proc[p].want)
             \/ End(p, TRUE) /\ package' = Holds("stub", proc[p].want)
    /\ UNCHANGED <<external, shelf, index>> /\ Still

RemovePackage(p) ==
    /\ ~Running(p) /\ Begin("package")
    /\ IF package.has = "absent" THEN End(p, FALSE)
       ELSE Step(p, [Idle EXCEPT !.cmd = "remove", !.at = "remove"])
    /\ UNCHANGED <<external, package, shelf, index>>

RemoveFiles(p) ==
    /\ At(p, "remove", "remove")
    /\ \/ package' = Absent /\ End(p, TRUE)
       \/ package' \in Remains(package) /\ Halfway(p)
    /\ UNCHANGED <<external, shelf, index>> /\ Still

(* raytask publish into registry/.  Without a package.rtp there is nothing *)
(* to do, and with a remote registry the source is sent there: neither     *)
(* changes a file.                                                         *)
Publish(p, v) ==
    /\ ~Running(p) /\ Begin("shelf")
    /\ \/ \E ok \in BOOLEAN : End(p, ok)
       \/ Step(p, [Idle EXCEPT !.cmd = "publish", !.at = "remove", !.want = v])
    /\ UNCHANGED <<external, package, shelf, index>>

PublishRemove(p) ==
    /\ At(p, "publish", "remove")
    /\ \/ shelf' = [shelf EXCEPT ![proc[p].want] = "absent"] /\ Goto(p, "copy")
       \/ /\ shelf[proc[p].want] # "absent"
          /\ shelf' = [shelf EXCEPT ![proc[p].want] = "part"] /\ Halfway(p)
    /\ UNCHANGED <<external, package, index>> /\ Still

Unfinished == disturbed' = disturbed \cup {"shelf"}
\* File by file; not even the directory may come about.
PublishCopy(p) ==
    /\ At(p, "publish", "copy")
    /\ \/ /\ shelf' = [shelf EXCEPT ![proc[p].want] = "all"] /\ Goto(p, "read")
          /\ UNCHANGED disturbed
       \/ /\ shelf' = [shelf EXCEPT ![proc[p].want] = "part"] /\ Halfway(p)
          /\ UNCHANGED disturbed
       \/ UNCHANGED shelf /\ End(p, FALSE) /\ Unfinished
    /\ UNCHANGED <<config, started, external, package, index>>

\* index.json is read whole; one that cannot be read, or not be parsed because
\* it is being written, counts as empty.
PublishRead(p) ==
    /\ At(p, "publish", "read")
    /\ \E seen \in {index, {}} :
          /\ Step(p, [proc[p] EXCEPT !.at = "write", !.seen = seen])
          /\ IF seen = index THEN UNCHANGED disturbed ELSE Unfinished
    /\ UNCHANGED <<config, started, external, package, shelf, index>>

\* Writing starts by emptying the file.
PublishWrite(p) ==
    /\ At(p, "publish", "write")
    /\ \/ End(p, TRUE) /\ index' = proc[p].seen \cup {proc[p].want} /\ UNCHANGED disturbed
       \/ End(p, FALSE) /\ index' \in {index, {}} /\ Unfinished
    /\ UNCHANGED <<config, started, external, package, shelf>>

\* The process is killed: what it was doing stays half done.
Kill(p) ==
    /\ Running(p) /\ End(p, FALSE)
    /\ IF proc[p].cmd = "publish" THEN Unfinished ELSE UNCHANGED disturbed
    /\ IF At(p, "publish", "write") THEN index' \in {index, {}} ELSE UNCHANGED index
    /\ UNCHANGED <<config, started, external, package, shelf>>

PackagesInit ==
    /\ config \in Configs
    /\ external = Absent /\ package = Absent
    /\ shelf = [v \in Versions |-> "absent"] /\ index = {}
    /\ proc = [p \in Procs |-> Idle]
    /\ started = 0 /\ disturbed = {}

PackagesNext == \E p \in Procs :
    \/ \E v \in Versions \cup {NoVersion}, down \in SUBSET {r.id : r \in ToSet(config)} :
           Install(p, v, down)
    \/ InstallRemove(p) \/ InstallCreate(p)
    \/ \E a \in Archives : InstallDownload(p, a)
    \/ \E w \in BOOLEAN : InstallLock(p, w)
    \/ Uninstall(p) \/ UninstallRemove(p)
    \/ \E v \in Versions \cup {NoVersion} : Fetch(p, v)
    \/ FetchCopy(p) \/ FetchRemote(p)
    \/ \E a \in Archives, v \in Versions : FetchDownload(p, a, v)
    \/ FetchStub(p) \/ RemovePackage(p) \/ RemoveFiles(p)
    \/ \E v \in Versions : Publish(p, v)
    \/ PublishRemove(p) \/ PublishCopy(p) \/ PublishRead(p) \/ PublishWrite(p)
    \/ Kill(p)

PackagesSpec == PackagesInit /\ [][PackagesNext]_packages
-----------------------------------------------------------------------------
\* A command of some process is at work in the directory.
Busy(dir) == \E p \in Procs : Works(p, dir)

(* The candidate is the one the protocol document asks for (rules 1 to 4   *)
(* of "Version resolution rules"): a repository that has the version; if   *)
(* none is asked for, no reachable repository offers a newer one; and of   *)
(* those with the version the first by priority, then by declaration.      *)
ResolvedIsNewest ==
    \A want \in Versions \cup {NoVersion}, down \in SUBSET {r.id : r \in ToSet(config)} :
        LET c == ResolveCandidate(config, want, down)
            up == {i \in DOMAIN config : config[i].id \notin down /\ config[i].lists}
            head(i) == Offers(config[i])[1]
            has(i, v) == IF want = NoVersion THEN head(i) = v
                         ELSE v \in ToSet(Offers(config[i]))
            fits == {i \in up : want = NoVersion \/ has(i, want)}
        IN IF fits = {} THEN c = NoCandidate
           ELSE /\ want # NoVersion => c.version = want
                /\ want = NoVersion => \A i \in fits : ~SemverGt(head(i), c.version)
                /\ \E i \in fits :
                      /\ config[i].id = c.repo /\ has(i, c.version)
                      /\ \A j \in fits : has(j, c.version) =>
                            \/ config[i].priority > config[j].priority
                            \/ config[i].priority = config[j].priority /\ i <= j

(* A lock file tells the truth, whatever step of an installation or of a   *)
(* removal failed or was cut off, unless two commands met: what is in the  *)
(* directory is of the archive of that version, or of the one archive that *)
(* the index names whatever version is asked for, and nobody is still      *)
(* unpacking into it.                                                      *)
InstalledAsRecorded ==
    external.lock # NoVersion /\ "external" \notin disturbed =>
        /\ external.has \in {"all", "part"}
        /\ \/ external.version = external.lock
           \/ \E r \in ToSet(config) : r.url # NoVersion /\ r.url = external.version
        /\ \A p \in Procs : Works(p, "external") => proc[p].at = "remove"

(* Publishers that come one after another, though they may fail on the way *)
(* to the shelf, leave in index.json what is there: every complete package, *)
(* and nothing of which not even the directory is there.                   *)
IndexListsPublished ==
    ~Busy("shelf") /\ "shelf" \notin disturbed =>
        /\ {v \in Versions : shelf[v] = "all"} \subseteq index
        /\ index \subseteq {v \in Versions : shelf[v] # "absent"}

PackagesTellTheTruth ==
    /\ started = 0 => ResolvedIsNewest
    /\ InstalledAsRecorded
    /\ IndexListsPublished
=============================================================================
