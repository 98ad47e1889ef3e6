------------------------------ MODULE Packages ------------------------------
(***************************************************************************)
(* The commands of lib.rs that fetch something and put it on the disk: the *)
(* package manager rshPKG and download.  A request is one discord_request  *)
(* (or parse_and_download) with one of the outcomes it has in LegacyTcp.   *)
(* A file's content is "old", or the name its payload was asked for; a     *)
(* name may also be that of a directory with something in it.              *)
(***************************************************************************)
EXTENDS Naturals, Sequences, SequencesExt

CONSTANTS
    Names,      \* what packages and files are called
    Rsh,        \* those that end in .rsh
    Dirs,       \* those that are directories
    Indexes,    \* what the repository's index may list: sequences of names
    Targets     \* arguments of rpkg -up: sequences of names

ASSUME PkgAssumption ==
    /\ Rsh \subseteq Names
    /\ Indexes \subseteq Seq(Names) /\ Targets \subseteq Seq(Names)

VARIABLES
    disk,       \* AVFS: the content of every name
    job,        \* the command: [op, left, asked]
    index,      \* response_buf: the index, while -up goes through it
    payloads,   \* names for which something came, in this command
    before,     \* the disk when the command was given
    status      \* what the last command returned

pkgVars == <<disk, job, index, payloads, before, status>>

NoJob == [op |-> "none", left |-> <<>>, asked |-> <<>>]

PkgInit ==
    /\ disk \in {d \in [Names -> {"none", "old", "dir"}] :
                     \A f \in Names : (d[f] = "dir") = (f \in Dirs)}
    /\ job = NoJob /\ index = <<>> /\ payloads = {} /\ before = disk /\ status = "none"

-----------------------------------------------------------------------------
(* AVFS, as far as it is used here: the second of two creates fails with   *)
(* -1, a full disk with another code, and writing a file just created with *)
(* the size of the data does not fail.                                     *)

Removed(d, f)       == IF d[f] = "dir" THEN d ELSE [d EXCEPT ![f] = "none"]
Created(d, f, room) == IF d[f] = "none" /\ room THEN [d EXCEPT ![f] = "blank"] ELSE d
Written(d, f, of)   == IF d[f] = "blank" THEN [d EXCEPT ![f] = of]
                       ELSE d       \* not there, or a directory

\* -up and download: remove, create, write.
Replaced(f, of, room) == Written(Created(Removed(disk, f), f, room), f, of)

\* -get: only when the first create says that the file exists.
Installed(f, of, room) ==
    IF disk[f] = "none" THEN Written(Created(disk, f, room), f, of)
    ELSE Replaced(f, of, room)

-----------------------------------------------------------------------------
(* rshPKG up to its first request.                                         *)

Begin(op, left) ==
    /\ job = NoJob
    /\ job' = [op |-> op, left |-> left, asked |-> <<>>]
    /\ before' = disk /\ payloads' = {} /\ status' = "none"
    /\ UNCHANGED <<disk, index>>

rpkg_query        == Begin("query", <<>>)         \* -l, -ref, -s
rpkg_up(targets)  == Begin("up", targets)
rpkg_up_all       == Begin("index", <<>>)
rpkg_get(f)       == f \in Rsh /\ Begin("get", <<f>>)
download(f)       == Begin("download", <<f>>)

Finish(what) == job' = NoJob /\ status' = what

\* A name that is not .rsh is refused.
rpkg_get_refused(f) ==
    /\ f \notin Rsh /\ job = NoJob
    /\ before' = disk /\ payloads' = {}
    /\ Finish("fail")
    /\ UNCHANGED <<disk, index>>

\* -rem: any code but -1 (no such name) counts as success.
rpkg_rem(f) ==
    /\ job = NoJob
    /\ disk' = Removed(disk, f)
    /\ before' = disk' /\ payloads' = {}
    /\ Finish(IF disk[f] = "none" THEN "fail" ELSE "ok")
    /\ UNCHANGED index

-----------------------------------------------------------------------------
(* The answers.  came: something other than an empty body came back.       *)

rpkg_query_returns(came) ==
    /\ job.op = "query"
    /\ Finish(IF came THEN "ok" ELSE "fail")
    /\ UNCHANGED <<disk, index, payloads, before>>

\* The names are taken from response_buf one by one while the packages are
\* fetched into a buffer of their own.
rpkg_index_returns(came) ==
    /\ job.op = "index"
    /\ IF came
       THEN /\ \E s \in Indexes : index' = s /\ job' = [job EXCEPT !.op = "all", !.left = s]
            /\ UNCHANGED status
       ELSE Finish("fail") /\ UNCHANGED index
    /\ UNCHANGED <<disk, payloads, before>>

\* Mutant: the package is fetched into the buffer that holds the index.
StillListed_reused == <<>>
StillListed == Tail(job.left)

\* One package of -up: a target that does not come is passed over.
rpkg_up_returns(came, room) ==
    /\ job.op \in {"up", "all"} /\ job.left # <<>>
    /\ LET f == Head(job.left)
       IN  /\ disk' = IF came THEN Replaced(f, f, room) ELSE disk
           /\ payloads' = IF came THEN payloads \cup {f} ELSE payloads
           /\ job' = [job EXCEPT !.left = StillListed, !.asked = Append(@, f)]
    /\ UNCHANGED <<index, before, status>>

rpkg_up_ends ==
    /\ job.op \in {"up", "all"} /\ job.left = <<>>
    /\ Finish("ok")
    /\ UNCHANGED <<disk, index, payloads, before>>

rpkg_get_returns(came, room) ==
    /\ job.op = "get"
    /\ LET f == Head(job.left)
       IN  /\ disk' = IF came THEN Installed(f, f, room) ELSE disk
           /\ payloads' = IF came THEN {f} ELSE {}
    /\ Finish(IF came THEN "ok" ELSE "fail")
    /\ UNCHANGED <<index, before>>

\* The end of parse_and_download, and download_simple: here the results of
\* create and write are looked at.
download_saves(came, room) ==
    /\ job.op = "download"
    /\ LET f == Head(job.left)
       IN  /\ disk' = IF came THEN Replaced(f, f, room) ELSE disk
           /\ payloads' = IF came THEN {f} ELSE {}
           /\ Finish(IF came /\ disk'[f] = f THEN "ok" ELSE "fail")
    /\ UNCHANGED <<index, before>>

-----------------------------------------------------------------------------
PkgNext ==
    \/ rpkg_query \/ rpkg_up_all \/ rpkg_up_ends
    \/ \E t \in Targets : rpkg_up(t)
    \/ \E f \in Names : rpkg_get(f) \/ rpkg_get_refused(f) \/ rpkg_rem(f) \/ download(f)
    \/ \E came, room \in BOOLEAN :
         \/ rpkg_query_returns(came) \/ rpkg_index_returns(came)
         \/ rpkg_up_returns(came, room) \/ rpkg_get_returns(came, room)
         \/ download_saves(came, room)

PkgSpec == PkgInit /\ [][PkgNext]_pkgVars

-----------------------------------------------------------------------------
\* What a command does to the disk follows what came over the network: a name
\* for which nothing came is as it was, a file that was fetched holds what was
\* fetched under its own name, no half-made file is left, and a full upgrade
\* has asked for everything the index lists, in its order.
DiskFollowsAnswers ==
    /\ \A f \in Names : /\ disk[f] # before[f] => f \in payloads
                        /\ disk[f] \in {"none", "old", "dir", f}
    /\ job.op = "all" => job.asked \o job.left = index

\* What "successfully upgraded" and "successfully installed" say and a full
\* disk refutes.
SuccessIsSaved ==
    status = "ok" => \A f \in payloads : disk[f] = f

\* A package that was there is still there after an upgrade: refuted as well.
UpgradeKeepsFile ==
    \A f \in payloads : before[f] # "none" => disk[f] # "none"
=============================================================================
