------------------------------- MODULE NetProofs -------------------------------
(***************************************************************************)
(* Theorems of the programs on top of the network: the package manager,    *)
(* the handle tables, the Discord client and the clients that poll the     *)
(* card, for every set of names and addresses, every size of table and     *)
(* buffer, and any traffic.                                                *)
(***************************************************************************)
EXTENDS WebClients, Packages, Discord, LegacyTcp, WellFoundedInduction, SequenceTheorems, TLAPS

-----------------------------------------------------------------------------
(* The package manager.                                                    *)

\* The command's own state: what is still to be fetched are names, one for
\* the commands that fetch one, and nothing is asked before the index came.
PkgOps == {"none", "query", "index", "get", "download", "up", "all"}

JobOK(j, came, listed) ==
    /\ j \in [op : PkgOps, left : Seq(Names), asked : Seq(Names)]
    /\ j.op \in {"get", "download"} => j.left # <<>> /\ came = {}
    /\ j.op = "index" => j.asked = <<>>
    /\ j.op = "all" => j.asked \o j.left = listed

PkgJob == JobOK(job, payloads, index)

DiskInv ==
    /\ disk \in [Names -> {"none", "old", "dir"} \cup Names]
    /\ \A f \in Names : /\ disk[f] # before[f] => f \in payloads
                        /\ disk[f] \in {"none", "old", "dir", f}

PkgInv == PkgJob /\ DiskInv

\* Fetching a package again leaves nothing half made.
LEMMA ReplacedIs ==
    ASSUME NEW f \in Names, NEW room \in BOOLEAN, DiskInv
    PROVE  /\ Replaced(f, f, room) \in [Names -> {"none", "old", "dir"} \cup Names]
           /\ \A g \in Names : g # f => Replaced(f, f, room)[g] = disk[g]
           /\ Replaced(f, f, room)[f] \in {"none", "dir", f}
<1>. DEFINE d == Removed(disk, f)  e == Created(d, f, room)
<1>1. /\ d \in [Names -> {"none", "old", "dir"} \cup Names]
      /\ \A g \in Names : g # f => d[g] = disk[g]
      /\ d[f] \in {"none", "dir"}
  BY DEF DiskInv, Removed
<1>2. /\ e \in [Names -> {"none", "old", "dir", "blank"} \cup Names]
      /\ \A g \in Names : g # f => e[g] = disk[g]
      /\ e[f] \in {"none", "dir", "blank"}
  <2>. HIDE DEF d
  <2>. QED  BY <1>1 DEF Created
<1>3. Replaced(f, f, room) = Written(e, f, f)
  BY DEF Replaced
<1>. HIDE DEF d, e
<1>4. CASE e[f] = "blank"
  <2>1. Written(e, f, f) = [e EXCEPT ![f] = f]
    BY <1>4 DEF Written
  <2>. QED  BY <1>2, <1>3, <2>1 DEF DiskInv
<1>5. CASE e[f] # "blank"
  <2>1. Written(e, f, f) = e
    BY <1>5 DEF Written
  <2>. QED  BY <1>2, <1>3, <1>5, <2>1 DEF DiskInv
<1>. QED  BY <1>4, <1>5

\* Installing one leaves the same: either way only the file named changes.
LEMMA InstalledIs ==
    ASSUME NEW f \in Names, NEW room \in BOOLEAN, DiskInv
    PROVE  /\ Installed(f, f, room) \in [Names -> {"none", "old", "dir"} \cup Names]
           /\ \A g \in Names : g # f => Installed(f, f, room)[g] = disk[g]
           /\ Installed(f, f, room)[f] \in {"none", "dir", f}
<1>1. CASE disk[f] = "none"
  <2>1. Removed(disk, f) = disk
    BY <1>1 DEF Removed, DiskInv
  <2>2. Installed(f, f, room) = Replaced(f, f, room)
    BY <1>1, <2>1 DEF Installed, Replaced
  <2>. QED  BY <2>2, ReplacedIs
<1>2. CASE disk[f] # "none"
  <2>1. Installed(f, f, room) = Replaced(f, f, room)
    BY <1>2 DEF Installed
  <2>. QED  BY <2>1, ReplacedIs
<1>. QED  BY <1>1, <1>2

\* The disk after a step that stores at most the file f, for which something
\* came.
LEMMA DiskStep ==
    ASSUME DiskInv, NEW f \in Names, NEW new,
           new \in [Names -> {"none", "old", "dir"} \cup Names],
           \A g \in Names : g # f => new[g] = disk[g],
           new[f] \in {"none", "dir", f},
           disk' = new, before' = before, payloads' = payloads \cup {f}
    PROVE  DiskInv'
BY DEF DiskInv

LEMMA DiskKept ==
    ASSUME DiskInv, UNCHANGED <<disk, before, payloads>>
    PROVE  DiskInv'
BY DEF DiskInv

LEMMA NewJob ==
    ASSUME NEW op \in PkgOps, NEW left \in Seq(Names), NEW came, NEW listed,
           op \in {"get", "download"} => left # <<>> /\ came = {},
           op = "all" => left = listed
    PROVE  JobOK([op |-> op, left |-> left, asked |-> <<>>], came, listed)
<1>. DEFINE j == [op |-> op, left |-> left, asked |-> <<>>]
<1>1. <<>> \in Seq(Names) /\ <<>> \o left = left
  OBVIOUS
<1>2. j.op = op /\ j.left = left /\ j.asked = <<>>
  OBVIOUS
<1>3. j \in [op : PkgOps, left : Seq(Names), asked : Seq(Names)]
  BY <1>1
<1>. HIDE DEF j
<1>4. JobOK(j, came, listed)
  BY <1>1, <1>2, <1>3 DEF JobOK
<1>. QED  BY <1>4 DEF j

LEMMA NoJobIsJob == \A came, listed : JobOK(NoJob, came, listed)
<1>1. <<>> \in Seq(Names)
  OBVIOUS
<1>. DEFINE o == "none"
<1>2. o \in PkgOps /\ o \notin {"get", "download"} /\ o # "all"
  BY DEF PkgOps
<1>3. NoJob = [op |-> o, left |-> <<>>, asked |-> <<>>]
  BY DEF NoJob
<1>. HIDE DEF o
<1>. QED  BY <1>1, <1>2, <1>3, NewJob

\* What has been asked for and what is left, when the next one is asked for.
LEMMA AskedNext ==
    ASSUME NEW T, NEW a \in Seq(T), NEW l \in Seq(T), l # <<>>
    PROVE  /\ Tail(l) \in Seq(T) /\ Append(a, Head(l)) \in Seq(T)
           /\ Append(a, Head(l)) \o Tail(l) = a \o l
<1>1. Tail(l) \in Seq(T) /\ Append(a, Head(l)) \in Seq(T) /\ Len(l) \in Nat \ {0}
  OBVIOUS
<1>. DEFINE d == Append(a, Head(l)) \o Tail(l)  c == a \o l
<1>2. d \in Seq(T) /\ c \in Seq(T)
  BY <1>1
<1>3. Len(d) = Len(a) + Len(l) /\ Len(c) = Len(a) + Len(l)
  BY <1>1
<1>4. ASSUME NEW i \in 1 .. Len(c) PROVE d[i] = c[i]
  <2>1. CASE i <= Len(a)
    BY <1>1, <1>3, <2>1
  <2>2. CASE i = Len(a) + 1
    BY <1>1, <1>3, <2>2
  <2>3. CASE i > Len(a) + 1
    BY <1>1, <1>3, <2>3
  <2>. QED  BY <1>3, <2>1, <2>2, <2>3
<1>. HIDE DEF d, c
<1>5. d = c
  BY <1>2, <1>3, <1>4, SeqEqual
<1>. QED  BY <1>1, <1>5 DEF d, c

LEMMA PkgInitInv == PkgInit => PkgInv
<1>. SUFFICES ASSUME PkgInit PROVE PkgInv
  OBVIOUS
<1>1. disk \in [Names -> {"none", "old", "dir"}] /\ before = disk /\ payloads = {}
  BY DEF PkgInit
<1>2. DiskInv
  BY <1>1 DEF DiskInv
<1>. QED  BY <1>2, NoJobIsJob DEF PkgInit, PkgInv, PkgJob

LEMMA PkgStep == PkgInv /\ [PkgNext]_pkgVars => PkgInv'
<1>. SUFFICES ASSUME PkgInv, [PkgNext]_pkgVars PROVE PkgInv'
  OBVIOUS
<1>. USE PkgAssumption
<1>0. PkgJob /\ DiskInv
  BY DEF PkgInv
<1>f. ASSUME NEW what, Finish(what) PROVE PkgJob'
  BY <1>f, NoJobIsJob DEF Finish, PkgJob
<1>1. ASSUME NEW op \in {"query", "up", "index", "get", "download"}, NEW left \in Seq(Names),
             op \in {"get", "download"} => left # <<>>, Begin(op, left)
      PROVE  PkgInv'
  <2>1. /\ job' = [op |-> op, left |-> left, asked |-> <<>>] /\ payloads' = {}
      /\ disk' = disk /\ before' = disk
    BY <1>1 DEF Begin
  <2>2. PkgJob'
    <3>1. op \in PkgOps /\ op # "all"
      BY <1>1 DEF PkgOps
    <3>2. JobOK([op |-> op, left |-> left, asked |-> <<>>], payloads', index')
      BY <1>1, <2>1, <3>1, NewJob
    <3>. QED  BY <2>1, <3>2 DEF PkgJob
  <2>3. DiskInv'
    BY <1>0, <2>1 DEF DiskInv
  <2>. QED  BY <2>2, <2>3 DEF PkgInv
<1>2. CASE rpkg_query \/ rpkg_up_all \/ \E t \in Targets : rpkg_up(t)
  <2>1. <<>> \in Seq(Names)
    OBVIOUS
  <2>2. ASSUME NEW t \in Targets, rpkg_up(t) PROVE PkgInv'
    BY <1>1, <2>2 DEF rpkg_up
  <2>3. CASE rpkg_query
    BY <1>1, <2>1, <2>3 DEF rpkg_query
  <2>4. CASE rpkg_up_all
    BY <1>1, <2>1, <2>4 DEF rpkg_up_all
  <2>. QED  BY <1>2, <2>2, <2>3, <2>4
<1>3. ASSUME NEW f \in Names, rpkg_get(f) \/ download(f)
      PROVE  PkgInv'
  <2>1. <<f>> \in Seq(Names) /\ <<f>> # <<>>
    OBVIOUS
  <2>. QED  BY <1>1, <1>3, <2>1 DEF rpkg_get, download
<1>4. ASSUME NEW f \in Names, rpkg_get_refused(f)
      PROVE  PkgInv'
  <2>1. DiskInv'
    BY <1>0, <1>4 DEF rpkg_get_refused, DiskInv
  <2>. QED  BY <1>4, <1>f, <2>1 DEF rpkg_get_refused, PkgInv
<1>5. ASSUME NEW f \in Names, rpkg_rem(f)
      PROVE  PkgInv'
  <2>1. DiskInv'
    BY <1>0, <1>5 DEF rpkg_rem, Removed, DiskInv
  <2>2. \E what : Finish(what)
    BY <1>5 DEF rpkg_rem
  <2>. QED  BY <1>f, <2>1, <2>2 DEF PkgInv
<1>6. ASSUME NEW came \in BOOLEAN, rpkg_query_returns(came)
      PROVE  PkgInv'
  <2>1. DiskInv'
    BY <1>0, <1>6, DiskKept DEF rpkg_query_returns
  <2>2. \E what : Finish(what)
    BY <1>6 DEF rpkg_query_returns
  <2>. QED  BY <1>f, <2>1, <2>2 DEF PkgInv
<1>7. ASSUME NEW came \in BOOLEAN, rpkg_index_returns(came)
      PROVE  PkgInv'
  <2>1. DiskInv'
    BY <1>0, <1>7, DiskKept DEF rpkg_index_returns
  <2>2. CASE came
    <3>1. PICK s \in Indexes : index' = s /\ job' = [job EXCEPT !.op = "all", !.left = s]
      BY <1>7, <2>2 DEF rpkg_index_returns
    <3>2. s \in Seq(Names) /\ job.asked = <<>>
      BY <1>0, <1>7 DEF rpkg_index_returns, PkgJob, JobOK
    <3>3. job' = [op |-> "all", left |-> s, asked |-> <<>>]
      BY <1>0, <3>1, <3>2 DEF PkgJob, JobOK
    <3>. DEFINE o == "all"
    <3>4. o \in PkgOps /\ o \notin {"get", "download"}
      BY DEF PkgOps
    <3>5. job' = [op |-> o, left |-> s, asked |-> <<>>] /\ index' = s
      BY <3>1, <3>3
    <3>. HIDE DEF o
    <3>6. JobOK([op |-> o, left |-> s, asked |-> <<>>], payloads', index')
      BY <3>2, <3>4, <3>5, NewJob
    <3>. QED  BY <2>1, <3>5, <3>6 DEF PkgInv, PkgJob
  <2>3. CASE ~came
    BY <1>7, <1>f, <2>1, <2>3 DEF rpkg_index_returns, PkgInv
  <2>. QED  BY <2>2, <2>3
<1>8. ASSUME NEW came \in BOOLEAN, NEW room \in BOOLEAN, rpkg_up_returns(came, room)
      PROVE  PkgInv'
  <2>. DEFINE f == Head(job.left)
  <2>1. f \in Names /\ job.left \in Seq(Names) /\ job.left # <<>> /\ job.asked \in Seq(Names)
    BY <1>0, <1>8 DEF rpkg_up_returns, PkgJob, JobOK
  <2>2. DiskInv'
    <3>1. CASE came
      <4>1. disk' = Replaced(f, f, room) /\ payloads' = payloads \cup {f} /\ before' = before
        BY <1>8, <3>1 DEF rpkg_up_returns
      <4>2. PICK room_ \in BOOLEAN : disk' = Replaced(f, f, room_)
        BY <4>1
      <4>. HIDE DEF f
      <4>. QED  BY <1>0, <2>1, <4>1, <4>2, ReplacedIs, DiskStep
    <3>2. CASE ~came
      BY <1>0, <1>8, <3>2, DiskKept DEF rpkg_up_returns
    <3>. QED  BY <3>1, <3>2
  <2>3. job' = [job EXCEPT !.left = Tail(job.left), !.asked = Append(job.asked, f)]
    BY <1>8 DEF rpkg_up_returns, StillListed
  <2>4. /\ Tail(job.left) \in Seq(Names) /\ Append(job.asked, f) \in Seq(Names)
        /\ Append(job.asked, f) \o Tail(job.left) = job.asked \o job.left
    BY <2>1, AskedNext
  <2>5. index' = index /\ job.op \in {"up", "all"}
    BY <1>8 DEF rpkg_up_returns
  <2>6. PkgJob'
    <3>. DEFINE t == Tail(job.left)  a == Append(job.asked, f)
    <3>1. job' = [op |-> job.op, left |-> t, asked |-> a]
      BY <1>0, <2>3 DEF PkgJob, JobOK
    <3>2. job.op \in PkgOps /\ (job.op = "all" => job.asked \o job.left = index)
      BY <1>0 DEF PkgJob, JobOK
    <3>3. t \in Seq(Names) /\ a \in Seq(Names) /\ a \o t = job.asked \o job.left
      BY <2>4
    <3>. HIDE DEF t, a
    <3>4. JobOK([op |-> job.op, left |-> t, asked |-> a], payloads', index)
      BY <2>5, <3>2, <3>3 DEF JobOK
    <3>. QED  BY <2>5, <3>1, <3>4 DEF PkgJob
  <2>. QED  BY <2>2, <2>6 DEF PkgInv
<1>9. CASE rpkg_up_ends
  <2>1. DiskInv'
    BY <1>0, <1>9, DiskKept DEF rpkg_up_ends
  <2>. QED  BY <1>9, <1>f, <2>1 DEF rpkg_up_ends, PkgInv
<1>10. ASSUME NEW came \in BOOLEAN, NEW room \in BOOLEAN,
              rpkg_get_returns(came, room) \/ download_saves(came, room)
       PROVE  PkgInv'
  <2>. DEFINE f == Head(job.left)
  <2>1. f \in Names /\ payloads = {}
    BY <1>0, <1>10 DEF rpkg_get_returns, download_saves, PkgJob, JobOK, NoJob
  <2>2. PICK what : Finish(what)
    BY <1>10 DEF rpkg_get_returns, download_saves
  <2>3. DiskInv'
    <3>1. before' = before /\ f = Head(job.left)
      BY <1>10 DEF rpkg_get_returns, download_saves
    <3>2. CASE came
      <4>1. /\ payloads' = {f}
            /\ disk' = Installed(f, f, room) \/ disk' = Replaced(f, f, room)
        BY <1>10, <3>2 DEF rpkg_get_returns, download_saves
      <4>. HIDE DEF f
      <4>2. payloads' = payloads \cup {f}
        BY <2>1, <4>1
      <4>3. CASE disk' = Installed(f, f, room)
        BY ONLY <1>0, <1>10, <2>1, <3>1, <4>2, <4>3, InstalledIs, DiskStep
      <4>4. CASE disk' = Replaced(f, f, room)
        BY ONLY <1>0, <1>10, <2>1, <3>1, <4>2, <4>4, ReplacedIs, DiskStep
      <4>. QED  BY <4>1, <4>3, <4>4
    <3>3. CASE ~came
      <4>1. disk' = disk /\ payloads' = payloads
        BY <1>10, <2>1, <3>3 DEF rpkg_get_returns, download_saves
      <4>. QED  BY <1>0, <3>1, <4>1, DiskKept
    <3>. QED  BY <3>2, <3>3
  <2>. QED  BY <1>f, <2>2, <2>3 DEF PkgInv
<1>11. CASE UNCHANGED pkgVars
  <2>1. DiskInv'
    BY <1>0, <1>11, DiskKept DEF pkgVars
  <2>. QED  BY <1>0, <1>11, <2>1 DEF pkgVars, PkgInv, PkgJob
<1>. QED
  BY <1>2, <1>3, <1>4, <1>5, <1>6, <1>7, <1>8, <1>9, <1>10, <1>11 DEF PkgNext

\* What the package manager and download leave on the disk follows what came:
\* a name nothing came for is as it was, a file fetched holds what was fetched
\* under its own name or is gone, and an upgrade of everything goes through the
\* index in its order (rshPKG, parse_and_download).
THEOREM DiskFollows == PkgSpec => []DiskFollowsAnswers
<1>1. PkgInv => DiskFollowsAnswers
  BY DEF PkgInv, PkgJob, JobOK, DiskInv, DiskFollowsAnswers
<1>. QED  BY <1>1, PkgInitInv, PkgStep, PTL DEF PkgSpec

-----------------------------------------------------------------------------
(* The handle tables.                                                      *)

\* A slot is in use while the call holds it and for the call's own address.
HandleInv ==
    /\ req = [i \in Slot |-> req[i]] /\ resp = [i \in Slot |-> resp[i]]
    /\ call = [app |-> call.app, stage |-> call.stage, h |-> call.h, url |-> call.url,
               record |-> call.record, left |-> call.left]
    /\ call.h \in 0 .. Handles
    /\ call.stage \in {"made", "answered"} => call.url # NoUrl
    /\ \A i \in Slot : req[i] # Free <=> (call.stage = "made" /\ i = call.h)
    /\ \A i \in Slot : resp[i] # Free <=> (call.stage = "answered" /\ i = call.h)
    /\ call.h # 0 /\ call.stage = "made" => req[call.h].of = call.url
    /\ call.h # 0 /\ call.stage = "answered" => resp[call.h].of = call.url

\* What back leads to is an address: the history has no gap.
HistoryInv ==
    /\ history = [i \in 1 .. MAX_HISTORY |-> history[i]]
    /\ pos \in 0 .. MAX_HISTORY
    /\ \A i \in 1 .. pos : history[i] # NoUrl

WebInv == HandleInv /\ HistoryInv

LEMMA FirstFreeIs ==
    ASSUME NEW t
    PROVE  /\ FirstFree(t) \in 0 .. Handles
           /\ FirstFree(t) # 0 => FirstFree(t) \in Slot /\ t[FirstFree(t)] = Free
<1>. Handles \in Nat
  BY WebAssumption
<1>1. CASE ~\E i \in Slot : t[i] = Free
  BY <1>1 DEF FirstFree
<1>2. CASE \E i \in Slot : t[i] = Free
  <2>. DEFINE T == {i \in Slot : t[i] = Free}
  <2>1. T \subseteq Nat /\ T # {}
    BY <1>2 DEF Slot
  <2>2. PICK x \in T : \A y \in T : ~(<<y, x>> \in OpToRel(<, Nat))
    <3>. HIDE DEF T
    <3>. QED  BY <2>1, NatLessThanWellFounded, WFMin, Zenon
  <2>3. x \in Slot /\ t[x] = Free /\ \A y \in T : ~(y < x)
    BY <2>1, <2>2 DEF OpToRel
  <2>4. \A j \in 1 .. x - 1 : t[j] # Free
    <3>. SUFFICES ASSUME NEW j \in 1 .. x - 1, t[j] = Free PROVE FALSE
      OBVIOUS
    <3>1. j \in Slot /\ j < x
      BY <2>3 DEF Slot
    <3>. QED  BY <2>3, <3>1
  <2>5. FirstFree(t) \in Slot /\ t[FirstFree(t)] = Free
    <3>. HIDE DEF Free, Slot
    <3>. QED  BY <1>2, <2>3, <2>4 DEF FirstFree
  <2>. QED  BY <2>5 DEF Slot
<1>. QED  BY <1>1, <1>2

\* No address that a request is made for is the mark of a free slot.
LEMMA RealUrls ==
    /\ \A u \in Typed : u # NoUrl
    /\ \A link : Resolved(link) # NoUrl
    /\ DeviceUrl # NoUrl
    /\ [scheme |-> "http", host |-> "example", path |-> "/"] # NoUrl
<1>1. \A s, h, p : s # "none" => [scheme |-> s, host |-> h, path |-> p] # NoUrl
  <2>. SUFFICES ASSUME NEW s, NEW h, NEW p, s # "none",
                       [scheme |-> s, host |-> h, path |-> p] = NoUrl
                PROVE  FALSE
    OBVIOUS
  <2>1. [scheme |-> s, host |-> h, path |-> p].scheme = NoUrl.scheme
    OBVIOUS
  <2>. QED  BY <2>1 DEF NoUrl
<1>2. \A link : Resolved(link) # NoUrl
  BY <1>1 DEF Resolved
<1>3. DeviceUrl # NoUrl /\ [scheme |-> "http", host |-> "example", path |-> "/"] # NoUrl
  BY <1>1 DEF DeviceUrl
<1>. QED  BY <1>2, <1>3, WebAssumption

LEMMA RequestMakes ==
    ASSUME HandleInv, call.stage \notin {"made", "answered"},
           NEW app, NEW url, NEW record, NEW left, url # NoUrl,
           http_request(app, url, record, left)
    PROVE  HandleInv'
<1>. DEFINE h == FirstFree(req)
<1>1. /\ call' = [app |-> app, stage |-> "made", h |-> h, url |-> url,
                   record |-> record, left |-> left]
      /\ req' = IF h = 0 THEN req ELSE [req EXCEPT ![h] = [of |-> url]]
      /\ resp' = resp
  BY DEF http_request
<1>2. h \in 0 .. Handles /\ (h # 0 => h \in Slot)
  BY FirstFreeIs
<1>3. /\ \A i \in Slot : req[i] = Free /\ resp[i] = Free
      /\ req = [i \in Slot |-> req[i]] /\ resp = [i \in Slot |-> resp[i]]
  BY DEF HandleInv
<1>4. Handles \in Nat /\ 0 \notin Slot
  BY WebAssumption DEF Slot
<1>5. [of |-> url] # Free /\ [of |-> url].of = url
  BY DEF Free
<1>. HIDE DEF h
<1>6. /\ call'.stage = "made" /\ call'.h = h /\ call'.url = url
      /\ call' = [app |-> call'.app, stage |-> call'.stage, h |-> call'.h, url |-> call'.url,
                  record |-> call'.record, left |-> call'.left]
  BY <1>1
<1>7. /\ req' = [i \in Slot |-> req'[i]] /\ resp' = [i \in Slot |-> resp'[i]]
      /\ \A i \in Slot : req'[i] = IF i = h THEN [of |-> url] ELSE Free
      /\ \A i \in Slot : resp'[i] = Free
  BY <1>1, <1>2, <1>3, <1>4
<1>. HIDE DEF Free
<1>. QED  BY <1>2, <1>4, <1>5, <1>6, <1>7 DEF HandleInv

LEMMA GoAnswers == ASSUME HandleInv, http_go PROVE HandleInv'
<1>. DEFINE g == FirstFree(resp)
            free == IF call.h = 0 THEN req ELSE [req EXCEPT ![call.h] = Free]
<1>1. /\ call.stage = "made" /\ req' = free
      /\ \/ call' = [call EXCEPT !.stage = "answered", !.h = 0] /\ resp' = resp
         \/ \E a \in Answers :
              /\ call.h # 0 /\ g # 0
              /\ resp' = [resp EXCEPT ![g] = http_parse_response(req[call.h].of, a)]
              /\ call' = [call EXCEPT !.stage = "answered", !.h = g]
  BY DEF http_go, NoAnswer
<1>2. g \in 0 .. Handles /\ (g # 0 => g \in Slot)
  BY FirstFreeIs
<1>3. /\ \A i \in Slot : (req[i] # Free <=> i = call.h) /\ resp[i] = Free
      /\ req = [i \in Slot |-> req[i]] /\ resp = [i \in Slot |-> resp[i]]
      /\ call.url # NoUrl /\ (call.h # 0 => req[call.h].of = call.url)
      /\ call = [app |-> call.app, stage |-> call.stage, h |-> call.h, url |-> call.url,
                 record |-> call.record, left |-> call.left]
      /\ call.h \in 0 .. Handles
  BY <1>1 DEF HandleInv
<1>4. Handles \in Nat /\ 0 \notin Slot /\ \A i \in 1 .. Handles : i \in Slot
  BY WebAssumption DEF Slot
<1>5. req' = [i \in Slot |-> req'[i]] /\ \A i \in Slot : req'[i] = Free
  <2>. HIDE DEF Free
  <2>1. req' = [i \in Slot |-> free[i]]
    BY <1>1, <1>3
  <2>2. ASSUME NEW i \in Slot PROVE free[i] = Free
    <3>1. CASE i = call.h
      <4>1. call.h # 0
        BY <1>4, <3>1
      <4>. QED  BY <1>3, <3>1, <4>1
    <3>2. CASE i # call.h
      BY <1>3, <3>2
    <3>. QED  BY <3>1, <3>2
  <2>. HIDE DEF free
  <2>. QED  BY <2>1, <2>2
<1>6. CASE call' = [call EXCEPT !.stage = "answered", !.h = 0] /\ resp' = resp
  <2>1. call' = [app |-> call.app, stage |-> "answered", h |-> 0, url |-> call.url,
                 record |-> call.record, left |-> call.left]
    BY <1>3, <1>6
  <2>2. /\ call'.stage = "answered" /\ call'.h = 0 /\ call'.url = call.url
        /\ call' = [app |-> call'.app, stage |-> call'.stage, h |-> call'.h, url |-> call'.url,
                    record |-> call'.record, left |-> call'.left]
    BY <2>1
  <2>. HIDE DEF Free
  <2>. QED  BY <1>3, <1>4, <1>5, <1>6, <2>2 DEF HandleInv
<1>7. ASSUME NEW a \in Answers, call.h # 0, g # 0,
             resp' = [resp EXCEPT ![g] = http_parse_response(req[call.h].of, a)],
             call' = [call EXCEPT !.stage = "answered", !.h = g]
      PROVE  HandleInv'
  <2>. DEFINE r == http_parse_response(req[call.h].of, a)
  <2>1. call' = [app |-> call.app, stage |-> "answered", h |-> g, url |-> call.url,
                 record |-> call.record, left |-> call.left]
    BY <1>3, <1>7
  <2>2. /\ call'.stage = "answered" /\ call'.h = g /\ call'.url = call.url
        /\ call' = [app |-> call'.app, stage |-> call'.stage, h |-> call'.h, url |-> call'.url,
                    record |-> call'.record, left |-> call'.left]
    BY <2>1
  <2>3. r.of = call.url /\ r # Free
    BY <1>3, <1>7 DEF http_parse_response, Free
  <2>. HIDE DEF r, Free, g
  <2>4. /\ resp' = [i \in Slot |-> resp'[i]]
        /\ \A i \in Slot : resp'[i] = IF i = g THEN r ELSE Free
    BY <1>2, <1>3, <1>7 DEF r
  <2>5. resp'[g].of = call.url
    BY <1>2, <1>7, <2>3, <2>4
  <2>. QED  BY <1>2, <1>3, <1>4, <1>5, <1>7, <2>2, <2>3, <2>4, <2>5 DEF HandleInv
<1>. QED  BY <1>1, <1>6, <1>7

LEMMA ReleaseKeeps ==
    ASSUME HandleInv, call.stage = "answered", resp' = Released, req' = req,
           call' \in {Idle, [call EXCEPT !.stage = "again"]}
    PROVE  HandleInv'
<1>1. /\ \A i \in Slot : (resp[i] # Free <=> i = call.h) /\ req[i] = Free
      /\ req = [i \in Slot |-> req[i]] /\ resp = [i \in Slot |-> resp[i]]
      /\ call = [app |-> call.app, stage |-> call.stage, h |-> call.h, url |-> call.url,
                 record |-> call.record, left |-> call.left]
      /\ call.h \in 0 .. Handles
  BY DEF HandleInv
<1>2. Handles \in Nat /\ 0 \notin Slot /\ \A i \in 1 .. Handles : i \in Slot
  BY WebAssumption DEF Slot
<1>3. resp' = [i \in Slot |-> resp'[i]] /\ \A i \in Slot : resp'[i] = Free
  <2>. HIDE DEF Free
  <2>. QED  BY <1>1, <1>2 DEF Released
<1>4. /\ call'.stage \notin {"made", "answered"} /\ call'.h \in 0 .. Handles
      /\ call' = [app |-> call'.app, stage |-> call'.stage, h |-> call'.h, url |-> call'.url,
                  record |-> call'.record, left |-> call'.left]
  <2>1. CASE call' = Idle
    BY <1>2, <2>1 DEF Idle
  <2>2. CASE call' = [call EXCEPT !.stage = "again"]
    <3>1. call' = [app |-> call.app, stage |-> "again", h |-> call.h, url |-> call.url,
                   record |-> call.record, left |-> call.left]
      BY <1>1, <2>2
    <3>. QED  BY <1>1, <3>1
  <2>. QED  BY <2>1, <2>2
<1>. HIDE DEF Free
<1>. QED  BY <1>1, <1>3, <1>4 DEF HandleInv

\* Steps that leave both tables alone, between two uses of them.
LEMMA TablesAlone ==
    ASSUME HandleInv, call.stage \notin {"made", "answered"}, UNCHANGED <<req, resp>>,
           NEW app, NEW stage, NEW url, stage \notin {"made", "answered"},
           call' = [app |-> app, stage |-> stage, h |-> 0, url |-> url,
                    record |-> FALSE, left |-> 0]
    PROVE  HandleInv'
<1>1. /\ call'.stage = stage /\ call'.h \in 0 .. Handles
      /\ call' = [app |-> call'.app, stage |-> call'.stage, h |-> call'.h, url |-> call'.url,
                  record |-> call'.record, left |-> call'.left]
  BY WebAssumption
<1>. HIDE DEF Free
<1>. QED  BY <1>1 DEF HandleInv

LEMMA HandlesAlone ==
    ASSUME HandleInv, UNCHANGED <<req, resp, call>>
    PROVE  HandleInv'
<1>. HIDE DEF Free
<1>. QED  BY DEF HandleInv

LEMMA IdleStage == /\ Idle.stage \notin {"made", "answered"} /\ Idle.stage = "idle"
BY DEF Idle

LEMMA PushKeeps ==
    ASSUME HistoryInv, NEW url, url # NoUrl, rbr_history_push(url)
    PROVE  HistoryInv'
<1>1. MAX_HISTORY \in Nat /\ pos \in 0 .. MAX_HISTORY
  BY WebAssumption DEF HistoryInv
<1>2. CASE pos < MAX_HISTORY
  <2>1. history' = [history EXCEPT ![pos + 1] = url] /\ pos' = pos + 1
    BY <1>2 DEF rbr_history_push
  <2>2. \A i \in 1 .. MAX_HISTORY : history'[i] = IF i = pos + 1 THEN url ELSE history[i]
    BY <1>1, <2>1 DEF HistoryInv
  <2>3. history' = [i \in 1 .. MAX_HISTORY |-> history'[i]]
    BY <1>1, <2>1 DEF HistoryInv
  <2>4. \A i \in 1 .. pos : history[i] # NoUrl
    BY DEF HistoryInv
  <2>. HIDE DEF NoUrl
  <2>5. ASSUME NEW i \in 1 .. pos + 1 PROVE history'[i] # NoUrl
    BY <1>1, <1>2, <2>2, <2>4, <2>5
  <2>. QED  BY <1>1, <1>2, <2>1, <2>3, <2>5 DEF HistoryInv
<1>3. CASE ~(pos < MAX_HISTORY)
  <2>1. /\ pos' = pos
        /\ history' = [i \in 1 .. MAX_HISTORY |->
                         IF i = MAX_HISTORY THEN url ELSE history[i + 1]]
    BY <1>3 DEF rbr_history_push
  <2>2. history' = [i \in 1 .. MAX_HISTORY |-> history'[i]]
    BY <2>1
  <2>3. \A i \in 1 .. MAX_HISTORY : history[i] # NoUrl
    BY <1>1, <1>3 DEF HistoryInv
  <2>. HIDE DEF NoUrl
  <2>4. ASSUME NEW i \in 1 .. MAX_HISTORY PROVE history'[i] # NoUrl
    BY <1>1, <2>1, <2>3
  <2>. QED  BY <1>1, <1>3, <2>1, <2>2, <2>4 DEF HistoryInv
<1>. QED  BY <1>2, <1>3

LEMMA HistoryAlone ==
    ASSUME HistoryInv, UNCHANGED <<history, pos>>
    PROVE  HistoryInv'
BY DEF HistoryInv

LEMMA WebInitInv == WebInit => WebInv
<1>. SUFFICES ASSUME WebInit PROVE WebInv
  OBVIOUS
<1>1. /\ req = [i \in Slot |-> req[i]] /\ resp = [i \in Slot |-> resp[i]]
      /\ \A i \in Slot : req[i] = Free /\ resp[i] = Free
  <2>. HIDE DEF Free
  <2>. QED  BY DEF WebInit
<1>2. /\ call.stage = "idle" /\ call.h \in 0 .. Handles
      /\ call = [app |-> call.app, stage |-> call.stage, h |-> call.h, url |-> call.url,
                 record |-> call.record, left |-> call.left]
  BY WebAssumption DEF WebInit, Idle
<1>3. HandleInv
  <2>. HIDE DEF Free
  <2>. QED  BY <1>1, <1>2 DEF HandleInv
<1>4. HistoryInv
  <2>. HIDE DEF NoUrl
  <2>. QED  BY WebAssumption DEF WebInit, HistoryInv
<1>. QED  BY <1>3, <1>4 DEF WebInv

LEMMA RbrStep == ASSUME WebInv, RbrNext PROVE WebInv'
<1>. USE DEF WebInv
<1>1. CASE http_go
  BY <1>1, GoAnswers, HistoryAlone DEF http_go
<1>2. ASSUME NEW u \in Typed, rbr_open(u) PROVE WebInv'
  <2>1. u # NoUrl
    BY RealUrls
  <2>. QED  BY <1>2, <2>1, RequestMakes, HistoryAlone, IdleStage DEF rbr_open, rbr_open_internal
<1>3. ASSUME NEW i \in DOMAIN rbr.links, rbr_follow(i) PROVE WebInv'
  <2>1. Resolved(rbr.links[i]) # NoUrl
    BY RealUrls
  <2>2. \A u \in Typed : u # NoUrl
    BY RealUrls
  <2>3. PICK u : u # NoUrl /\ rbr_open_internal(u, TRUE)
    BY <1>3, <2>1, <2>2 DEF rbr_follow
  <2>4. UNCHANGED <<history, pos>>
    BY <1>3 DEF rbr_follow
  <2>. QED  BY <2>3, <2>4, RequestMakes, HistoryAlone, IdleStage DEF rbr_open_internal
<1>4. CASE rbr_back
  <2>1. pos \in 0 .. MAX_HISTORY /\ pos >= 2 /\ pos' = pos - 2 /\ history' = history
    BY <1>4 DEF rbr_back, HistoryInv
  <2>2. /\ history = [i \in 1 .. MAX_HISTORY |-> history[i]]
        /\ \A i \in 1 .. pos : history[i] # NoUrl
        /\ MAX_HISTORY \in Nat
    BY WebAssumption DEF HistoryInv
  <2>. HIDE DEF NoUrl
  <2>3. history[pos - 1] # NoUrl
    <3>1. pos - 1 \in 1 .. pos
      BY <2>1, <2>2
    <3>. QED  BY <2>2, <3>1
  <2>4. HandleInv'
    BY <1>4, <2>3, RequestMakes, IdleStage DEF rbr_back, rbr_open_internal
  <2>5. HistoryInv'
    <3>1. pos' \in 0 .. MAX_HISTORY /\ \A i \in 1 .. pos' : i \in 1 .. pos
      BY <2>1, <2>2
    <3>. QED  BY <2>1, <2>2, <3>1 DEF HistoryInv
  <2>. QED  BY <2>4, <2>5
<1>5. CASE rbr_loads
  <2>1. /\ call.stage = "answered" /\ resp' = Released /\ call' = Idle /\ req' = req
        /\ rbr_history_push(call.url) \/ UNCHANGED <<history, pos>>
    BY <1>5 DEF rbr_loads, Answered
  <2>2. HandleInv'
    BY <2>1, ReleaseKeeps
  <2>3. call.url # NoUrl
    BY <2>1 DEF HandleInv
  <2>4. HistoryInv'
    BY <2>1, <2>3, PushKeeps, HistoryAlone
  <2>. QED  BY <2>2, <2>4
<1>6. ASSUME NEW k, rbr_scroll(k) PROVE WebInv'
  BY <1>6, HandlesAlone, HistoryAlone DEF rbr_scroll
<1>7. CASE httpShit
  <2>1. [scheme |-> "http", host |-> "example", path |-> "/"] # NoUrl
    BY RealUrls
  <2>. QED  BY <1>7, <2>1, RequestMakes, HistoryAlone, IdleStage DEF httpShit
<1>8. CASE page_prints
  BY <1>8, ReleaseKeeps, HistoryAlone DEF page_prints, Answered
<1>9. ASSUME NEW n, radium_register_device(n) PROVE WebInv'
  <2>1. DeviceUrl # NoUrl
    BY RealUrls
  <2>2. PICK left : http_request("register", DeviceUrl, FALSE, left)
    BY <1>9 DEF radium_register_device
  <2>. QED  BY <1>9, <2>1, <2>2, RequestMakes, HistoryAlone, IdleStage DEF radium_register_device
<1>10. CASE register_reads
  BY <1>10, ReleaseKeeps, HistoryAlone DEF register_reads, Answered
<1>11. CASE register_again
  <2>1. DeviceUrl # NoUrl
    BY RealUrls
  <2>2. call.stage \notin {"made", "answered"}
    BY <1>11 DEF register_again
  <2>. QED  BY <1>11, <2>1, <2>2, RequestMakes, HistoryAlone DEF register_again
<1>. QED
  BY <1>1, <1>2, <1>3, <1>4, <1>5, <1>6, <1>7, <1>8, <1>9, <1>10, <1>11 DEF RbrNext

LEMMA BrowserStep == ASSUME WebInv, BrowserNext PROVE WebInv'
<1>. USE DEF WebInv
<1>1. ASSUME NEW u \in Typed, b_navigate(u) PROVE WebInv'
  <2>1. /\ call = Idle /\ UNCHANGED <<req, resp, history, pos>>
        /\ \/ call' = [Idle EXCEPT !.app = u.scheme, !.stage = "loading", !.url = u]
           \/ call' = call
    BY <1>1 DEF b_navigate, handleVars
  <2>2. CASE call' = call
    BY <2>1, <2>2, HandlesAlone, HistoryAlone
  <2>3. CASE call' = [Idle EXCEPT !.app = u.scheme, !.stage = "loading", !.url = u]
    <3>. DEFINE a == u.scheme  s == "loading"
    <3>1. call' = [app |-> a, stage |-> s, h |-> 0, url |-> u, record |-> FALSE, left |-> 0]
      BY <2>3 DEF Idle
    <3>2. s \notin {"made", "answered"}
      OBVIOUS
    <3>. HIDE DEF a, s
    <3>. QED  BY <2>1, <3>1, <3>2, TablesAlone, HistoryAlone, IdleStage
  <2>. QED  BY <2>1, <2>2, <2>3
<1>2. CASE do_navigate \/ b_load_local
  <2>1. /\ call.stage \notin {"made", "answered"} /\ UNCHANGED <<req, resp, history, pos>>
        /\ call' = Idle
    BY <1>2 DEF do_navigate, b_load_local, handleVars
  <2>. DEFINE a == "none"  s == "idle"
  <2>2. /\ call' = [app |-> a, stage |-> s, h |-> 0, url |-> NoUrl, record |-> FALSE, left |-> 0]
        /\ s \notin {"made", "answered"}
    BY <2>1 DEF Idle
  <2>. HIDE DEF a, s
  <2>. QED  BY <2>1, <2>2, TablesAlone, HistoryAlone
<1>3. CASE graphical_browser \/ \E k \in Keys : b_scroll(k)
  BY <1>3, HandlesAlone, HistoryAlone DEF graphical_browser, b_scroll, handleVars
<1>. QED  BY <1>1, <1>2, <1>3 DEF BrowserNext

\* A slot of either handle table is in use only while the call in progress holds
\* it, for that call's own address: no failed, empty or refused request loses one,
\* with any number of slots (http_new, http_go, http_free_response and RBR, http
\* and the device registration, which use them).
THEOREM NoHandleIsLost == WebSpec => []HandlesBalanced
<1>1. WebInv /\ [WebNext]_webVars => WebInv'
  <2>. SUFFICES ASSUME WebInv, [WebNext]_webVars PROVE WebInv'
    OBVIOUS
  <2>1. CASE UNCHANGED webVars
    BY <2>1, HandlesAlone, HistoryAlone DEF webVars, WebInv
  <2>. QED  BY <2>1, RbrStep, BrowserStep DEF WebNext
<1>2. WebInv => HandlesBalanced
  <2>. SUFFICES ASSUME HandleInv PROVE HandlesBalanced
    BY DEF WebInv
  <2>1. \A i \in Slot : i # 0
    BY WebAssumption DEF Slot
  <2>2. call.h # 0 => call.h \in Slot
    BY WebAssumption DEF HandleInv, Slot
  <2>. HIDE DEF Free, Slot
  <2>3. /\ \A i \in Slot : req[i] # Free <=> (call.stage = "made" /\ i = call.h)
        /\ \A i \in Slot : resp[i] # Free <=> (call.stage = "answered" /\ i = call.h)
        /\ call.stage = "answered" /\ call.h # 0 => resp[call.h].of = call.url
    BY DEF HandleInv
  <2>4. {i \in Slot : req[i] # Free} = IF call.stage = "made" THEN {call.h} \ {0} ELSE {}
    BY <2>1, <2>2, <2>3
  <2>5. {i \in Slot : resp[i] # Free} = IF call.stage = "answered" THEN {call.h} \ {0} ELSE {}
    BY <2>1, <2>2, <2>3
  <2>. QED  BY <2>3, <2>4, <2>5 DEF HandlesBalanced
<1>. QED  BY <1>1, <1>2, WebInitInv, PTL DEF WebSpec

-----------------------------------------------------------------------------
(* The auto-reply loop.                                                    *)

Message == [id : Nat, trigger : BOOLEAN, own : BOOLEAN]

\* Messages have their numbers in order, and the newest is the last posted as
\* long as none is deleted.
ChannelInv ==
    /\ posted \in Nat /\ channel \in Seq(Message)
    /\ \A i \in 1 .. Len(channel) : channel[i].id <= posted
    /\ \A i, j \in 1 .. Len(channel) : i < j => channel[i].id < channel[j].id
    /\ channel # <<>> => channel[Len(channel)].id = posted

\* What was replied to is behind the newest message seen, or is the one whose
\* reply is being sent; each once, and with the trigger.
RepliedInv ==
    /\ auto \in [on : BOOLEAN, last : Nat, reply : Nat]
    /\ replied \in Seq(Nat)
    /\ auto.last <= posted /\ auto.reply <= posted
    /\ \A i \in 1 .. Len(replied) : replied[i] <= auto.last \/ replied[i] = auto.reply
    /\ auto.reply # 0 => auto.last < auto.reply
    /\ \A i, j \in 1 .. Len(replied) : replied[i] = replied[j] => i = j
    /\ \A i \in 1 .. Len(channel), j \in 1 .. Len(replied) :
           channel[i].id = replied[j] => channel[i].trigger

ReplyInv == deleted \in BOOLEAN /\ says \in BOOLEAN /\ (~deleted => ChannelInv /\ RepliedInv)

LEMMA Joined ==
    ASSUME NEW T, NEW s \in Seq(T), NEW t \in Seq(T), NEW a, a = Len(s), NEW d, d = Len(t)
    PROVE  /\ s \o t \in Seq(T) /\ Len(s \o t) = a + d
           /\ \A i \in 1 .. a : (s \o t)[i] = s[i]
           /\ \A i \in a + 1 .. a + d : (s \o t)[i] = t[i - a] /\ i - a \in 1 .. d
<1>1. a \in Nat /\ d \in Nat
  OBVIOUS
<1>2. s \o t \in Seq(T) /\ Len(s \o t) = a + d
  OBVIOUS
<1>3. ASSUME NEW i \in 1 .. a PROVE (s \o t)[i] = s[i]
  BY <1>1
<1>4. ASSUME NEW i \in a + 1 .. a + d PROVE (s \o t)[i] = t[i - a] /\ i - a \in 1 .. d
  BY <1>1
<1>. QED  BY <1>2, <1>3, <1>4

\* New messages are newer than all that were replied to.
LEMMA PostKeeps ==
    ASSUME ChannelInv, RepliedInv, NEW n \in Nat, NEW own \in BOOLEAN, NEW trigger \in BOOLEAN,
           Post(n, own, trigger), UNCHANGED replied,
           \/ auto' = auto
           \/ auto.reply # 0 /\ auto' = [on |-> auto.on, last |-> auto.reply, reply |-> 0]
    PROVE  ChannelInv' /\ RepliedInv'
<1>. DEFINE new == [j \in 1 .. n |-> [id |-> posted + j, trigger |-> trigger, own |-> own]]
            c == channel \o new
            l == Len(channel)
<1>1. posted' = posted + n /\ channel' = c
  BY DEF Post
<1>2. /\ posted \in Nat /\ channel \in Seq(Message) /\ l \in Nat
      /\ \A i \in 1 .. l : channel[i].id <= posted
      /\ \A i, j \in 1 .. l : i < j => channel[i].id < channel[j].id
      /\ channel # <<>> => channel[l].id = posted
  BY DEF ChannelInv
<1>3. new \in Seq(Message) /\ Len(new) = n /\ \A j \in 1 .. n : new[j].id = posted + j
  <2>1. \A j \in 1 .. n : [id |-> posted + j, trigger |-> trigger, own |-> own] \in Message
    BY <1>2 DEF Message
  <2>. QED  BY <2>1
<1>. HIDE DEF new
<1>4. /\ c \in Seq(Message) /\ Len(c) = l + n
      /\ \A i \in 1 .. l : c[i] = channel[i]
      /\ \A i \in l + 1 .. l + n : c[i] = new[i - l] /\ i - l \in 1 .. n
  BY <1>2, <1>3, Joined
<1>5. \A i \in 1 .. l + n : c[i].id = IF i <= l THEN channel[i].id ELSE posted + (i - l)
  <2>. HIDE DEF l, c
  <2>. SUFFICES ASSUME NEW i \in 1 .. l + n
                PROVE  c[i].id = IF i <= l THEN channel[i].id ELSE posted + (i - l)
    OBVIOUS
  <2>1. CASE i <= l
    <3>1. i \in 1 .. l
      BY <1>2, <2>1
    <3>. QED  BY <1>4, <2>1, <3>1
  <2>2. CASE ~(i <= l)
    <3>1. i \in l + 1 .. l + n
      BY <1>2, <2>2
    <3>2. c[i] = new[i - l] /\ i - l \in 1 .. n
      BY <1>4, <3>1
    <3>. QED  BY <1>3, <2>2, <3>2
  <2>. QED  BY <2>1, <2>2
<1>6. \A i \in 1 .. l : channel[i].id \in Nat
  <2>1. \A i \in 1 .. l : channel[i] \in Message
    BY <1>2
  <2>. QED  BY <2>1 DEF Message
<1>. HIDE DEF l, c
<1>7. ChannelInv'
  <2>1. ASSUME NEW i \in 1 .. l + n PROVE c[i].id <= posted + n
    <3>1. CASE i <= l
      <4>1. i \in 1 .. l /\ channel[i].id \in Nat /\ channel[i].id <= posted
        BY <1>2, <1>6, <3>1
      <4>. QED  BY <1>2, <1>5, <3>1, <4>1
    <3>2. CASE ~(i <= l)
      <4>1. c[i].id = posted + (i - l)
        BY <1>5, <3>2
      <4>. QED  BY <1>2, <3>2, <4>1
    <3>. QED  BY <3>1, <3>2
  <2>2. ASSUME NEW i \in 1 .. l + n, NEW j \in 1 .. l + n, i < j PROVE c[i].id < c[j].id
    <3>1. CASE j <= l
      <4>1. i \in 1 .. l /\ j \in 1 .. l
        BY <1>2, <2>2, <3>1
      <4>2. channel[i].id < channel[j].id
        BY <1>2, <2>2, <4>1
      <4>. QED  BY <1>2, <1>5, <2>2, <3>1, <4>1, <4>2
    <3>2. CASE ~(j <= l) /\ i <= l
      <4>1. i \in 1 .. l /\ channel[i].id \in Nat /\ channel[i].id <= posted
        BY <1>2, <1>6, <3>2
      <4>2. c[i].id = channel[i].id /\ c[j].id = posted + (j - l)
        BY <1>5, <3>2
      <4>. QED  BY <1>2, <3>2, <4>1, <4>2
    <3>3. CASE ~(j <= l) /\ ~(i <= l)
      <4>1. c[i].id = posted + (i - l) /\ c[j].id = posted + (j - l)
        BY <1>5, <3>3
      <4>. QED  BY <1>2, <2>2, <4>1
    <3>. QED  BY <3>1, <3>2, <3>3
  <2>3. c # <<>> => c[l + n].id = posted + n
    <3>1. CASE n = 0
      <4>1. c # <<>> => l # 0 /\ channel # <<>>
        BY <1>2, <1>4, <3>1 DEF l
      <4>. QED  BY <1>2, <1>5, <3>1, <4>1
    <3>2. CASE n # 0
      BY <1>2, <1>5, <3>2
    <3>. QED  BY <3>1, <3>2
  <2>. QED  BY <1>1, <1>2, <1>4, <2>1, <2>2, <2>3 DEF ChannelInv
<1>8. /\ auto \in [on : BOOLEAN, last : Nat, reply : Nat] /\ replied \in Seq(Nat)
      /\ auto.last <= posted /\ auto.reply <= posted
      /\ \A i \in 1 .. Len(replied) : replied[i] <= auto.last \/ replied[i] = auto.reply
      /\ auto.reply # 0 => auto.last < auto.reply
  BY DEF RepliedInv
<1>9. /\ auto' \in [on : BOOLEAN, last : Nat, reply : Nat]
      /\ auto'.last <= posted /\ auto'.reply <= posted
      /\ \A i \in 1 .. Len(replied) : replied[i] <= auto'.last \/ replied[i] = auto'.reply
      /\ auto'.reply # 0 => auto'.last < auto'.reply
  <2>1. CASE auto' = auto
    BY <1>8, <2>1
  <2>2. CASE auto.reply # 0 /\ auto' = [on |-> auto.on, last |-> auto.reply, reply |-> 0]
    <3>1. auto'.last = auto.reply /\ auto'.reply = 0 /\ auto.last < auto.reply
      BY <1>8, <2>2
    <3>2. \A i \in 1 .. Len(replied) : replied[i] \in Nat
      BY <1>8
    <3>3. PICK a \in Nat, d \in Nat : a = auto.last /\ d = auto.reply
      BY <1>8
    <3>4. ASSUME NEW i \in 1 .. Len(replied) PROVE replied[i] <= d
      <4>1. replied[i] \in Nat /\ (replied[i] <= a \/ replied[i] = d) /\ a < d
        BY <1>8, <3>1, <3>2, <3>3
      <4>. QED  BY <3>3, <4>1
    <3>5. auto' \in [on : BOOLEAN, last : Nat, reply : Nat]
      BY <1>8, <2>2
    <3>. QED  BY <1>8, <3>1, <3>3, <3>4, <3>5, <1>2
  <2>. QED  BY <2>1, <2>2
<1>10. RepliedInv'
  <2>1. ASSUME NEW i \in 1 .. Len(replied) PROVE replied[i] \in Nat /\ replied[i] <= posted
    <3>1. replied[i] \in Nat
      BY <1>8
    <3>2. auto.last \in Nat /\ auto.reply \in Nat /\ posted \in Nat
      BY <1>2, <1>8
    <3>. QED  BY <1>8, <3>1, <3>2
  <2>2. \A i \in 1 .. l, j \in 1 .. Len(replied) : channel[i].id = replied[j] => channel[i].trigger
    BY DEF RepliedInv, l
  <2>3. ASSUME NEW i \in 1 .. l + n, NEW j \in 1 .. Len(replied), c[i].id = replied[j]
        PROVE  c[i].trigger
    <3>1. i <= l
      BY <1>2, <1>5, <2>1, <2>3
    <3>2. i \in 1 .. l /\ c[i] = channel[i]
      BY <1>2, <1>4, <3>1
    <3>. QED  BY <2>2, <2>3, <3>2
  <2>4. \A i, j \in 1 .. Len(replied) : replied[i] = replied[j] => i = j
    BY DEF RepliedInv
  <2>5. posted <= posted' /\ posted' \in Nat
    BY <1>1, <1>2
  <2>6. auto'.last <= posted' /\ auto'.reply <= posted'
    BY <1>2, <1>9, <2>5
  <2>. QED  BY <1>1, <1>4, <1>8, <1>9, <2>3, <2>4, <2>6 DEF RepliedInv
<1>. QED  BY <1>7, <1>10

LEMMA ReplyInitInv == DiscordInit => ReplyInv
<1>. SUFFICES ASSUME DiscordInit PROVE ReplyInv
  OBVIOUS
<1>1. auto = [on |-> FALSE, last |-> 0, reply |-> 0] /\ replied = <<>> /\ channel = <<>>
      /\ posted = 0 /\ deleted = FALSE /\ says \in BOOLEAN
  BY DEF DiscordInit, Off
<1>2. ChannelInv
  BY <1>1 DEF ChannelInv
<1>3. RepliedInv
  BY <1>1 DEF RepliedInv
<1>. QED  BY <1>1, <1>2, <1>3 DEF ReplyInv

\* The loop starts afresh, or stops.
LEMMA Restarts ==
    ASSUME ReplyInv, UNCHANGED <<channel, posted, deleted, says>>, replied' = <<>>,
           auto' \in {Off, [Off EXCEPT !.on = TRUE]}
    PROVE  ReplyInv'
<1>1. auto' \in [on : BOOLEAN, last : Nat, reply : Nat] /\ auto'.last = 0 /\ auto'.reply = 0
  <2>1. PICK x \in BOOLEAN : auto' = [on |-> x, last |-> 0, reply |-> 0]
    BY DEF Off
  <2>. QED  BY <2>1
<1>2. ASSUME ChannelInv PROVE ChannelInv' /\ RepliedInv'
  <2>1. posted \in Nat
    BY <1>2 DEF ChannelInv
  <2>2. ChannelInv'
    BY <1>2 DEF ChannelInv
  <2>3. RepliedInv'
    BY <1>1, <2>1 DEF RepliedInv
  <2>. QED  BY <2>2, <2>3
<1>. QED  BY <1>2 DEF ReplyInv

LEMMA ReplyAlone ==
    ASSUME ReplyInv, UNCHANGED <<channel, posted, deleted, auto, says, replied>>
    PROVE  ReplyInv'
<1>1. ChannelInv => ChannelInv'
  BY DEF ChannelInv
<1>2. RepliedInv => RepliedInv'
  BY DEF RepliedInv
<1>. QED  BY <1>1, <1>2 DEF ReplyInv

LEMMA PostedKeeps ==
    ASSUME ReplyInv, NEW n \in Nat, NEW own \in BOOLEAN, NEW trigger \in BOOLEAN,
           Post(n, own, trigger), UNCHANGED <<deleted, auto, says, replied>>
    PROVE  ReplyInv'
<1>1. ~deleted => ChannelInv' /\ RepliedInv'
  <2>. SUFFICES ASSUME ChannelInv, RepliedInv PROVE ChannelInv' /\ RepliedInv'
    BY DEF ReplyInv
  <2>1. UNCHANGED replied /\ auto' = auto
    OBVIOUS
  <2>2. Post(n, own, trigger)
    OBVIOUS
  <2>. QED  BY ONLY PostKeeps, <2>1, <2>2, ChannelInv, RepliedInv, n \in Nat, own \in BOOLEAN,
                    trigger \in BOOLEAN
<1>. QED  BY <1>1 DEF ReplyInv

LEMMA PollKeeps == ASSUME ReplyInv, auto_poll PROVE ReplyInv'
<1>. DEFINE l == Len(channel)
            m == channel[l]
<1>1. /\ UNCHANGED <<channel, posted, deleted, says>> /\ auto.reply = 0 /\ channel # <<>>
      /\ m.id # auto.last
      /\ IF m.trigger THEN /\ auto' = [auto EXCEPT !.reply = m.id]
                           /\ replied' = Append(replied, m.id)
         ELSE auto' = [auto EXCEPT !.last = m.id] /\ replied' = replied
  BY DEF auto_poll, Last, channelVars
<1>. SUFFICES ASSUME ChannelInv, RepliedInv PROVE ChannelInv' /\ RepliedInv'
  BY <1>1 DEF ReplyInv
<1>2. ChannelInv'
  BY <1>1 DEF ChannelInv
<1>3. /\ l \in 1 .. l /\ m \in Message /\ m.id = posted /\ posted \in Nat
      /\ \A i \in 1 .. l : i < l => channel[i].id < m.id
  BY <1>1 DEF ChannelInv
<1>4. /\ auto \in [on : BOOLEAN, last : Nat, reply : Nat] /\ replied \in Seq(Nat)
      /\ auto.last <= posted
      /\ \A i \in 1 .. Len(replied) : replied[i] \in Nat /\ replied[i] <= auto.last
      /\ \A i, j \in 1 .. Len(replied) : replied[i] = replied[j] => i = j
      /\ \A i \in 1 .. l, j \in 1 .. Len(replied) :
             channel[i].id = replied[j] => channel[i].trigger
  <2>1. \A i \in 1 .. Len(replied) : replied[i] \in Nat
    BY DEF RepliedInv
  <2>. QED  BY <1>1, <2>1 DEF RepliedInv
<1>5. PICK p \in Nat : p = m.id /\ p = posted
  BY <1>3
<1>. HIDE DEF l, m
<1>6. auto.last < p
  BY <1>1, <1>3, <1>4, <1>5
<1>7. CASE ~m.trigger
  <2>1. auto' = [auto EXCEPT !.last = p] /\ replied' = replied
    BY <1>1, <1>5, <1>7
  <2>2. /\ auto' \in [on : BOOLEAN, last : Nat, reply : Nat]
        /\ auto'.last = p /\ auto'.reply = 0
    BY <1>1, <1>4, <2>1
  <2>3. \A i \in 1 .. Len(replied) : replied[i] <= p
    BY <1>4, <1>6
  <2>. QED  BY <1>1, <1>2, <1>4, <1>5, <2>1, <2>2, <2>3 DEF RepliedInv, l
<1>8. CASE m.trigger
  <2>. DEFINE n == Len(replied)
              r == Append(replied, p)
  <2>1. auto' = [auto EXCEPT !.reply = p] /\ replied' = r
    BY <1>1, <1>5, <1>8
  <2>2. /\ auto' \in [on : BOOLEAN, last : Nat, reply : Nat]
        /\ auto'.last = auto.last /\ auto'.reply = p
    BY <1>1, <1>4, <2>1
  <2>3. /\ r \in Seq(Nat) /\ Len(r) = n + 1 /\ n \in Nat /\ r[n + 1] = p
        /\ \A i \in 1 .. n : r[i] = replied[i]
    BY <1>4
  <2>4. \A i \in 1 .. n : r[i] \in Nat /\ r[i] <= auto.last /\ r[i] # p
    BY <1>4, <1>6, <2>3
  <2>. HIDE DEF n, r
  <2>5. \A i \in 1 .. n + 1 : i \in 1 .. n \/ i = n + 1
    BY <2>3
  <2>6. \A i \in 1 .. n + 1 : r[i] <= auto.last \/ r[i] = p
    BY <2>3, <2>4, <2>5
  <2>7. \A i, j \in 1 .. n + 1 : r[i] = r[j] => i = j
    <3>1. \A i, j \in 1 .. n : r[i] = r[j] => i = j
      BY <1>4, <2>3 DEF n
    <3>. QED  BY <2>3, <2>4, <2>5, <3>1
  <2>8. ASSUME NEW i \in 1 .. l, NEW j \in 1 .. n + 1, channel[i].id = r[j]
        PROVE  channel[i].trigger
    <3>1. CASE j \in 1 .. n
      BY <1>4, <2>3, <2>8, <3>1 DEF n
    <3>2. CASE j = n + 1
      <4>1. ~(i < l)
        BY <1>3, <1>5, <2>3, <2>8, <3>2
      <4>2. i = l
        BY <1>3, <4>1
      <4>. QED  BY <1>8, <4>2 DEF m
    <3>. QED  BY <2>5, <3>1, <3>2
  <2>. QED
    BY <1>1, <1>2, <1>3, <1>4, <1>5, <1>6, <2>1, <2>2, <2>3, <2>6, <2>7, <2>8 DEF RepliedInv, l
<1>. QED  BY <1>7, <1>8

LEMMA ReplyStep == ReplyInv /\ [DiscordNext]_discordVars => ReplyInv'
<1>. SUFFICES ASSUME ReplyInv, [DiscordNext]_discordVars PROVE ReplyInv'
  OBVIOUS
<1>1. CASE auto_poll
  BY <1>1, PollKeeps
<1>2. CASE auto_reply
  <2>1. PICK n \in Copies : /\ Post(n, TRUE, says)
                            /\ auto' = [auto EXCEPT !.last = LastSeen(n), !.reply = 0]
    BY <1>2 DEF auto_reply
  <2>2. n \in Nat /\ auto.reply # 0 /\ UNCHANGED <<deleted, says, replied>>
    BY <1>2, DiscordAssumption DEF auto_reply
  <2>3. ASSUME ChannelInv, RepliedInv PROVE ChannelInv' /\ RepliedInv'
    <3>1. LastSeen(n) = auto.reply
      BY <2>2, <2>3 DEF LastSeen, RepliedInv
    <3>2. says \in BOOLEAN
      BY DEF ReplyInv
    <3>3. auto' = [on |-> auto.on, last |-> auto.reply, reply |-> 0]
      BY <2>1, <2>3, <3>1 DEF RepliedInv
    <3>. QED  BY <2>1, <2>2, <2>3, <3>2, <3>3, PostKeeps
  <2>. QED  BY <2>2, <2>3 DEF ReplyInv
<1>3. CASE auto_stops \/ \E n \in names : run_auto_reply(n)
  <2>1. UNCHANGED <<channel, posted, deleted, says>> /\ replied' = <<>>
    BY <1>3 DEF auto_stops, run_auto_reply, channelVars
  <2>2. auto' \in {Off, [Off EXCEPT !.on = TRUE]}
    BY <1>3 DEF auto_stops, run_auto_reply
  <2>. QED  BY <2>1, <2>2, Restarts
\* A request that posts.
<1>4. ASSUME NEW t \in BOOLEAN, NEW code, Posts(t, code), UNCHANGED <<deleted, autoVars>>
      PROVE  ReplyInv'
  <2>1. PICK n \in Copies : Post(n, TRUE, t)
    BY <1>4 DEF Posts
  <2>2. n \in Nat
    BY DiscordAssumption
  <2>. QED  BY <1>4, <2>1, <2>2, PostedKeeps DEF autoVars
<1>5. ASSUME NEW n \in names, run_send_emoji(n) \/ run_send(n) PROVE ReplyInv'
  <2>1. UNCHANGED <<deleted, autoVars>>
    BY <1>5 DEF run_send_emoji, run_send
  <2>2. (\E code : Posts(FALSE, code)) \/ UNCHANGED <<channel, posted>>
    BY <1>5 DEF run_send_emoji, run_send
  <2>3. CASE UNCHANGED <<channel, posted>>
    BY <2>1, <2>3, ReplyAlone DEF autoVars
  <2>. QED  BY <1>4, <2>1, <2>2, <2>3
<1>6. CASE others_post
  <2>1. PICK t \in BOOLEAN : Post(1, FALSE, t)
    BY <1>6 DEF others_post
  <2>. QED  BY <1>6, <2>1, PostedKeeps DEF others_post, autoVars
<1>7. ASSUME NEW n \in names, run_delete(n) PROVE ReplyInv'
  <2>1. \/ deleted' = TRUE /\ says' = says
        \/ UNCHANGED <<channel, posted, deleted, auto, says, replied>>
    BY <1>7 DEF run_delete, rust_discord_delete_message, autoVars
  <2>2. CASE deleted' = TRUE /\ says' = says
    BY <2>2 DEF ReplyInv
  <2>. QED  BY <2>1, <2>2, ReplyAlone
<1>8. ASSUME NEW n \in names,
             \/ rust_discord_set_module(n) \/ rust_discord_config_module(n)
             \/ rust_discord_remove_module(n) \/ run_refused(n) \/ run_react(n)
             \/ \E limit \in 1 .. MaxMessages : run_fetch(n, limit)
      PROVE  ReplyInv'
  <2>1. UNCHANGED <<channelVars, autoVars>>
    BY <1>8 DEF rust_discord_set_module, rust_discord_config_module, rust_discord_remove_module,
       run_refused, run_react, run_fetch
  <2>. QED  BY <2>1, ReplyAlone DEF channelVars, autoVars
<1>9. CASE UNCHANGED discordVars
  BY <1>9, ReplyAlone DEF discordVars, channelVars, autoVars
<1>. QED
  BY <1>1, <1>2, <1>3, <1>5, <1>6, <1>7, <1>8, <1>9 DEF DiscordNext

\* A run of the auto-reply module decides once on a message, and only on those with
\* the trigger, whatever others post meanwhile and whether or not the replies
\* arrive, once or in copies, as long as nothing is deleted (module_run's AutoReply
\* loop, which remembers only the last message it saw).
THEOREM RepliesAreSingle == DiscordSpec => []RepliesOnce
<1>1. ReplyInv => RepliesOnce
  <2>. SUFFICES ASSUME RepliedInv, ChannelInv
                PROVE  /\ IsInjective(replied)
                       /\ \A i \in DOMAIN channel :
                              channel[i].id \in Range(replied) => channel[i].trigger
    BY DEF ReplyInv, RepliesOnce
  <2>1. DOMAIN replied = 1 .. Len(replied) /\ DOMAIN channel = 1 .. Len(channel)
    BY DEF RepliedInv, ChannelInv
  <2>2. IsInjective(replied)
    BY <2>1 DEF RepliedInv, IsInjective
  <2>3. ASSUME NEW i \in DOMAIN channel, channel[i].id \in Range(replied)
        PROVE  channel[i].trigger
    <3>1. PICK j \in DOMAIN replied : replied[j] = channel[i].id
      BY <2>3 DEF Range
    <3>. QED  BY <2>1, <3>1 DEF RepliedInv
  <2>. QED  BY <2>2, <2>3
<1>. QED  BY <1>1, ReplyInitInv, ReplyStep, PTL DEF DiscordSpec

-----------------------------------------------------------------------------
(* The module table.                                                       *)

Kinds  == {KindOf[n] : n \in ModuleNames}
Params == UNION {Required(kind) : kind \in Kinds}
Module == [name : ModuleNames, kind : Kinds, configured : BOOLEAN, set : SUBSET Params]

\* A table of modules and the parameters their users gave.
ListsWhatWasGiven(m, g) ==
    /\ m \in Seq(Module) /\ g \in [ModuleNames -> SUBSET Params]
    /\ \A i, j \in 1 .. Len(m) : m[i].name = m[j].name => i = j
    /\ \A i \in 1 .. Len(m) : m[i].set = g[m[i].name]
    /\ \A n \in ModuleNames : g[n] # {} => \E i \in 1 .. Len(m) : m[i].name = n

ModuleInv == names \in NameSets /\ ListsWhatWasGiven(modules, given)

\* module_find finds the module of a name.
LEMMA FindIs ==
    ASSUME ModuleInv, NEW n
    PROVE  /\ module_find(n) # 0 => /\ module_find(n) \in 1 .. Len(modules)
                                    /\ modules[module_find(n)].name = n
           /\ module_find(n) = 0 => \A i \in 1 .. Len(modules) : modules[i].name # n
<1>1. DOMAIN modules = 1 .. Len(modules)
  BY DEF ModuleInv, ListsWhatWasGiven
<1>2. CASE \E i \in DOMAIN modules : modules[i].name = n
  <2>. DEFINE i == CHOOSE i \in DOMAIN modules : modules[i].name = n
  <2>1. i \in DOMAIN modules /\ modules[i].name = n
    BY <1>2
  <2>2. module_find(n) = i
    BY <1>2 DEF module_find
  <2>3. i # 0
    BY <1>1, <2>1
  <2>. QED  BY <1>1, <2>1, <2>2, <2>3
<1>3. CASE ~\E i \in DOMAIN modules : modules[i].name = n
  <2>1. module_find(n) = 0
    BY <1>3 DEF module_find
  <2>. QED  BY <1>1, <1>3, <2>1
<1>. QED  BY <1>2, <1>3

LEMMA SetModuleKeeps ==
    ASSUME ModuleInv, NEW n \in names, rust_discord_set_module(n)
    PROVE  ModuleInv'
<1>1. n \in ModuleNames
  BY DiscordAssumption DEF ModuleInv
<1>2. CASE UNCHANGED tableVars
  BY <1>2 DEF ModuleInv, tableVars
<1>3. CASE ~UNCHANGED tableVars
  <2>. DEFINE new == [name |-> n, kind |-> KindOf[n], configured |-> FALSE, set |-> {}]
              m   == Append(modules, new)
              l   == Len(modules)
  <2>1. /\ module_find(n) = 0 /\ modules' = m /\ given' = [given EXCEPT ![n] = {}]
        /\ names' = names
    BY <1>3 DEF rust_discord_set_module
  <2>2. new \in Module /\ new.name = n /\ new.set = {}
    BY <1>1 DEF Module, Kinds
  <2>. HIDE DEF new
  <2>3. /\ modules \in Seq(Module) /\ given \in [ModuleNames -> SUBSET Params] /\ l \in Nat
        /\ \A i, j \in 1 .. l : modules[i].name = modules[j].name => i = j
        /\ \A i \in 1 .. l : /\ modules[i].set = given[modules[i].name]
                             /\ modules[i].name # n /\ modules[i].name \in ModuleNames
        /\ \A k \in ModuleNames : given[k] # {} => \E i \in 1 .. l : modules[i].name = k
    <3>1. \A i \in 1 .. l : modules[i].name # n
      BY <2>1, FindIs
    <3>2. \A i \in 1 .. l : modules[i] \in Module
      BY DEF ModuleInv, ListsWhatWasGiven
    <3>. QED  BY <3>1, <3>2 DEF ModuleInv, ListsWhatWasGiven, Module
  <2>4. /\ m \in Seq(Module) /\ Len(m) = l + 1 /\ m[l + 1] = new
        /\ \A i \in 1 .. l : m[i] = modules[i]
    BY <2>2, <2>3
  <2>5. /\ given' \in [ModuleNames -> SUBSET Params] /\ given'[n] = {}
        /\ \A k \in ModuleNames \ {n} : given'[k] = given[k]
    BY <1>1, <2>1, <2>3
  <2>. HIDE DEF m, l
  <2>6. \A i \in 1 .. l + 1 : i \in 1 .. l \/ i = l + 1
    BY <2>3
  <2>7. \A i \in 1 .. l : i \in 1 .. l + 1
    BY <2>3
  <2>8. \A i, j \in 1 .. l + 1 : m[i].name = m[j].name => i = j
    BY <2>2, <2>3, <2>4, <2>6
  <2>9. \A i \in 1 .. l + 1 : m[i].set = given'[m[i].name]
    <3>1. ASSUME NEW i \in 1 .. l PROVE m[i].set = given'[m[i].name]
      <4>1. m[i] = modules[i] /\ modules[i].name \in ModuleNames \ {n}
        BY <2>3, <2>4
      <4>. QED  BY <2>3, <2>5, <4>1
    <3>2. m[l + 1].set = given'[m[l + 1].name]
      BY <2>2, <2>4, <2>5
    <3>. QED  BY <2>6, <3>1, <3>2
  <2>10. \A k \in ModuleNames : given'[k] # {} => \E i \in 1 .. l + 1 : m[i].name = k
    BY <2>3, <2>4, <2>5, <2>7
  <2>11. ListsWhatWasGiven(m, given')
    BY <2>4, <2>5, <2>8, <2>9, <2>10 DEF ListsWhatWasGiven
  <2>. QED  BY <2>1, <2>11 DEF ModuleInv
<1>. QED  BY <1>2, <1>3

LEMMA Configured ==
    ASSUME NEW x \in Module, NEW more, more \subseteq Params
    PROVE  LET new == [x EXCEPT !.configured = TRUE, !.set = @ \cup more]
           IN  new \in Module /\ new.name = x.name /\ new.set = x.set \cup more
BY DEF Module

LEMMA ConfigKeeps ==
    ASSUME ModuleInv, NEW n \in names, rust_discord_config_module(n)
    PROVE  ModuleInv'
<1>. DEFINE i == module_find(n)
            l == Len(modules)
<1>1. i \in 1 .. l /\ modules[i].name = n
  BY FindIs DEF rust_discord_config_module
<1>2. PICK more \in {{}, Required(modules[i].kind)} :
        /\ modules' = [modules EXCEPT ![i].configured = TRUE, ![i].set = @ \cup more]
        /\ given' = [given EXCEPT ![n] = @ \cup more]
  BY DEF rust_discord_config_module
<1>3. names' = names
  BY DEF rust_discord_config_module
<1>. HIDE DEF i, l
<1>4. /\ modules \in Seq(Module) /\ given \in [ModuleNames -> SUBSET Params] /\ l \in Nat
      /\ \A j, k \in 1 .. l : modules[j].name = modules[k].name => j = k
      /\ \A j \in 1 .. l : /\ modules[j].set = given[modules[j].name]
                           /\ modules[j] \in Module
      /\ \A k \in ModuleNames : given[k] # {} => \E j \in 1 .. l : modules[j].name = k
      /\ n \in ModuleNames
  BY DiscordAssumption DEF ModuleInv, ListsWhatWasGiven, l
<1>5. more \subseteq Params
  <2>1. modules[i].kind \in Kinds
    BY <1>1, <1>4 DEF Module
  <2>. QED  BY <2>1 DEF Params
<1>. DEFINE new == [modules[i] EXCEPT !.configured = TRUE, !.set = @ \cup more]
<1>6. new \in Module /\ new.name = n /\ new.set = modules[i].set \cup more
  <2>1. modules[i] \in Module /\ modules[i].name = n
    BY <1>1, <1>4
  <2>. QED  BY <1>5, <2>1, Configured
<1>7. modules' = [modules EXCEPT ![i] = new]
  BY <1>2
<1>. HIDE DEF new
<1>8. /\ modules' \in Seq(Module) /\ Len(modules') = l /\ modules'[i] = new
      /\ \A j \in 1 .. l : j # i => modules'[j] = modules[j]
  BY <1>1, <1>4, <1>6, <1>7 DEF l
<1>9. /\ given' \in [ModuleNames -> SUBSET Params] /\ given'[n] = given[n] \cup more
      /\ \A k \in ModuleNames \ {n} : given'[k] = given[k]
  BY <1>2, <1>4, <1>5
<1>10. \A j \in 1 .. l : modules'[j].name = modules[j].name
  BY <1>1, <1>6, <1>8
<1>11. \A j, k \in 1 .. l : modules'[j].name = modules'[k].name => j = k
  BY <1>4, <1>10
<1>12. \A j \in 1 .. l : modules'[j].set = given'[modules'[j].name]
  <2>. SUFFICES ASSUME NEW j \in 1 .. l PROVE modules'[j].set = given'[modules'[j].name]
    OBVIOUS
  <2>1. CASE j = i
    <3>1. modules'[j] = new /\ new.name = n /\ modules[i].set = given[n]
      BY <1>1, <1>4, <1>6, <1>8, <2>1
    <3>. QED  BY <1>6, <1>9, <3>1
  <2>2. CASE j # i
    <3>1. modules[j].name # n /\ modules[j].name \in ModuleNames
      BY <1>1, <1>4, <2>2 DEF Module
    <3>. QED  BY <1>4, <1>8, <1>9, <2>2, <3>1
  <2>. QED  BY <2>1, <2>2
<1>13. \A k \in ModuleNames : given'[k] # {} => \E j \in 1 .. l : modules'[j].name = k
  <2>. SUFFICES ASSUME NEW k \in ModuleNames, given'[k] # {}
                PROVE  \E j \in 1 .. l : modules'[j].name = k
    OBVIOUS
  <2>1. CASE k = n
    BY <1>1, <1>10, <2>1
  <2>2. CASE k # n
    BY <1>4, <1>9, <1>10, <2>2
  <2>. QED  BY <2>1, <2>2
<1>14. ListsWhatWasGiven(modules', given')
  BY <1>8, <1>9, <1>11, <1>12, <1>13 DEF ListsWhatWasGiven
<1>. QED  BY <1>3, <1>14 DEF ModuleInv

\* The modules behind the one removed move down with their parameters.
LEMMA RemoveKeeps ==
    ASSUME ModuleInv, NEW n \in names, rust_discord_remove_module(n)
    PROVE  ModuleInv'
<1>. DEFINE i == module_find(n)
            l == Len(modules)
            m == WithoutModule(i)
<1>1. i \in 1 .. l /\ modules[i].name = n
  BY FindIs DEF rust_discord_remove_module
<1>2. modules' = m /\ given' = [given EXCEPT ![n] = {}] /\ names' = names
  BY DEF rust_discord_remove_module
<1>3. m = [j \in 1 .. l - 1 |-> IF j < i THEN modules[j] ELSE modules[j + 1]]
  BY DEF WithoutModule
<1>4. /\ given \in [ModuleNames -> SUBSET Params] /\ l \in Nat
      /\ \A j, k \in 1 .. l : modules[j].name = modules[k].name => j = k
      /\ \A j \in 1 .. l : /\ modules[j].set = given[modules[j].name]
                           /\ modules[j] \in Module /\ modules[j].name \in ModuleNames
      /\ \A k \in ModuleNames : given[k] # {} => \E j \in 1 .. l : modules[j].name = k
      /\ n \in ModuleNames
  <2>1. l \in Nat /\ \A j \in 1 .. l : modules[j] \in Module
    BY DEF ModuleInv, ListsWhatWasGiven, l
  <2>2. \A j \in 1 .. l : modules[j].name \in ModuleNames
    BY <2>1 DEF Module
  <2>3. n \in ModuleNames
    BY DiscordAssumption DEF ModuleInv
  <2>. QED  BY <2>1, <2>2, <2>3 DEF ModuleInv, ListsWhatWasGiven, l
<1>. HIDE DEF i, l, m
<1>. DEFINE From(j) == IF j < i THEN j ELSE j + 1
<1>5. \A j \in 1 .. l - 1 : From(j) \in 1 .. l /\ From(j) # i /\ m[j] = modules[From(j)]
  BY <1>1, <1>3, <1>4
<1>6. \A j, k \in 1 .. l - 1 : From(j) = From(k) => j = k
  BY <1>1, <1>4
<1>7. \A k \in 1 .. l : k # i => \E j \in 1 .. l - 1 : From(j) = k
  <2>. SUFFICES ASSUME NEW k \in 1 .. l, k # i PROVE \E j \in 1 .. l - 1 : From(j) = k
    OBVIOUS
  <2>1. CASE k < i
    <3>1. k \in 1 .. l - 1 /\ From(k) = k
      BY <1>1, <1>4, <2>1
    <3>. QED  BY <3>1
  <2>2. CASE k > i
    <3>1. k - 1 \in 1 .. l - 1 /\ From(k - 1) = k
      BY <1>1, <1>4, <2>2
    <3>. QED  BY <3>1
  <2>. QED  BY <1>1, <1>4, <2>1, <2>2
<1>. HIDE DEF From
<1>8. m \in Seq(Module) /\ Len(m) = l - 1
  <2>1. \A j \in 1 .. l - 1 : m[j] \in Module
    BY <1>4, <1>5
  <2>2. l - 1 \in Nat /\ DOMAIN m = 1 .. l - 1 /\ m = [j \in 1 .. l - 1 |-> m[j]]
    BY <1>1, <1>3, <1>4
  <2>. QED  BY <2>1, <2>2
<1>9. /\ given' \in [ModuleNames -> SUBSET Params] /\ given'[n] = {}
      /\ \A k \in ModuleNames \ {n} : given'[k] = given[k]
  BY <1>2, <1>4
<1>10. \A j \in 1 .. l - 1 : m[j].name # n
  BY <1>1, <1>4, <1>5
<1>11. \A j, k \in 1 .. l - 1 : m[j].name = m[k].name => j = k
  BY <1>4, <1>5, <1>6
<1>12. \A j \in 1 .. l - 1 : m[j].set = given'[m[j].name]
  BY <1>4, <1>5, <1>9, <1>10
<1>13. \A k \in ModuleNames : given'[k] # {} => \E j \in 1 .. l - 1 : m[j].name = k
  <2>. SUFFICES ASSUME NEW k \in ModuleNames, given'[k] # {}
                PROVE  \E j \in 1 .. l - 1 : m[j].name = k
    OBVIOUS
  <2>1. k # n /\ given[k] # {}
    BY <1>9
  <2>2. PICK x \in 1 .. l : modules[x].name = k
    BY <1>4, <2>1
  <2>3. x # i
    BY <1>1, <2>1, <2>2
  <2>4. PICK j \in 1 .. l - 1 : From(j) = x
    BY <1>7, <2>3
  <2>. QED  BY <1>5, <2>2, <2>4
<1>14. ListsWhatWasGiven(m, given')
  BY <1>8, <1>9, <1>11, <1>12, <1>13 DEF ListsWhatWasGiven
<1>. QED  BY <1>2, <1>14 DEF ModuleInv

-----------------------------------------------------------------------------
(* The message cache.                                                      *)

\* Remainders.
LEMMA Quotient ==
    ASSUME NEW r \in Nat \ {0}, NEW a \in Nat
    PROVE  \E q \in Nat, m \in 0 .. r - 1 : a = r * q + m /\ a % r = m
OBVIOUS

LEMMA QuotientIsLess ==
    ASSUME NEW r \in Nat \ {0}, NEW a \in Nat PROVE a \div r \in 0 .. a
OBVIOUS

LEMMA Multiple == ASSUME NEW r \in Nat \ {0}, NEW d \in Nat \ {0} PROVE r * d \in Nat /\ r <= r * d
OBVIOUS

LEMMA Remainder ==
    ASSUME NEW r \in Nat \ {0}, NEW q \in Nat, NEW m \in 0 .. r - 1
    PROVE  (r * q + m) % r = m
<1>1. r * q + m \in Nat
  OBVIOUS
<1>2. PICK p \in Nat, k \in 0 .. r - 1 : r * q + m = r * p + k /\ (r * q + m) % r = k
  BY <1>1, Quotient
<1>3. ASSUME q < p PROVE FALSE
  <2>1. p - q \in Nat \ {0} /\ r * p = r * q + r * (p - q)
    BY <1>3
  <2>2. r <= r * (p - q) /\ r * (p - q) \in Nat /\ r * q \in Nat /\ r * p \in Nat
    BY <2>1, Multiple
  <2>. HIDE DEF Quotient
  <2>. QED  BY <1>2, <2>1, <2>2
<1>4. ASSUME p < q PROVE FALSE
  <2>1. q - p \in Nat \ {0} /\ r * q = r * p + r * (q - p)
    BY <1>4
  <2>2. r <= r * (q - p) /\ r * (q - p) \in Nat /\ r * q \in Nat /\ r * p \in Nat
    BY <2>1, Multiple
  <2>. QED  BY <1>2, <2>1, <2>2
<1>5. p = q
  BY <1>3, <1>4
<1>. QED  BY <1>2, <1>5

LEMMA SameRemainder ==
    ASSUME NEW r \in Nat \ {0}, NEW a \in Nat, NEW z \in Nat, a < z, a % r = z % r
    PROVE  r <= z - a
<1>1. PICK q \in Nat, m \in 0 .. r - 1 : a = r * q + m /\ a % r = m
  BY Quotient
<1>2. PICK p \in Nat, k \in 0 .. r - 1 : z = r * p + k /\ z % r = k
  BY Quotient
<1>3. k = m
  BY <1>1, <1>2
<1>4. q < p
  <2>1. ASSUME p < q PROVE FALSE
    <3>1. q - p \in Nat \ {0} /\ r * q = r * p + r * (q - p)
      BY <2>1
    <3>2. r <= r * (q - p) /\ r * (q - p) \in Nat /\ r * q \in Nat /\ r * p \in Nat
      BY <3>1, Multiple
    <3>. QED  BY <1>1, <1>2, <1>3, <3>1, <3>2
  <2>2. p # q
    BY <1>1, <1>2, <1>3
  <2>. QED  BY <2>1, <2>2
<1>5. p - q \in Nat \ {0} /\ r * p = r * q + r * (p - q)
  BY <1>4
<1>6. r <= r * (p - q) /\ r * (p - q) \in Nat /\ r * q \in Nat /\ r * p \in Nat
  BY <1>5, Multiple
<1>. QED  BY <1>1, <1>2, <1>3, <1>5, <1>6

LEMMA RemainderOfSum ==
    ASSUME NEW r \in Nat \ {0}, NEW a \in Nat, NEW z \in Nat
    PROVE  /\ (a % r) + z \in Nat /\ ((a % r) + z) % r = (a + z) % r
           /\ (a + r) % r = a % r
<1>1. PICK q \in Nat, m \in 0 .. r - 1 : a = r * q + m /\ a % r = m
  BY Quotient
<1>2. m + z \in Nat
  OBVIOUS
<1>3. PICK p \in Nat, k \in 0 .. r - 1 : m + z = r * p + k /\ (m + z) % r = k
  BY <1>2, Quotient
<1>4. q + p \in Nat /\ r * (q + p) = r * q + r * p /\ r * q \in Nat /\ r * p \in Nat
  OBVIOUS
<1>5. a + z = r * (q + p) + k
  BY <1>1, <1>3, <1>4
<1>6. (a + z) % r = k
  BY <1>4, <1>5, Remainder
<1>7. q + 1 \in Nat /\ r * (q + 1) = r * q + r
  OBVIOUS
<1>8. a + r = r * (q + 1) + m
  BY <1>1, <1>4, <1>7
<1>9. (a + r) % r = m
  BY <1>7, <1>8, Remainder
<1>. QED  BY <1>1, <1>2, <1>3, <1>6, <1>9

\* A cache onto which n messages were pushed: the next one goes to slot n
\* modulo its size, and the last ones are where they were pushed.
HoldsLatest(n, c, h, l, p) ==
    /\ h = n % MSG_CACHE_SIZE /\ l = IF n < MSG_CACHE_SIZE THEN n ELSE MSG_CACHE_SIZE
    /\ c \in [0 .. MSG_CACHE_SIZE - 1 -> Nat] /\ p \in Seq(Nat) /\ Len(p) = l
    /\ \A k \in 1 .. l : c[(n - l + k - 1) % MSG_CACHE_SIZE] = p[k]

CacheInv == \E n \in Nat : HoldsLatest(n, cache, head, cached, pushes)

\* The greatest of numbers up to d.
LEMMA Greatest ==
    ASSUME NEW d \in Nat, NEW S, S \subseteq 1 .. d, S # {}
    PROVE  \E x \in S : \A y \in S : y <= x
<1>. DEFINE G == {k \in 0 .. d : d - k \in S}
<1>1. G \subseteq Nat /\ G # {}
  <2>. G \subseteq Nat
    OBVIOUS
  <2>1. PICK x \in S : x \in 1 .. d
    OBVIOUS
  <2>2. d - x \in 0 .. d /\ d - (d - x) = x
    BY <2>1
  <2>3. d - x \in G
    <3>1. d - (d - x) \in S
      BY <2>2
    <3>. QED  BY <2>2, <3>1, Zenon
  <2>. QED  BY <2>3
<1>2. PICK m \in G : \A z \in G : ~(<<z, m>> \in OpToRel(<, Nat))
  <2>. HIDE DEF G
  <2>. QED  BY <1>1, NatLessThanWellFounded, WFMin, Zenon
<1>3. m \in Nat /\ \A z \in G : ~(z < m)
  BY <1>1, <1>2 DEF OpToRel
<1>4. ASSUME NEW y \in S PROVE y <= d - m
  <2>1. y \in 1 .. d /\ d - (d - y) = y /\ d - y \in 0 .. d
    OBVIOUS
  <2>2. d - y \in G
    BY <2>1
  <2>. QED  BY <1>3, <2>1, <2>2
<1>. QED  BY <1>2, <1>4

LEMMA MaxIs ==
    ASSUME NEW S, S \subseteq Nat, NEW x \in S, \A y \in S : y <= x
    PROVE  Max(S) = x
<1>1. \A y \in S : (\A z \in S : y >= z) <=> y = x
  <2>. SUFFICES ASSUME NEW y \in S PROVE (\A z \in S : y >= z) <=> y = x
    OBVIOUS
  <2>1. y \in Nat /\ x \in Nat /\ y <= x
    OBVIOUS
  <2>2. (\A z \in S : y >= z) => y >= x
    OBVIOUS
  <2>3. \A z \in S : x >= z
    OBVIOUS
  <2>. QED  BY <2>1, <2>2, <2>3
<1>2. \A y : y \in S /\ (\A z \in S : y >= z) <=> y = x
  BY <1>1
<1>. QED  BY <1>2, Zenon DEF Max

LEMMA LatestIs ==
    ASSUME NEW s \in Seq(Nat)
    PROVE  LET m == Len(s)
               l == IF m < MSG_CACHE_SIZE THEN m ELSE MSG_CACHE_SIZE
           IN  /\ Latest(s) \in Seq(Nat) /\ Len(Latest(s)) = l
               /\ \A k \in 1 .. l : Latest(s)[k] = s[m - l + k] /\ m - l + k \in 1 .. m
<1>. DEFINE m == Len(s)
            l == IF m < MSG_CACHE_SIZE THEN m ELSE MSG_CACHE_SIZE
<1>1. m \in Nat /\ MSG_CACHE_SIZE \in Nat \ {0}
  BY DiscordAssumption
<1>2. l \in Nat /\ l <= m
  BY <1>1
<1>. HIDE DEF l
<1>3. Latest(s) = SubSeq(s, m - l + 1, m)
  <2>1. CASE m > MSG_CACHE_SIZE
    <3>1. l = MSG_CACHE_SIZE
      BY <1>1, <2>1 DEF l
    <3>. QED  BY <2>1, <3>1 DEF Latest
  <2>2. CASE ~(m > MSG_CACHE_SIZE)
    <3>1. l = m
      BY <1>1, <2>2 DEF l
    <3>2. m - l + 1 = 1
      BY <1>1, <3>1
    <3>. QED  BY <2>2, <3>2 DEF Latest
  <2>. QED  BY <2>1, <2>2
<1>. DEFINE a == m - l + 1
<1>4. /\ a \in 1 .. m + 1 /\ m - a + 1 = l
      /\ \A k \in 1 .. l : a + k - 1 = m - l + k /\ m - l + k \in 1 .. m
  <2>1. ASSUME NEW M \in Nat, NEW L \in Nat, L <= M
        PROVE  /\ M - L + 1 \in 1 .. M + 1 /\ M - (M - L + 1) + 1 = L
               /\ \A k \in 1 .. L : (M - L + 1) + k - 1 = M - L + k /\ M - L + k \in 1 .. M
    BY <2>1
  <2>2. m \in Nat /\ l \in Nat /\ l <= m
    BY <1>1, <1>2
  <2>. QED  BY <2>1, <2>2, ZenonT(40)
<1>. HIDE DEF a
<1>5. a \in 1 .. Len(s) + 1 /\ m \in a - 1 .. Len(s) /\ (a > m => l = 0)
  BY <1>1, <1>2, <1>4
<1>. DEFINE w == SubSeq(s, a, m)
<1>6. /\ w \in Seq(Nat) /\ Len(w) = IF a <= m THEN m - a + 1 ELSE 0
      /\ \A k \in 1 .. m - a + 1 : w[k] = s[a + k - 1]
  BY <1>5, SubSeqProperties
<1>. HIDE DEF w
<1>7. Len(w) = l /\ \A k \in 1 .. l : w[k] = s[m - l + k]
  <2>1. (IF a <= m THEN m - a + 1 ELSE 0) = l
    BY <1>1, <1>2, <1>4, <1>5
  <2>. QED  BY <1>4, <1>6, <2>1
<1>. QED  BY <1>3, <1>4, <1>6, <1>7 DEF a, w, l

LEMMA PushesKeep ==
    ASSUME NEW n \in Nat, HoldsLatest(n, cache, head, cached, pushes),
           NEW ids \in Seq(Nat), CachePushes(ids)
    PROVE  HoldsLatest(n + Len(ids), cache', head', cached', pushes')
<1>. DEFINE S == MSG_CACHE_SIZE
            d == Len(ids)
            m == cached + d
            s == pushes \o ids
            l == IF m < S THEN m ELSE S
<1>1. /\ S \in Nat \ {0} /\ d \in Nat /\ cached \in Nat /\ cached <= n /\ cached <= S
      /\ cached = (IF n < S THEN n ELSE S) /\ head = n % S
      /\ m \in Nat /\ l \in Nat /\ l <= m /\ l <= S
  BY DiscordAssumption DEF HoldsLatest
<1>2. /\ cache \in [0 .. S - 1 -> Nat] /\ pushes \in Seq(Nat) /\ Len(pushes) = cached
      /\ \A k \in 1 .. cached : cache[(n - cached + k - 1) % S] = pushes[k]
  BY DEF HoldsLatest
<1>3. /\ cache' = [i \in 0 .. S - 1 |-> IF PushesOnto(i, ids) = {} THEN cache[i]
                                        ELSE ids[Max(PushesOnto(i, ids))]]
      /\ head' = (head + d) % S /\ cached' = l /\ pushes' = Latest(s)
  BY <1>2 DEF CachePushes
<1>. HIDE DEF S, d, m, s
<1>4. head' = (n + d) % S
  BY <1>1, <1>3, RemainderOfSum
<1>5. l = IF n + d < S THEN n + d ELSE S
  BY <1>1 DEF m
<1>6. /\ s \in Seq(Nat) /\ Len(s) = m
      /\ \A x \in 1 .. cached : s[x] = pushes[x]
      /\ \A x \in cached + 1 .. m : s[x] = ids[x - cached] /\ x - cached \in 1 .. d
  BY <1>1, <1>2, Joined DEF m, s, d
<1>7. /\ Latest(s) \in Seq(Nat) /\ Len(Latest(s)) = l
      /\ \A k \in 1 .. l : Latest(s)[k] = s[m - l + k] /\ m - l + k \in 1 .. m
  <2>1. s \in Seq(Nat) /\ Len(s) = m
    BY <1>6
  <2>2. Latest(s) \in Seq(Nat) /\ Len(Latest(s)) = l
    BY <2>1, LatestIs DEF S
  <2>3. \A k \in 1 .. l : Latest(s)[k] = s[m - l + k] /\ m - l + k \in 1 .. m
    BY <2>1, LatestIs DEF S
  <2>. QED  BY <2>2, <2>3
<1>. HIDE DEF l
<1>8. ASSUME NEW k \in 1 .. d PROVE CacheSlot(k - 1) = (n + k - 1) % S
  <2>1. k - 1 \in Nat /\ n + (k - 1) = n + k - 1
    BY <1>1
  <2>2. ((n % S) + (k - 1)) % S = (n + (k - 1)) % S
    BY <1>1, <2>1, RemainderOfSum
  <2>. QED  BY <1>1, <2>1, <2>2 DEF CacheSlot, S
<1>9. \A i : PushesOnto(i, ids) = {k \in 1 .. d : (n + k - 1) % S = i}
  <2>1. DOMAIN ids = 1 .. d
    BY DEF d
  <2>. QED  BY <1>8, <2>1 DEF PushesOnto
<1>10. \A a \in Nat : a % S \in 0 .. S - 1
  BY <1>1
\* The message at place x of what was cached and pushed.
<1>11. ASSUME NEW x \in 1 .. m, m - S < x
       PROVE  cache'[(n - cached + x - 1) % S] = s[x]
  <2>. DEFINE t == n - cached + x - 1
              i == t % S
  <2>1. t \in Nat
    BY <1>1
  <2>2. i \in 0 .. S - 1
    BY <1>10, <2>1
  <2>. HIDE DEF i
  <2>3. CASE x <= cached
    <3>1. ASSUME NEW k \in 1 .. d, (n + k - 1) % S = i PROVE FALSE
      <4>. DEFINE u == n + k - 1
      <4>1. u \in Nat /\ t < u /\ ~(S <= u - t)
        <5>1. x <= cached /\ cached + d - S < x /\ k >= 1 /\ k <= d
          BY <1>1, <1>11, <2>3 DEF m
        <5>2. u \in Nat /\ u - t = cached + k - x /\ x \in Nat
          BY <1>1, <5>1
        <5>. QED  BY <1>1, <2>1, <5>1, <5>2
      <4>2. t % S = u % S
        BY <3>1 DEF i
      <4>. HIDE DEF t, u
      <4>. QED  BY <1>1, <2>1, <4>1, <4>2, SameRemainder
    <3>2. PushesOnto(i, ids) = {}
      BY <1>9, <3>1
    <3>3. cache'[i] = cache[i]
      BY <1>3, <2>2, <3>2
    <3>4. cache[i] = pushes[x] /\ s[x] = pushes[x]
      <4>1. x \in 1 .. cached
        BY <1>1, <2>3
      <4>2. cache[t % S] = pushes[x]
        BY <1>2, <4>1
      <4>. QED  BY <1>6, <4>1, <4>2 DEF i
    <3>. QED  BY <3>3, <3>4 DEF i
  <2>4. CASE x > cached
    <3>. DEFINE y == x - cached
    <3>1. y \in 1 .. d /\ s[x] = ids[y] /\ t = n + y - 1
      <4>1. x \in cached + 1 .. m
        BY <1>1, <2>4
      <4>2. t = n + y - 1
        BY <1>1
      <4>. QED  BY <1>6, <4>1, <4>2
    <3>2. ASSUME NEW k \in 1 .. d, (n + k - 1) % S = i, y < k PROVE FALSE
      <4>. DEFINE u == n + k - 1
      <4>1. u \in Nat /\ t < u /\ ~(S <= u - t)
        BY <1>1, <1>11, <3>1, <3>2 DEF m
      <4>2. t % S = u % S
        BY <3>2 DEF i
      <4>. HIDE DEF t, u
      <4>. QED  BY <1>1, <2>1, <4>1, <4>2, SameRemainder
    <3>. HIDE DEF y
    <3>3. y \in PushesOnto(i, ids)
      BY <1>9, <3>1 DEF i
    <3>4. PushesOnto(i, ids) \subseteq Nat /\ \A k \in PushesOnto(i, ids) : k <= y
      <4>1. \A k \in PushesOnto(i, ids) : k \in 1 .. d /\ (n + k - 1) % S = i
        BY <1>9
      <4>2. \A k \in 1 .. d : k \in Nat /\ (y < k \/ k <= y)
        BY <1>1, <3>1
      <4>. QED  BY <3>2, <4>1, <4>2
    <3>5. Max(PushesOnto(i, ids)) = y
      BY <3>3, <3>4, MaxIs
    <3>6. cache'[i] = ids[y]
      BY <1>3, <2>2, <3>3, <3>5
    <3>. QED  BY <3>1, <3>6 DEF i
  <2>. QED  BY <1>1, <2>3, <2>4
<1>12. ASSUME NEW k \in 1 .. l PROVE cache'[(n + d - l + k - 1) % S] = Latest(s)[k]
  <2>. DEFINE x == m - l + k
  <2>1. x \in 1 .. m /\ m - S < x /\ n - cached + x - 1 = n + d - l + k - 1
    BY <1>1, <1>7 DEF m
  <2>2. Latest(s)[k] = s[x]
    BY <1>7
  <2>. HIDE DEF x
  <2>. QED  BY <1>11, <2>1, <2>2
<1>13. cache' \in [0 .. S - 1 -> Nat]
  <2>1. ASSUME NEW i \in 0 .. S - 1, PushesOnto(i, ids) # {} PROVE ids[Max(PushesOnto(i, ids))] \in Nat
    <3>. DEFINE O == PushesOnto(i, ids)
    <3>1. O \subseteq 1 .. d /\ O # {}
      BY <1>9, <2>1
    <3>. HIDE DEF O
    <3>2. PICK y \in O : \A k \in O : k <= y
      BY <1>1, <3>1, Greatest
    <3>3. Max(O) = y /\ y \in 1 .. d
      
      <4>1. O \subseteq Nat
        BY <1>1, <3>1
      <4>. QED  BY <3>1, <3>2, <4>1, MaxIs
    <3>. QED  BY <3>3 DEF d, O
  <2>. QED  BY <1>2, <1>3, <2>1
<1>14. \A k \in 1 .. cached' : cache'[(n + d - cached' + k - 1) % S] = pushes'[k]
  BY <1>3, <1>12
<1>15. pushes' \in Seq(Nat) /\ Len(pushes') = cached'
  BY <1>3, <1>7
<1>16. cached' = IF n + d < S THEN n + d ELSE S
  BY <1>3, <1>5
<1>. DEFINE e == n + d
<1>17. /\ head' = e % S /\ cached' = (IF e < S THEN e ELSE S)
  BY <1>4, <1>16
<1>18. \A k \in 1 .. cached' : cache'[(e - cached' + k - 1) % S] = pushes'[k]
  <2>1. cached' \in Nat
    BY <1>1, <1>16
  <2>2. \A k \in 1 .. cached' : e - cached' + k - 1 = n + d - cached' + k - 1
    BY <1>1, <2>1
  <2>. QED  BY <1>14, <2>2
<1>. HIDE DEF e
<1>19. HoldsLatest(e, cache', head', cached', pushes')
  BY <1>13, <1>15, <1>17, <1>18 DEF HoldsLatest, S
<1>. QED  BY <1>19 DEF e, d

\* What rust_discord_get_channel_messages pushes.
ListsOK == /\ channel \in Seq(Message) /\ posted \in Nat /\ says \in BOOLEAN

TablesInv == ModuleInv /\ ListsOK /\ CacheInv

LEMMA PostLists ==
    ASSUME ListsOK, NEW n \in Nat, NEW own \in BOOLEAN, NEW t \in BOOLEAN, Post(n, own, t)
    PROVE  channel' \in Seq(Message) /\ posted' \in Nat
<1>. DEFINE new == [j \in 1 .. n |-> [id |-> posted + j, trigger |-> t, own |-> own]]
<1>1. posted \in Nat /\ channel \in Seq(Message) /\ posted' = posted + n /\ channel' = channel \o new
  BY DEF ListsOK, Post
<1>2. new \in Seq(Message)
  <2>1. \A j \in 1 .. n : [id |-> posted + j, trigger |-> t, own |-> own] \in Message
    BY <1>1 DEF Message
  <2>. QED  BY <2>1
<1>. HIDE DEF new
<1>. QED  BY <1>1, <1>2

LEMMA FetchedEntries ==
    ASSUME ListsOK, NEW limit \in Nat \ {0}
    PROVE  Entries(LastOf(channel, limit)) \in Seq(Nat)
<1>. DEFINE a == IF Len(channel) > limit THEN Len(channel) - limit + 1 ELSE 1
            s == SubSeq(channel, a, Len(channel))
<1>1. channel \in Seq(Message) /\ Len(channel) \in Nat
  BY DEF ListsOK
<1>2. a \in Int /\ \A i \in a .. Len(channel) : i \in 1 .. Len(channel)
  BY <1>1
<1>3. \A i \in a .. Len(channel) : channel[i] \in Message
  BY <1>1, <1>2
<1>. HIDE DEF a
<1>4. s \in Seq(Message)
  BY <1>1, <1>2, <1>3, SubSeqProperties
<1>5. LastOf(channel, limit) = s
  BY DEF LastOf, a
<1>. HIDE DEF s
<1>6. /\ Entries(s) = [d \in 1 .. Len(s) |-> ArrayElement(s, Len(s) - d)] /\ Len(s) \in Nat
      /\ \A i \in 1 .. Len(s) : s[i].id \in Nat
  <2>1. \A i \in 1 .. Len(s) : s[i] \in Message
    BY <1>4
  <2>. QED  BY <1>4, <2>1 DEF Entries, Message
<1>7. ASSUME NEW d \in 1 .. Len(s) PROVE ArrayElement(s, Len(s) - d) \in Nat
  <2>1. \A n \in Nat, r \in Nat \ {0} :
            \A x \in 1 .. n : n - ((n - x) \div r) \in 1 .. n
    <3>. TAKE n \in Nat, r \in Nat \ {0}
    <3>. TAKE x \in 1 .. n
    <3>1. n - x \in Nat /\ n - x < n
      OBVIOUS
    <3>2. (n - x) \div r \in 0 .. n - x
      BY <3>1, QuotientIsLess
    <3>. QED  BY <3>1, <3>2
  <2>2. Len(s) - (Len(s) - d) \div MessageValues \in 1 .. Len(s)
    BY <1>6, <2>1, DiscordAssumption
  <2>. QED  BY <1>6, <2>2 DEF ArrayElement
<1>8. Entries(s) \in Seq(Nat)
  BY <1>6, <1>7
<1>. QED  BY <1>5, <1>8

LEMMA TablesInit == DiscordInit => TablesInv
<1>. SUFFICES ASSUME DiscordInit PROVE TablesInv
  OBVIOUS
<1>1. /\ names \in NameSets /\ modules = <<>> /\ given = [n \in ModuleNames |-> {}]
      /\ channel = <<>> /\ posted = 0 /\ says \in BOOLEAN
      /\ cache = [i \in 0 .. MSG_CACHE_SIZE - 1 |-> 0] /\ head = 0 /\ cached = 0 /\ pushes = <<>>
  BY DEF DiscordInit
<1>2. ModuleInv
  BY <1>1 DEF ModuleInv, ListsWhatWasGiven
<1>3. ListsOK
  BY <1>1 DEF ListsOK
<1>4. CacheInv
  <2>1. 0 % MSG_CACHE_SIZE = 0 /\ 0 < MSG_CACHE_SIZE
    BY DiscordAssumption
  <2>2. HoldsLatest(0, cache, head, cached, pushes)
    BY <1>1, <2>1 DEF HoldsLatest
  <2>. QED  BY <2>2 DEF CacheInv
<1>. QED  BY <1>2, <1>3, <1>4 DEF TablesInv

LEMMA TablesStep == TablesInv /\ [DiscordNext]_discordVars => TablesInv'
<1>. SUFFICES ASSUME ModuleInv, ListsOK, CacheInv, [DiscordNext]_discordVars
              PROVE  ModuleInv' /\ ListsOK' /\ CacheInv'
  BY DEF TablesInv
<1>1. UNCHANGED <<names, modules, given>> => ModuleInv'
  BY DEF ModuleInv
<1>2. UNCHANGED <<channel, posted, says>> => ListsOK'
  BY DEF ListsOK
<1>3. UNCHANGED <<cache, head, cached, pushes>> => CacheInv'
  BY DEF CacheInv
<1>4. ASSUME NEW n \in Copies, NEW own \in BOOLEAN, NEW t \in BOOLEAN, Post(n, own, t), says' = says
      PROVE  ListsOK'
  <2>1. n \in Nat
    BY DiscordAssumption
  <2>. QED  BY <1>4, <2>1, PostLists DEF ListsOK
<1>5. ASSUME NEW n \in names, \/ rust_discord_set_module(n) \/ rust_discord_config_module(n)
                              \/ rust_discord_remove_module(n)
      PROVE  ModuleInv' /\ ListsOK' /\ CacheInv'
  <2>1. UNCHANGED <<channelVars, autoVars, cacheVars>>
    BY <1>5 DEF rust_discord_set_module, rust_discord_config_module, rust_discord_remove_module
  <2>2. ModuleInv'
    BY <1>5, SetModuleKeeps, ConfigKeeps, RemoveKeeps
  <2>. QED  BY <1>2, <1>3, <2>1, <2>2 DEF channelVars, autoVars, cacheVars
<1>6. ASSUME NEW n \in names, run_send_emoji(n) \/ run_send(n)
      PROVE  ModuleInv' /\ ListsOK' /\ CacheInv'
  <2>1. UNCHANGED <<tableVars, autoVars, cacheVars>>
    BY <1>6 DEF run_send_emoji, run_send
  <2>2. (\E code : Posts(FALSE, code)) \/ UNCHANGED <<channel, posted>>
    BY <1>6 DEF run_send_emoji, run_send
  <2>3. says' = says
    BY <2>1 DEF autoVars
  <2>4. ListsOK'
    <3>1. CASE UNCHANGED <<channel, posted>>
      BY <1>2, <2>3, <3>1
    <3>2. CASE \E code : Posts(FALSE, code)
      <4>1. PICK k \in Copies : Post(k, TRUE, FALSE)
        BY <3>2 DEF Posts
      <4>. QED  BY <1>4, <2>3, <4>1
    <3>. QED  BY <2>2, <3>1, <3>2
  <2>. QED  BY <1>1, <1>3, <2>1, <2>4 DEF tableVars, cacheVars
<1>7. ASSUME NEW n \in names, run_delete(n) PROVE ModuleInv' /\ ListsOK' /\ CacheInv'
  <2>1. UNCHANGED <<tableVars, posted, autoVars, cacheVars>>
    BY <1>7 DEF run_delete
  <2>2. channel' = channel \/ \E i \in DOMAIN channel : channel' = RemoveAt(channel, i)
    BY <1>7 DEF run_delete, rust_discord_delete_message
  <2>3. ASSUME NEW i \in DOMAIN channel PROVE RemoveAt(channel, i) \in Seq(Message)
    <3>1. channel \in Seq(Message) /\ Len(channel) \in Nat /\ i \in 1 .. Len(channel)
      BY DEF ListsOK
    <3>2. SubSeq(channel, 1, i - 1) \in Seq(Message)
      <4>1. \A j \in 1 .. i - 1 : channel[j] \in Message
        BY <3>1
      <4>. QED  BY <3>1, <4>1, SubSeqProperties
    <3>3. SubSeq(channel, i + 1, Len(channel)) \in Seq(Message)
      <4>1. \A j \in i + 1 .. Len(channel) : channel[j] \in Message
        BY <3>1
      <4>. QED  BY <3>1, <4>1, SubSeqProperties
    <3>. QED  BY <3>2, <3>3 DEF RemoveAt
  <2>4. channel' \in Seq(Message)
    BY <2>2, <2>3 DEF ListsOK
  <2>. QED  BY <1>1, <1>3, <2>1, <2>4 DEF tableVars, autoVars, cacheVars, ListsOK
<1>8. ASSUME NEW n \in names, NEW limit \in 1 .. MaxMessages, run_fetch(n, limit)
      PROVE  ModuleInv' /\ ListsOK' /\ CacheInv'
  <2>1. UNCHANGED <<tableVars, channelVars, autoVars>>
    BY <1>8 DEF run_fetch
  <2>2. CachePushes(Entries(LastOf(channel, limit))) \/ UNCHANGED cacheVars
    BY <1>8 DEF run_fetch, rust_discord_get_channel_messages
  <2>3. ASSUME CachePushes(Entries(LastOf(channel, limit))) PROVE CacheInv'
    <3>1. limit \in Nat \ {0}
      OBVIOUS
    <3>2. PICK ids \in Seq(Nat) : CachePushes(ids)
      BY <2>3, <3>1, FetchedEntries
    <3>3. PICK k \in Nat : HoldsLatest(k, cache, head, cached, pushes)
      BY DEF CacheInv
    <3>4. HoldsLatest(k + Len(ids), cache', head', cached', pushes') /\ k + Len(ids) \in Nat
      BY <3>2, <3>3, PushesKeep
    <3>. QED  BY <3>4 DEF CacheInv
  <2>. QED  BY <1>1, <1>2, <1>3, <2>1, <2>2, <2>3 DEF tableVars, channelVars, autoVars, cacheVars
<1>9. ASSUME NEW n \in names, run_refused(n) \/ run_react(n) \/ run_auto_reply(n)
      PROVE  ModuleInv' /\ ListsOK' /\ CacheInv'
  <2>1. UNCHANGED <<tableVars, channelVars, says, cacheVars>>
    BY <1>9 DEF run_refused, run_react, run_auto_reply, autoVars
  <2>. QED  BY <1>1, <1>2, <1>3, <2>1 DEF tableVars, channelVars, cacheVars
<1>10. CASE others_post \/ auto_reply
  <2>1. UNCHANGED <<tableVars, says, cacheVars>>
    BY <1>10 DEF others_post, auto_reply, autoVars
  <2>2. ListsOK'
    <3>1. CASE others_post
      <4>1. PICK t \in BOOLEAN : Post(1, FALSE, t)
        BY <3>1 DEF others_post
      <4>. QED  BY <2>1, <4>1, PostLists DEF ListsOK
    <3>2. CASE auto_reply
      <4>1. PICK k \in Copies : Post(k, TRUE, says)
        BY <3>2 DEF auto_reply
      <4>2. says \in BOOLEAN
        BY DEF ListsOK
      <4>. QED  BY <1>4, <2>1, <4>1, <4>2
    <3>. QED  BY <1>10, <3>1, <3>2
  <2>. QED  BY <1>1, <1>3, <2>1, <2>2 DEF tableVars, cacheVars
<1>11. CASE auto_poll \/ auto_stops \/ UNCHANGED discordVars
  <2>1. UNCHANGED <<tableVars, channelVars, says, cacheVars>>
    BY <1>11 DEF auto_poll, auto_stops, discordVars, autoVars
  <2>. QED  BY <1>1, <1>2, <1>3, <2>1 DEF tableVars, channelVars, cacheVars
<1>. QED  BY <1>5, <1>6, <1>7, <1>8, <1>9, <1>10, <1>11 DEF DiscordNext

\* The module table lists every module once and with the parameters its user
\* gave it, whatever was removed in front of it (rust_discord_remove_module), and
\* the message cache keeps the entries pushed last, in their order and from its head
\* on once it is full (cache_push_message), whatever a fetch pushes.
THEOREM TablesStayIntact == DiscordSpec => []TablesIntact
<1>1. TablesInv => TablesIntact
  <2>. SUFFICES ASSUME ModuleInv, CacheInv PROVE TablesIntact
    BY DEF TablesInv
  <2>1. ListsWhatWasGiven(modules, given) /\ DOMAIN modules = 1 .. Len(modules)
    BY DEF ModuleInv, ListsWhatWasGiven
  <2>2. ASSUME NEW n \in ModuleNames, given[n] # {} PROVE module_find(n) # 0
    BY <2>1, <2>2, FindIs DEF ListsWhatWasGiven
  <2>3. PICK n \in Nat : HoldsLatest(n, cache, head, cached, pushes)
    BY DEF CacheInv
  <2>. DEFINE S == MSG_CACHE_SIZE
  <2>4. /\ S \in Nat \ {0} /\ cached \in Nat /\ cached = Len(pushes) /\ head = n % S
        /\ cached = (IF n < S THEN n ELSE S)
        /\ \A k \in 1 .. cached : cache[(n - cached + k - 1) % S] = pushes[k]
    BY <2>3, DiscordAssumption DEF HoldsLatest
  <2>. HIDE DEF S
  <2>5. ASSUME NEW k \in 1 .. cached
        PROVE  cache[IF cached < S THEN k - 1 ELSE (head + k - 1) % S] = pushes[k]
    <3>1. CASE cached < S
      <4>1. n - cached + k - 1 = k - 1 /\ k - 1 \in 0 .. S - 1
        BY <2>4, <3>1
      <4>2. (k - 1) % S = k - 1
        BY <2>4, <4>1
      <4>. QED  BY <2>4, <3>1, <4>1, <4>2
    <3>2. CASE ~(cached < S)
      <4>. DEFINE x == n - cached + k - 1
      <4>1. cached = S /\ x \in Nat /\ k - 1 \in Nat /\ x + S = n + (k - 1)
        BY <2>4, <3>2
      <4>. HIDE DEF x
      <4>2. (x + S) % S = x % S
        BY <2>4, <4>1, RemainderOfSum
      <4>3. (head + (k - 1)) % S = (n + (k - 1)) % S
        BY <2>4, <4>1, RemainderOfSum
      <4>4. head + k - 1 = head + (k - 1)
        OBVIOUS
      <4>. QED  BY <2>4, <3>2, <4>1, <4>2, <4>3, <4>4 DEF x
    <3>. QED  BY <3>1, <3>2
  <2>. QED  BY <2>1, <2>2, <2>4, <2>5 DEF TablesIntact, ListsWhatWasGiven, S
<1>. QED  BY <1>1, TablesInit, TablesStep, PTL DEF DiscordSpec

-----------------------------------------------------------------------------
(* The clients on the one connection.                                      *)

\* get_unique_port finds a port not used lately, and need not fall back on one
\* that was.
PortIsFree == tcp_connect => \E n \in 1 .. PORT_TRIES : PortAfter(n) \notin in_use

Asked == Clients \cup {"get"}
Peer  == [client : Asked, port : Nat,
          did : {"nothing", "refused", "accepted", "answered", "served"},
          asked : BOOLEAN, form : {"close", "chunked", "spaced", "tight"},
          status : {"ok", "limited", "refused", "failed"}]
WireFrame == [cid : Nat, what : {"other", "rst", "synack", "data", "fin"} \cup Asked, seg : Nat]

\* A frame of an exchange came from its peer.
FrameOK(f, p) ==
    f.cid # 0 => /\ f.cid \in DOMAIN p
                 /\ IF f.what = "synack"
                    THEN p[f.cid].did \in {"accepted", "served"}
                    ELSE p[f.cid].did \in {"refused", "answered", "served"}
                 /\ f.seg # 0 => p[f.cid].did = "served"
FramesOK(s, p) == s \in Seq(WireFrame) /\ \A i \in 1 .. Len(s) : FrameOK(s[i], p)

\* No two connections have the same port; an exchange without one has port 0.
PortsApart(p) == \A c, d \in DOMAIN p : p[c].port # 0 /\ p[c].port = p[d].port => c = d

\* The port of every connection is marked as used.
Marked == \A c \in DOMAIN peer : peer[c].port \in {0} \cup in_use

WireInv ==
    /\ peer \in Seq(Peer) /\ PortsApart(peer) /\ Marked
    /\ cid \in 1 .. Len(peer) /\ last_port \in Nat \ {0}
    /\ tcp \in [state : {"Closed", "SynSent", "Established"}, port : Nat]
    /\ FramesOK(ring, peer) /\ FramesOK(rx, peer) /\ FramesOK(http, peer)

\* The connection is the exchange's, and what a client has received for this
\* request starts with a frame of it.
OnPort == client \in Tcps /\ at \in {"syn", "send", "recv"}
              => tcp.port = peer[cid].port /\ tcp.port # 0
FreshIsOwn ==
    /\ fresh \in Nat /\ fresh <= Len(http)
    /\ fresh # 0 => http[Len(http) - fresh + 1].cid = cid
    /\ client # "download" => fresh = Len(http)
StartsOwn == client \in Tcps /\ at \in {"recv", "close", "abort"} => FreshIsOwn

\* The status a client will go by is its own peer's once it has a status line, and
\* without one still comes from that peer unless padding is all there is.
LineOwn == client \in Retried /\ at \in {"recv", "close"} /\ http # <<>> =>
    /\ http[1].seg = 1 => peer[cid].did = "served" /\ line = peer[cid].status
    /\ line # "none" => AllPadding(http) \/ peer[cid].did = "served"
Ended == at = "idle" =>
    /\ outcome = "ok" /\ client \in Tcps \ {"download"} => http[1].cid = cid
    /\ outcome = "ok" /\ client = "download" => http[Len(http) - fresh + 1].cid = cid
    /\ outcome = "ok" /\ client = "dns" => rx[1].cid = cid
    /\ client \in Retried /\ outcome \in {"ok", "refused"} =>
          /\ AllPadding(http) \/ peer[cid].did = "served"
          /\ http[1].seg = 1 => peer[cid].did = "served" /\ peer[cid].status = outcome

\* What holds of the request at hand; only ntfy has something to post.
Claims    == /\ OnPort /\ HandshakeFresh /\ StartsOwn /\ LineOwn /\ Ended
             /\ at = "post" => client = "ntfy"
LegacyInv == WireInv /\ client \in Asked /\ Claims

\* What peers did stays done.
Onward(v, w) ==
    /\ w.port = v.port
    /\ v.did \in {"accepted", "served"} => w.did \in {"accepted", "served"}
    /\ v.did \in {"refused", "answered", "served"} => w.did = v.did
    /\ v.did = "served" => w.status = v.status
Later(p, q) ==
    /\ q \in Seq(Peer) /\ Len(p) <= Len(q)
    /\ \A c \in 1 .. Len(p) : Onward(p[c], q[c])

LEMMA FramesLater ==
    ASSUME NEW p \in Seq(Peer), NEW q, Later(p, q), NEW s, FramesOK(s, p)
    PROVE  FramesOK(s, q)
<1>1. /\ DOMAIN p = 1 .. Len(p) /\ DOMAIN q = 1 .. Len(q) /\ Len(p) \in Nat /\ Len(q) \in Nat
      /\ \A c \in 1 .. Len(p) : c \in 1 .. Len(q)
  BY DEF Later
<1>2. ASSUME NEW i \in 1 .. Len(s) PROVE FrameOK(s[i], q)
  <2>1. FrameOK(s[i], p)
    BY DEF FramesOK
  <2>. QED  BY <1>1, <2>1 DEF FrameOK, Later, Onward
<1>. QED  BY <1>2 DEF FramesOK

LEMMA NoFrames == ASSUME NEW p PROVE FramesOK(<<>>, p)
BY DEF FramesOK

LEMMA JoinedFrames ==
    ASSUME NEW p, NEW s, NEW t, FramesOK(s, p), FramesOK(t, p)
    PROVE  FramesOK(s \o t, p)
<1>. DEFINE a == Len(s)
            d == Len(t)
<1>1. s \in Seq(WireFrame) /\ t \in Seq(WireFrame) /\ a \in Nat /\ d \in Nat
  BY DEF FramesOK
<1>2. /\ s \o t \in Seq(WireFrame) /\ Len(s \o t) = a + d
      /\ \A i \in 1 .. a : (s \o t)[i] = s[i]
      /\ \A i \in a + 1 .. a + d : (s \o t)[i] = t[i - a] /\ i - a \in 1 .. d
  BY <1>1, Joined
<1>3. \A i \in 1 .. a + d : i \in 1 .. a \/ i \in a + 1 .. a + d
  BY <1>1
<1>4. \A i \in 1 .. a + d : FrameOK((s \o t)[i], p)
  BY <1>2, <1>3 DEF FramesOK
<1>. QED  BY <1>2, <1>4 DEF FramesOK

LEMMA SomeFrames ==
    ASSUME NEW p, NEW s, FramesOK(s, p), NEW n \in Int, n <= Len(s)
    PROVE  FramesOK(SubSeq(s, 1, n), p)
<1>1. s \in Seq(WireFrame) /\ Len(s) \in Nat /\ \A i \in 1 .. Len(s) : FrameOK(s[i], p)
  BY DEF FramesOK
<1>2. \A i \in 1 .. n : i \in 1 .. Len(s) /\ s[i] \in WireFrame
  BY <1>1
<1>. DEFINE t == SubSeq(s, 1, n)
<1>3. /\ t \in Seq(WireFrame) /\ Len(t) = (IF 1 <= n THEN n - 1 + 1 ELSE 0)
      /\ \A i \in 1 .. n - 1 + 1 : t[i] = s[1 + i - 1]
  BY <1>2, SubSeqProperties
<1>. HIDE DEF t
<1>4. \A i \in 1 .. Len(t) : i \in 1 .. n /\ t[i] = s[i]
  BY <1>3
<1>. QED  BY <1>1, <1>2, <1>3, <1>4 DEF FramesOK, t

LEMMA TailFrames ==
    ASSUME NEW p, NEW s, FramesOK(s, p), s # <<>>
    PROVE  FramesOK(Tail(s), p) /\ FrameOK(Head(s), p) /\ Head(s) \in WireFrame /\ Head(s) = s[1]
<1>1. s \in Seq(WireFrame) /\ Len(s) \in Nat \ {0} /\ \A i \in 1 .. Len(s) : FrameOK(s[i], p)
  BY DEF FramesOK
<1>2. /\ Tail(s) \in Seq(WireFrame) /\ Len(Tail(s)) = Len(s) - 1
      /\ \A i \in 1 .. Len(s) - 1 : Tail(s)[i] = s[i + 1]
  BY <1>1
<1>3. \A i \in 1 .. Len(s) - 1 : i + 1 \in 1 .. Len(s)
  BY <1>1
<1>4. Head(s) = s[1] /\ s[1] \in WireFrame /\ 1 \in 1 .. Len(s)
  BY <1>1
<1>. QED  BY <1>1, <1>2, <1>3, <1>4 DEF FramesOK

LEMMA LeastOfTwo ==
    ASSUME NEW x \in Int, NEW y \in Int
    PROVE  Min({x, y}) = IF x <= y THEN x ELSE y
<1>1. CASE x <= y
  <2>1. \A z : (z \in {x, y} /\ \A w \in {x, y} : z <= w) <=> z = x
    BY <1>1
  <2>2. Min({x, y}) = x
    BY <2>1, Zenon DEF Min
  <2>. QED  BY <1>1, <2>2
<1>2. CASE ~(x <= y)
  <2>1. \A z : (z \in {x, y} /\ \A w \in {x, y} : z <= w) <=> z = y
    BY <1>2
  <2>2. Min({x, y}) = y
    BY <2>1, Zenon DEF Min
  <2>. QED  BY <1>2, <2>2
<1>. QED  BY <1>1, <1>2

\* The batch a poll takes: not empty when the ring is not.
LEMMA BatchIs ==
    ASSUME WireInv, ring # <<>>
    PROVE  FramesOK(Batch, peer) /\ Batch # <<>>
<1>. DEFINE n == Len(ring)
            r == ResponseFrames - Len(rx)
            m == Min({n, r})
<1>1. /\ FramesOK(ring, peer) /\ FramesOK(rx, peer) /\ n \in Nat \ {0} /\ Len(rx) \in Nat
      /\ r \in Int /\ ring \in Seq(WireFrame) /\ rx \in Seq(WireFrame)
  BY LegacyAssumption DEF WireInv, FramesOK
<1>2. m = (IF n <= r THEN n ELSE r)
  BY <1>1, LeastOfTwo
<1>. HIDE DEF m
<1>3. m \in Int /\ m <= n
  BY <1>1, <1>2
<1>. DEFINE t == SubSeq(ring, 1, m)
<1>4. FramesOK(t, peer)
  BY <1>1, <1>3, SomeFrames
<1>5. Batch = rx \o t
  BY DEF Batch, Received, m
<1>6. FramesOK(Batch, peer)
  BY <1>1, <1>4, <1>5, JoinedFrames
<1>7. Batch # <<>>
  <2>1. CASE rx # <<>>
    <3>1. Len(rx) # 0
      BY <1>1, <2>1
    <3>2. t \in Seq(WireFrame)
      BY <1>4 DEF FramesOK
    <3>. HIDE DEF t
    <3>3. Len(Batch) = Len(rx) + Len(t) /\ Len(t) \in Nat
      BY <1>1, <1>5, <3>2
    <3>. QED  BY <1>1, <3>1, <3>3
  <2>2. CASE rx = <<>>
    <3>1. 1 <= m
      BY <1>1, <1>2, <2>2, LegacyAssumption
    <3>2. \A i \in 1 .. m : ring[i] \in WireFrame
      BY <1>1, <1>3
    <3>3. Len(t) = m - 1 + 1 /\ t \in Seq(WireFrame)
      BY <1>3, <3>1, <3>2, SubSeqProperties
    <3>. HIDE DEF t
    <3>4. Batch = t
      BY <1>5, <2>2, <3>3
    <3>. QED  BY <1>3, <3>1, <3>3, <3>4
  <2>. QED  BY <2>1, <2>2
<1>. QED  BY <1>6, <1>7

\* What is received goes behind what there was.
LEMMA AppendedIs ==
    ASSUME WireInv, NEW s, FramesOK(s, peer), s # <<>>
    PROVE  /\ FramesOK(Appended(s), peer)
           /\ Len(http) <= Len(Appended(s)) /\ Len(Appended(s)) <= Len(http) + Len(s)
           /\ \A i \in 1 .. Len(http) : Appended(s)[i] = http[i]
           /\ Len(Appended(s)) # Len(http) => Appended(s)[Len(http) + 1] = s[1]
<1>. DEFINE r == HttpFrames - Len(http)
            m == Min({Len(s), r})
            h == Len(http)
<1>1. /\ http \in Seq(WireFrame) /\ s \in Seq(WireFrame) /\ h \in Nat
      /\ Len(s) \in Nat \ {0} /\ r \in Int /\ FramesOK(http, peer)
  BY LegacyAssumption DEF WireInv, FramesOK
<1>2. ASSUME NEW t, FramesOK(t, peer), t # <<>> => t[1] = s[1], Len(t) <= Len(s)
      PROVE  /\ FramesOK(http \o t, peer)
             /\ h <= Len(http \o t) /\ Len(http \o t) <= h + Len(s)
             /\ \A i \in 1 .. h : (http \o t)[i] = http[i]
             /\ Len(http \o t) # h => (http \o t)[h + 1] = s[1]
  <2>1. t \in Seq(WireFrame) /\ Len(t) \in Nat
    BY <1>2 DEF FramesOK
  <2>2. FramesOK(http \o t, peer)
    BY <1>1, <1>2, JoinedFrames
  <2>3. /\ Len(http \o t) = h + Len(t)
        /\ \A i \in 1 .. h : (http \o t)[i] = http[i]
        /\ \A i \in h + 1 .. h + Len(t) : (http \o t)[i] = t[i - h]
    BY <1>1, <2>1, Joined
  <2>4. Len(t) # 0 => (http \o t)[h + 1] = s[1]
    <3>1. Len(t) # 0 => h + 1 \in h + 1 .. h + Len(t) /\ h + 1 - h = 1 /\ t # <<>>
      BY <1>1, <2>1
    <3>. QED  BY <1>2, <2>3, <3>1
  <2>. QED  BY <1>1, <1>2, <2>1, <2>2, <2>3, <2>4
<1>3. m = (IF Len(s) <= r THEN Len(s) ELSE r)
  BY <1>1, LeastOfTwo
<1>. HIDE DEF m
<1>4. m \in Int /\ m <= Len(s)
  BY <1>1, <1>3
<1>. DEFINE u == SubSeq(s, 1, m)
<1>5. FramesOK(u, peer) /\ (u # <<>> => u[1] = s[1]) /\ Len(u) <= Len(s)
  <2>1. FramesOK(u, peer)
    BY <1>4, SomeFrames
  <2>2. \A i \in 1 .. m : s[i] \in WireFrame
    BY <1>1, <1>4
  <2>3. /\ u \in Seq(WireFrame) /\ Len(u) = (IF 1 <= m THEN m - 1 + 1 ELSE 0)
        /\ \A i \in 1 .. m - 1 + 1 : u[i] = s[1 + i - 1]
    BY <1>4, <2>2, SubSeqProperties
  <2>. HIDE DEF u
  <2>4. u # <<>> => 1 <= m
    BY <1>4, <2>3
  <2>5. 1 <= m => u[1] = s[1]
    BY <1>4, <2>3
  <2>. QED  BY <1>1, <1>4, <2>1, <2>3, <2>4, <2>5
<1>6. Appended(s) \in {http, http \o s, http \o u}
  BY DEF Appended, m, r
<1>. HIDE DEF u
<1>7. CASE Appended(s) = http
  BY <1>1, <1>7
<1>8. CASE Appended(s) = http \o s
  BY <1>1, <1>2, <1>8
<1>9. CASE Appended(s) = http \o u
  BY <1>2, <1>5, <1>9
<1>. QED  BY <1>6, <1>7, <1>8, <1>9

\* The first frame of a batch that a client takes for its own is its own.
LEMMA OursIsOwn ==
    ASSUME WireInv, OnPort, client \in Tcps, at = "recv", NEW f, FrameOK(f, peer), Ours(f)
    PROVE  f.cid = cid
<1>1. f.cid # 0 /\ peer[f.cid].port = tcp.port /\ f.cid \in DOMAIN peer /\ cid \in DOMAIN peer
  BY DEF Ours, FrameOK, WireInv
<1>2. tcp.port = peer[cid].port /\ tcp.port # 0
  BY DEF OnPort
<1>. QED  BY <1>1, <1>2 DEF WireInv, PortsApart

LEMMA LeastPortIs ==
    ASSUME NEW U \in SUBSET Nat, U # {} PROVE Min(U) \in U
<1>1. PICK x \in U : \A y \in U : ~(<<y, x>> \in OpToRel(<, Nat))
  BY NatLessThanWellFounded, WFMin, Zenon
<1>2. ASSUME NEW y \in U PROVE x <= y
  <2>1. x \in Nat /\ y \in Nat
    OBVIOUS
  <2>2. ~(y < x)
    BY <1>1, <2>1 DEF OpToRel
  <2>. QED  BY <2>1, <2>2
<1>. QED  BY <1>2 DEF Min

\* A port that was found is nobody's.
LEMMA PortIsNew ==
    ASSUME WireInv, \E n \in 1 .. PORT_TRIES : PortAfter(n) \notin in_use
    PROVE  /\ get_unique_port \in Nat \ {0}
           /\ \A c \in DOMAIN peer : peer[c].port # get_unique_port
<1>. DEFINE U == {n \in 1 .. PORT_TRIES : PortAfter(n) \notin in_use}
<1>1. ASSUME NEW n \in Nat PROVE PortAfter(n) \in Nat \ {0}
  <2>1. last_port - 1 + n \in Nat
    BY DEF WireInv
  <2>2. (last_port - 1 + n) % NumPorts \in Nat
    BY <2>1, LegacyAssumption
  <2>. QED  BY <2>2 DEF PortAfter
<1>2. U \in SUBSET Nat /\ U # {} /\ \A n \in U : PortAfter(n) \notin in_use
  OBVIOUS
<1>3. get_unique_port = PortAfter(IF U # {} THEN Min(U) ELSE PORT_TRIES + 1)
  BY DEF get_unique_port
<1>. HIDE DEF U
<1>4. Min(U) \in U
  BY <1>2, LeastPortIs
<1>5. get_unique_port \in Nat \ {0} /\ get_unique_port \notin in_use
  BY <1>1, <1>2, <1>3, <1>4
<1>6. \A c \in DOMAIN peer : peer[c].port \in {0} \cup in_use
  BY DEF WireInv, Marked
<1>. QED  BY <1>5, <1>6

-----------------------------------------------------------------------------
(* Steps of peers and of the wire.                                         *)

LEMMA LaterSelf == ASSUME WireInv PROVE Later(peer, peer) /\ PortsApart(peer)
BY DEF WireInv, Later, Onward

LEMMA PeerChanges ==
    ASSUME NEW p \in Seq(Peer), PortsApart(p), NEW c \in DOMAIN p, NEW v \in Peer,
           NEW q, q = [p EXCEPT ![c] = v], Onward(p[c], v)
    PROVE  Later(p, q) /\ Len(q) = Len(p) /\ PortsApart(q)
<1>1. /\ q \in Seq(Peer) /\ Len(q) = Len(p) /\ DOMAIN q = DOMAIN p /\ DOMAIN p = 1 .. Len(p)
      /\ q[c] = v /\ \A i \in DOMAIN p \ {c} : q[i] = p[i]
  OBVIOUS
<1>2. \A i \in DOMAIN p : q[i].port = p[i].port
  BY <1>1 DEF Onward
<1>3. PortsApart(q)
  BY <1>1, <1>2 DEF PortsApart
<1>4. Len(p) <= Len(q)
  BY <1>1
<1>5. Later(p, q)
  <2>. SUFFICES ASSUME NEW i \in 1 .. Len(p) PROVE Onward(p[i], q[i])
    BY <1>1, <1>4 DEF Later
  <2>1. CASE i = c
    BY <1>1, <2>1
  <2>2. CASE i # c
    BY <1>1, <2>2 DEF Onward
  <2>. QED  BY <2>1, <2>2
<1>. QED  BY <1>1, <1>3, <1>5

LEMMA PeerJoins ==
    ASSUME NEW p \in Seq(Peer), PortsApart(p), NEW v \in Peer, NEW q, q = Append(p, v),
           v.port # 0 => \A c \in DOMAIN p : p[c].port # v.port
    PROVE  /\ Later(p, q) /\ PortsApart(q) /\ Len(p) + 1 \in 1 .. Len(q)
           /\ q[Len(p) + 1] = v
<1>. DEFINE n == Len(p)
<1>1. /\ q \in Seq(Peer) /\ Len(q) = n + 1 /\ n \in Nat /\ q[n + 1] = v
      /\ DOMAIN p = 1 .. n /\ DOMAIN q = 1 .. n + 1 /\ \A i \in 1 .. n : q[i] = p[i]
  OBVIOUS
<1>. HIDE DEF n
<1>2. \A i \in 1 .. n + 1 : i \in 1 .. n \/ i = n + 1
  BY <1>1
<1>3. PortsApart(q)
  <2>. SUFFICES ASSUME NEW c \in 1 .. n + 1, NEW d \in 1 .. n + 1, q[c].port # 0,
                       q[c].port = q[d].port
                PROVE  c = d
    BY <1>1 DEF PortsApart
  <2>1. CASE c \in 1 .. n /\ d \in 1 .. n
    <3>1. q[c] = p[c] /\ q[d] = p[d]
      BY <1>1, <2>1
    <3>. QED  BY <1>1, <2>1, <3>1 DEF PortsApart
  <2>2. CASE c = n + 1 /\ d \in 1 .. n
    BY <1>1, <2>2
  <2>3. CASE c \in 1 .. n /\ d = n + 1
    BY <1>1, <2>3
  <2>. QED  BY <1>2, <2>1, <2>2, <2>3
<1>4. Later(p, q) /\ n + 1 \in 1 .. Len(q)
  BY <1>1 DEF Later, Onward, n
<1>. QED  BY <1>1, <1>3, <1>4 DEF n

LEMMA WireKept ==
    ASSUME WireInv, Later(peer, peer'), PortsApart(peer'),
           FramesOK(ring', peer), FramesOK(rx', peer), FramesOK(http', peer),
           cid' \in 1 .. Len(peer'), last_port' \in Nat \ {0}, in_use \subseteq in_use',
           \A c \in Len(peer) + 1 .. Len(peer') : peer'[c].port \in {0} \cup in_use',
           tcp' \in [state : {"Closed", "SynSent", "Established"}, port : Nat]
    PROVE  WireInv'
<1>1. peer \in Seq(Peer) /\ peer' \in Seq(Peer)
  BY DEF WireInv, Later, Onward
<1>2. FramesOK(ring', peer') /\ FramesOK(rx', peer') /\ FramesOK(http', peer')
  BY <1>1, FramesLater
<1>3. Marked'
  <2>. SUFFICES ASSUME NEW c \in 1 .. Len(peer') PROVE peer'[c].port \in {0} \cup in_use'
    BY <1>1 DEF Marked
  <2>1. CASE c \in 1 .. Len(peer)
    <3>1. peer'[c].port = peer[c].port
      BY <2>1 DEF Later, Onward
    <3>2. peer[c].port \in {0} \cup in_use
      BY <1>1, <2>1 DEF WireInv, Marked
    <3>. QED  BY <3>1, <3>2
  <2>2. CASE c \in Len(peer) + 1 .. Len(peer')
    BY <2>2
  <2>. QED  BY <1>1, <2>1, <2>2
<1>. QED  BY <1>1, <1>2, <1>3 DEF WireInv

\* A step in which no peer does anything and no connection begins.
LEMMA WireAlone ==
    ASSUME WireInv, UNCHANGED <<peer, cid, last_port, in_use>>,
           FramesOK(ring', peer), FramesOK(rx', peer), FramesOK(http', peer),
           tcp' = tcp \/ tcp' = Closed \/ tcp' = [tcp EXCEPT !.state = "Closed"]
                      \/ tcp' = [tcp EXCEPT !.state = "Established"]
    PROVE  WireInv'
<1>1. tcp' \in [state : {"Closed", "SynSent", "Established"}, port : Nat]
  BY DEF WireInv, Closed
<1>2. cid' \in 1 .. Len(peer') /\ last_port' \in Nat \ {0}
  BY DEF WireInv
<1>3. Later(peer, peer') /\ PortsApart(peer')
  BY LaterSelf
<1>4. \A c \in Len(peer) + 1 .. Len(peer') : FALSE
  BY DEF WireInv
<1>. QED  BY <1>1, <1>2, <1>3, <1>4, WireKept

\* Nothing is said of a request that starts anew or failed.
LEMMA NothingClaimed ==
    ASSUME \/ at' \in {"connect", "wait"}
           \/ at' = "post" /\ client' = "ntfy"
           \/ at' = "idle" /\ outcome' = "fail"
    PROVE  Claims'
<1>1. CASE at' \in {"connect", "wait"} \/ (at' = "post" /\ client' = "ntfy")
  BY <1>1 DEF Claims, OnPort, HandshakeFresh, StartsOwn, LineOwn, Ended
<1>2. CASE at' = "idle" /\ outcome' = "fail"
  BY <1>2 DEF Claims, OnPort, HandshakeFresh, StartsOwn, LineOwn, Ended
<1>. QED  BY <1>1, <1>2

LEMMA GivenUp ==
    ASSUME GivesUpOrRetries PROVE client' = client /\ Claims'
<1>1. \/ at' = "connect"
      \/ at' = "idle" /\ outcome' = "fail"
  BY DEF GivesUpOrRetries
<1>2. client' = client
  BY DEF GivesUpOrRetries
<1>. QED  BY <1>1, <1>2, NothingClaimed

\* What was said of the request stays true whatever the peers do.
LEMMA ClaimsStay ==
    ASSUME WireInv, Claims, Later(peer, peer'), rx' = rx \/ at # "idle",
           UNCHANGED <<client, at, tcp, cid, http, fresh, line, outcome>>
    PROVE  Claims'
<1>1. /\ cid \in 1 .. Len(peer) /\ peer'[cid].port = peer[cid].port
      /\ peer[cid].did \in {"accepted", "served"} => peer'[cid].did \in {"accepted", "served"}
      /\ peer[cid].did = "served"
            => peer'[cid].did = "served" /\ peer'[cid].status = peer[cid].status
  BY DEF WireInv, Later, Onward
<1>2. OnPort'
  BY <1>1 DEF Claims, OnPort
<1>3. HandshakeFresh'
  BY <1>1 DEF Claims, HandshakeFresh
<1>4. StartsOwn'
  BY DEF Claims, StartsOwn, FreshIsOwn
<1>5. LineOwn'
  BY <1>1 DEF Claims, LineOwn, AllPadding
<1>6. Ended'
  BY <1>1 DEF Claims, Ended, AllPadding
<1>7. at' = "post" => client' = "ntfy"
  BY DEF Claims
<1>. QED  BY <1>2, <1>3, <1>4, <1>5, <1>6, <1>7 DEF Claims

LEMMA FormsAre ==
    ASSUME NEW k
    PROVE  /\ Forms(k) \subseteq {"close", "chunked", "spaced", "tight"}
           /\ Statuses(k) \subseteq {"ok", "limited", "refused", "failed"}
BY DEF Forms, Statuses

LEMMA PeersKeep ==
    ASSUME LegacyInv, NEW c \in DOMAIN peer, peer_accepts(c) \/ peer_serves(c)
    PROVE  LegacyInv'
<1>1. /\ peer \in Seq(Peer) /\ PortsApart(peer) /\ peer[c] \in Peer /\ WireInv
      /\ client \in Asked /\ Claims
  BY DEF LegacyInv, WireInv
<1>2. UNCHANGED <<client, at, attempt, tcp, cid, cardVars, loopVars, outcome, portVars>>
      \/ UNCHANGED <<client, at, tcp, cid, ring, rx, http, fresh, line, outcome, last_port,
                    in_use>>
  BY DEF peer_accepts, peer_serves
<1>3. UNCHANGED <<client, at, tcp, cid, ring, rx, http, fresh, line, outcome, last_port,
                    in_use>>
  BY <1>2 DEF cardVars, loopVars, portVars
<1>4. PICK v \in Peer : /\ peer' = [peer EXCEPT ![c] = v] /\ v.port = peer[c].port
                        /\ peer[c].did \in {"nothing", "accepted"}
                        /\ peer[c].did = "accepted" => v.did = "served"
  <2>1. CASE peer_accepts(c)
    <3>1. PICK what \in {"accepted", "refused"} : peer' = [peer EXCEPT ![c].did = what]
      BY <2>1 DEF peer_accepts
    <3>. DEFINE v == [peer[c] EXCEPT !.did = what]
    <3>2. v \in Peer /\ v.port = peer[c].port
      BY <1>1 DEF Peer
    <3>3. peer' = [peer EXCEPT ![c] = v]
      BY <3>1
    <3>. QED  BY <2>1, <3>2, <3>3 DEF peer_accepts
  <2>2. CASE peer_serves(c) /\ peer[c].did = "accepted"
    <3>1. PICK f \in {"close", "chunked", "spaced", "tight"},
               s \in {"ok", "limited", "refused", "failed"} :
            peer' = [peer EXCEPT ![c].did = "served", ![c].form = f, ![c].status = s]
      BY <2>2, FormsAre DEF peer_serves
    <3>. DEFINE v == [peer[c] EXCEPT !.did = "served", !.form = f, !.status = s]
    <3>2. v \in Peer /\ v.port = peer[c].port /\ v.did = "served"
      BY <1>1 DEF Peer
    <3>3. peer' = [peer EXCEPT ![c] = v]
      BY <3>1
    <3>. QED  BY <2>2, <3>2, <3>3
  <2>3. CASE peer_serves(c) /\ peer[c].did # "accepted"
    <3>1. peer' = [peer EXCEPT ![c].did = "answered"] /\ peer[c].did = "nothing"
      BY <2>3 DEF peer_serves
    <3>. DEFINE v == [peer[c] EXCEPT !.did = "answered"]
    <3>2. v \in Peer /\ v.port = peer[c].port
      BY <1>1 DEF Peer
    <3>3. peer' = [peer EXCEPT ![c] = v]
      BY <3>1
    <3>. QED  BY <3>1, <3>2, <3>3
  <2>. QED  BY <2>1, <2>2, <2>3
<1>5. Later(peer, peer') /\ PortsApart(peer') /\ Len(peer') = Len(peer)
  <2>1. Onward(peer[c], v)
    BY <1>4 DEF Onward
  <2>. QED  BY <1>1, <1>4, <2>1, PeerChanges
<1>6. FramesOK(ring', peer) /\ FramesOK(rx', peer) /\ FramesOK(http', peer)
  BY <1>1, <1>3 DEF WireInv
<1>7. /\ cid' \in 1 .. Len(peer') /\ last_port' \in Nat \ {0}
      /\ tcp' \in [state : {"Closed", "SynSent", "Established"}, port : Nat]
  BY <1>1, <1>3, <1>5 DEF WireInv
<1>8. WireInv'
  <2>1. in_use' = in_use /\ \A c1 \in Len(peer) + 1 .. Len(peer') : FALSE
    BY <1>1, <1>3, <1>5
  <2>. QED  BY <1>1, <1>5, <1>6, <1>7, <2>1, WireKept
<1>9. Claims'
  BY <1>1, <1>3, <1>5, ClaimsStay
<1>. QED  BY <1>1, <1>3, <1>8, <1>9 DEF LegacyInv

LEMMA AddedBehind ==
    ASSUME NEW S, NEW s \in Seq(S), NEW e \in S PROVE Append(s, e) = s \o <<e>>
OBVIOUS

LEMMA ArrivalKeeps == ASSUME LegacyInv, frame_arrives PROVE LegacyInv'
<1>1. WireInv /\ client \in Asked /\ Claims /\ peer \in Seq(Peer)
  BY DEF LegacyInv, WireInv
<1>2. UNCHANGED <<client, at, tcp, cid, rx, http, fresh, line, outcome, last_port, in_use, peer>>
  BY DEF frame_arrives, loopVars, portVars
<1>3. PICK f \in {Foreign} \cup UNION {SentBy(c) : c \in DOMAIN peer} : ring' = Append(ring, f)
  BY DEF frame_arrives
<1>4. f \in WireFrame /\ FrameOK(f, peer)
  <2>1. CASE f = Foreign
    BY <2>1 DEF Foreign, OnWire, WireFrame, FrameOK
  <2>2. ASSUME NEW c \in DOMAIN peer, f \in SentBy(c) PROVE f \in WireFrame /\ FrameOK(f, peer)
    <3>1. peer[c] \in Peer /\ c \in Nat
      BY <1>1
    <3>2. peer[c].client \in Asked
      BY <3>1 DEF Peer
    <3>3. CASE peer[c].did \in {"nothing", "refused", "accepted"}
      BY <2>2, <3>1, <3>3 DEF SentBy, OnWire, WireFrame, FrameOK
    <3>4. CASE peer[c].did = "answered"
      <4>1. f = OnWire(c, peer[c].client, 0) /\ peer[c].client # "synack"
        BY <2>2, <3>2, <3>4, LegacyAssumption DEF SentBy, Asked
      <4>. QED  BY <3>1, <3>2, <3>4, <4>1 DEF OnWire, WireFrame, FrameOK
    <3>5. CASE peer[c].did = "served"
      BY <2>2, <3>1, <3>5 DEF SentBy, OnWire, WireFrame, FrameOK
    <3>. QED  BY <3>1, <3>3, <3>4, <3>5 DEF Peer
  <2>. QED  BY <1>3, <2>1, <2>2
<1>5. FramesOK(<<f>>, peer)
  BY <1>4 DEF FramesOK
<1>6. ring' = ring \o <<f>>
  <2>1. ring \in Seq(WireFrame)
    BY <1>1 DEF WireInv, FramesOK
  <2>2. Append(ring, f) = ring \o <<f>>
    BY <1>4, <2>1, AddedBehind
  <2>. QED  BY <1>3, <2>2
<1>7. FramesOK(ring', peer) /\ FramesOK(rx', peer) /\ FramesOK(http', peer)
  BY <1>1, <1>2, <1>5, <1>6, JoinedFrames DEF WireInv
<1>8. WireInv'
  BY <1>1, <1>2, <1>7, WireAlone
<1>9. Claims'
  BY <1>1, <1>2, LaterSelf, ClaimsStay
<1>. QED  BY <1>1, <1>2, <1>8, <1>9 DEF LegacyInv

-----------------------------------------------------------------------------
(* Steps of the clients.                                                   *)

\* A step that only moves clocks and counters.
LEMMA StillKeeps ==
    ASSUME LegacyInv,
           UNCHANGED <<client, at, tcp, cid, ring, rx, http, fresh, line, outcome, last_port, in_use,
                       peer>>
    PROVE  LegacyInv'
<1>1. WireInv /\ client \in Asked /\ Claims
  BY DEF LegacyInv
<1>2. FramesOK(ring', peer) /\ FramesOK(rx', peer) /\ FramesOK(http', peer)
  BY <1>1 DEF WireInv
<1>3. WireInv'
  BY <1>1, <1>2, WireAlone
<1>4. Claims'
  BY <1>1, LaterSelf, ClaimsStay
<1>. QED  BY <1>1, <1>3, <1>4 DEF LegacyInv

LEMMA RequestKeeps ==
    ASSUME LegacyInv, NEW k \in Clients, request(k)
    PROVE  LegacyInv'
<1>1. /\ UNCHANGED <<tcp, cid, ring, rx, http, last_port, in_use, peer>>
      /\ at' = "connect" /\ client' \in Asked
  BY DEF request, cardVars, portVars, Asked
<1>2. WireInv
  BY DEF LegacyInv
<1>3. FramesOK(ring', peer) /\ FramesOK(rx', peer) /\ FramesOK(http', peer)
  BY <1>1, <1>2 DEF WireInv
<1>4. WireInv'
  BY <1>1, <1>2, <1>3, WireAlone
<1>. QED  BY <1>1, <1>4, NothingClaimed DEF LegacyInv

LEMMA ExchangeIs ==
    ASSUME NEW k \in Asked, NEW n \in Nat
    PROVE  Exchange(k, n) \in Peer /\ Exchange(k, n).port = n
BY DEF Exchange, Peer

LEMMA ConnectKeeps ==
    ASSUME LegacyInv, tcp_connect, PortIsFree
    PROVE  LegacyInv'
<1>. DEFINE n == get_unique_port
<1>1. /\ WireInv /\ client \in Asked /\ Claims
      /\ peer \in Seq(Peer) /\ PortsApart(peer) /\ FramesOK(http, peer)
  BY DEF LegacyInv, WireInv
<1>2. n \in Nat \ {0} /\ \A c \in DOMAIN peer : peer[c].port # n
  BY <1>1, PortIsNew DEF PortIsFree
<1>3. /\ ring' = <<>> /\ rx' = <<>> /\ http' = http /\ last_port' = n
      /\ in_use' = in_use \cup {n}
      /\ \/ /\ tcp' = [state |-> "SynSent", port |-> n]
            /\ peer' = Append(peer, Exchange(client, n))
            /\ cid' = Len(peer) + 1 /\ at' = "syn" /\ client' = client
         \/ /\ tcp' = [state |-> "Closed", port |-> n]
            /\ GivesUpOrRetries /\ UNCHANGED <<peer, cid>>
  BY DEF tcp_connect
<1>. HIDE DEF n
<1>4. FramesOK(ring', peer) /\ FramesOK(rx', peer) /\ FramesOK(http', peer)
  BY <1>1, <1>3, NoFrames
<1>5. tcp' \in [state : {"Closed", "SynSent", "Established"}, port : Nat]
      /\ last_port' \in Nat \ {0} /\ tcp'.port = n
  BY <1>2, <1>3
<1>6. CASE peer' = Append(peer, Exchange(client, n)) /\ cid' = Len(peer) + 1
           /\ at' = "syn" /\ client' = client
  <2>1. Exchange(client, n) \in Peer /\ Exchange(client, n).port = n
    BY <1>1, <1>2, ExchangeIs
  <2>. DEFINE v == Exchange(client, n)
  <2>5. /\ v \in Peer /\ v.port # 0 /\ peer' = Append(peer, v)
        /\ \A c \in DOMAIN peer : peer[c].port # v.port
    BY <1>2, <1>6, <2>1
  <2>. HIDE DEF v
  <2>6. /\ Later(peer, peer') /\ PortsApart(peer') /\ Len(peer) + 1 \in 1 .. Len(peer')
        /\ peer'[Len(peer) + 1] = v
    BY <1>1, <2>5, PeerJoins
  <2>2. /\ Later(peer, peer') /\ PortsApart(peer') /\ cid' \in 1 .. Len(peer')
        /\ peer'[cid'] = Exchange(client, n)
    BY <1>6, <2>6 DEF v
  <2>7. in_use \subseteq in_use'
        /\ \A c \in Len(peer) + 1 .. Len(peer') : peer'[c].port \in {0} \cup in_use'
    <3>1. Len(peer') = Len(peer) + 1 /\ Len(peer) \in Nat
      BY <1>1, <2>5
    <3>2. \A c \in Len(peer) + 1 .. Len(peer') : c = cid'
      BY <1>6, <3>1
    <3>. QED  BY <1>3, <2>1, <2>2, <3>2
  <2>3. WireInv'
    BY <1>1, <1>4, <1>5, <2>2, <2>7, WireKept
  <2>4. Claims'
    BY <1>2, <1>5, <1>6, <2>1, <2>2 DEF Claims, OnPort, HandshakeFresh, StartsOwn, LineOwn, Ended
  <2>. QED  BY <1>1, <1>6, <2>3, <2>4 DEF LegacyInv
<1>7. CASE GivesUpOrRetries /\ UNCHANGED <<peer, cid>>
  <2>1. Later(peer, peer') /\ PortsApart(peer') /\ cid' \in 1 .. Len(peer')
    BY <1>1, <1>7, LaterSelf DEF WireInv
  <2>3. in_use \subseteq in_use' /\ \A c \in Len(peer) + 1 .. Len(peer') : FALSE
    BY <1>1, <1>3, <1>7
  <2>2. WireInv'
    BY <1>1, <1>4, <1>5, <2>1, <2>3, WireKept
  <2>. QED  BY <1>1, <1>7, <2>2, GivenUp DEF LegacyInv
<1>. QED  BY <1>3, <1>6, <1>7

LEMMA SynKeeps ==
    ASSUME LegacyInv, syn_waits \/ syn_timeout
    PROVE  LegacyInv'
<1>. DEFINE f == Head(ring)
<1>1. /\ WireInv /\ client \in Asked /\ Claims
      /\ FramesOK(ring, peer) /\ FramesOK(rx, peer) /\ FramesOK(http, peer)
      /\ tcp \in [state : {"Closed", "SynSent", "Established"}, port : Nat]
      /\ cid \in 1 .. Len(peer)
  BY DEF LegacyInv, WireInv
<1>2. UNCHANGED <<cid, peer, last_port, in_use, http>> /\ client \in Tcps /\ at = "syn"
  BY DEF syn_waits, syn_timeout, loopVars, portVars
<1>3. CASE syn_timeout
  <2>1. /\ UNCHANGED <<ring, rx>> /\ GivesUpOrRetries /\ tcp' = [tcp EXCEPT !.state = "Closed"]
    BY <1>3 DEF syn_timeout, cardVars, loopVars
  <2>2. WireInv'
    BY <1>1, <1>2, <2>1, WireAlone
  <2>. QED  BY <1>1, <2>1, <2>2, GivenUp DEF LegacyInv
<1>4. CASE syn_waits
  <2>1. /\ ring # <<>> /\ ring' = Tail(ring) /\ rx' = <<>>
        /\ \/ tcp' = [tcp EXCEPT !.state = "Closed"] /\ GivesUpOrRetries
           \/ /\ Opens(f) /\ tcp' = [tcp EXCEPT !.state = "Established"]
              /\ at' = "send" /\ client' = client
           \/ UNCHANGED <<tcp, at, client, outcome>>
    BY <1>4 DEF syn_waits
  <2>2. FramesOK(ring', peer) /\ FramesOK(rx', peer) /\ FramesOK(http', peer)
    BY <1>1, <1>2, <2>1, TailFrames, NoFrames
  <2>3. FrameOK(f, peer)
    BY <1>1, <2>1, TailFrames
  <2>. HIDE DEF f
  <2>4. WireInv'
    BY <1>1, <1>2, <2>1, <2>2, WireAlone
  <2>5. CASE GivesUpOrRetries
    BY <1>1, <2>4, <2>5, GivenUp DEF LegacyInv
  <2>6. CASE Opens(f) /\ tcp' = [tcp EXCEPT !.state = "Established"] /\ at' = "send"
             /\ client' = client
    <3>1. cid # 0 /\ f.cid = cid /\ f.what = "synack"
      BY <1>1, <2>6 DEF Opens
    <3>2. peer[cid].did \in {"accepted", "served"}
      BY <2>3, <3>1 DEF FrameOK
    <3>3. tcp'.port = tcp.port
      BY <1>1, <2>6
    <3>4. Claims'
      BY <1>1, <1>2, <2>6, <3>2, <3>3 DEF Claims, OnPort, HandshakeFresh, StartsOwn, LineOwn, Ended
    <3>. QED  BY <1>1, <2>4, <2>6, <3>4 DEF LegacyInv
  <2>7. CASE UNCHANGED <<tcp, at, client, outcome>>
    <3>1. UNCHANGED <<fresh, line>> /\ at # "idle"
      BY <1>2, <1>4 DEF syn_waits
    <3>. QED  BY <1>1, <1>2, <2>4, <2>7, <3>1, LaterSelf, ClaimsStay DEF LegacyInv
  <2>. QED  BY <2>1, <2>5, <2>6, <2>7
<1>. QED  BY <1>3, <1>4

\* The peer is asked.
LEMMA AskedOf ==
    ASSUME WireInv, peer' = [peer EXCEPT ![cid].asked = TRUE]
    PROVE  Later(peer, peer') /\ PortsApart(peer') /\ Len(peer') = Len(peer)
<1>. DEFINE v == [peer[cid] EXCEPT !.asked = TRUE]
            q == [peer EXCEPT ![cid] = v]
<1>1. peer \in Seq(Peer) /\ PortsApart(peer) /\ cid \in DOMAIN peer /\ peer[cid] \in Peer
  BY DEF WireInv
<1>2. v \in Peer /\ Onward(peer[cid], v)
  BY <1>1 DEF Peer, Onward
<1>3. peer' = q
  OBVIOUS
<1>. HIDE DEF v
<1>4. q = [peer EXCEPT ![cid] = v]
  OBVIOUS
<1>. HIDE DEF q
<1>5. Later(peer, q) /\ PortsApart(q) /\ Len(q) = Len(peer)
  BY <1>1, <1>2, <1>4, PeerChanges
<1>. QED  BY <1>3, <1>5

LEMMA SendKeeps ==
    ASSUME LegacyInv, tcp_send_data
    PROVE  LegacyInv'
<1>1. /\ WireInv /\ client \in Asked /\ Claims
      /\ FramesOK(ring, peer) /\ FramesOK(rx, peer) /\ FramesOK(http, peer)
      /\ tcp \in [state : {"Closed", "SynSent", "Established"}, port : Nat]
      /\ cid \in 1 .. Len(peer) /\ last_port \in Nat \ {0}
  BY DEF LegacyInv, WireInv
<1>2. UNCHANGED <<cid, last_port, in_use>> /\ client \in Tcps /\ at = "send"
  BY DEF tcp_send_data, portVars
<1>3. CASE /\ peer' = [peer EXCEPT ![cid].asked = TRUE]
           /\ at' = "recv" /\ http' = HttpAtStart /\ fresh' = 0
           /\ rx' = <<>> /\ ring' \in {<<>>, ring}
           /\ UNCHANGED <<tcp, client>>
  <2>1. Later(peer, peer') /\ PortsApart(peer') /\ Len(peer') = Len(peer)
    BY <1>1, <1>3, AskedOf
  <2>2. FramesOK(ring', peer) /\ FramesOK(rx', peer) /\ FramesOK(http', peer)
    BY <1>1, <1>3, NoFrames DEF HttpAtStart
  <2>7. in_use' = in_use /\ \A c \in Len(peer) + 1 .. Len(peer') : FALSE
    BY <1>1, <1>2, <2>1
  <2>3. WireInv'
    BY <1>1, <1>2, <1>3, <2>1, <2>2, <2>7, WireKept
  <2>4. /\ peer'[cid].port = peer[cid].port
        /\ peer[cid].did \in {"accepted", "served"} => peer'[cid].did \in {"accepted", "served"}
    BY <1>1, <2>1 DEF Later, Onward
  <2>5. client # "download" => http' = <<>>
    BY <1>3 DEF HttpAtStart
  <2>8. FreshIsOwn'
    <3>1. Len(http') \in Nat /\ (client # "download" => Len(http') = 0)
      BY <2>2, <2>5 DEF FramesOK
    <3>. QED  BY <1>3, <3>1 DEF FreshIsOwn
  <2>6. Claims'
    BY <1>1, <1>2, <1>3, <2>4, <2>5, <2>8
       DEF Claims, OnPort, HandshakeFresh, StartsOwn, LineOwn, Ended, Retried
  <2>. QED  BY <1>1, <1>3, <2>3, <2>6 DEF LegacyInv
<1>4. CASE Resets /\ GivesUpOrRetries /\ UNCHANGED <<peer, http, ring>>
  <2>1. FramesOK(ring', peer) /\ FramesOK(rx', peer) /\ FramesOK(http', peer) /\ tcp' = Closed
    BY <1>1, <1>4, NoFrames DEF Resets
  <2>2. WireInv'
    BY <1>1, <1>2, <1>4, <2>1, WireAlone
  <2>. QED  BY <1>1, <1>4, <2>2, GivenUp DEF LegacyInv
<1>. QED  BY <1>3, <1>4 DEF tcp_send_data

\* What a batch of ours makes of the buffer.
LEMMA BatchIsOwn ==
    ASSUME WireInv, Claims, client \in Tcps, at = "recv", ring # <<>>, Ours(Head(Batch)),
           http' = All, fresh' = Count, UNCHANGED <<client, cid>>
    PROVE  /\ FramesOK(All, peer) /\ FreshIsOwn'
           /\ Batch # <<>> /\ Batch[1].cid = cid /\ FrameOK(Batch[1], peer)
           /\ http = <<>> /\ All # <<>> => All[1] = Batch[1] /\ Len(All) <= Len(Batch)
           /\ http # <<>> => All[1] = http[1]
<1>. DEFINE h == Len(http)
            a == Len(All)
<1>1. FramesOK(Batch, peer) /\ Batch # <<>>
  BY BatchIs
<1>2. FrameOK(Batch[1], peer) /\ Head(Batch) = Batch[1]
  BY <1>1, TailFrames
<1>3. Batch[1].cid = cid
  BY <1>2, OursIsOwn DEF Claims
<1>4. /\ FramesOK(All, peer) /\ h <= a /\ a <= h + Len(Batch)
      /\ \A i \in 1 .. h : All[i] = http[i]
      /\ a # h => All[h + 1] = Batch[1]
  BY <1>1, AppendedIs DEF All
<1>5. /\ h \in Nat /\ a \in Nat /\ Len(Batch) \in Nat
      /\ http \in Seq(WireFrame) /\ All \in Seq(WireFrame)
  BY <1>1, <1>4 DEF FramesOK, WireInv
<1>6. FreshIsOwn
  BY DEF Claims, StartsOwn
<1>7. FreshIsOwn'
  <2>1. /\ fresh' = fresh + a - h /\ fresh \in Nat /\ fresh <= h
        /\ client # "download" => fresh = h
    BY <1>6 DEF Count, FreshIsOwn
  <2>2. fresh' \in Nat /\ fresh' <= a /\ (client # "download" => fresh' = a)
    BY <1>4, <1>5, <2>1
  <2>3. a - fresh' + 1 = h - fresh + 1
    BY <1>5, <2>1
  <2>4. fresh' # 0 => All[h - fresh + 1].cid = cid
    <3>1. CASE fresh # 0
      <4>1. h - fresh + 1 \in 1 .. h
        BY <1>5, <2>1, <3>1
      <4>. QED  BY <1>4, <1>6, <3>1, <4>1 DEF FreshIsOwn
    <3>2. CASE fresh = 0
      <4>1. h - fresh + 1 = h + 1 /\ (fresh' # 0 => a # h)
        BY <1>5, <2>1, <3>2
      <4>. QED  BY <1>3, <1>4, <4>1
    <3>. QED  BY <3>1, <3>2
  <2>. QED  BY <2>2, <2>3, <2>4 DEF FreshIsOwn
<1>8. http = <<>> /\ All # <<>> => All[1] = Batch[1] /\ a <= Len(Batch)
  <2>1. http = <<>> => h = 0
    OBVIOUS
  <2>2. All # <<>> => a # 0
    BY <1>5
  <2>. QED  BY <1>4, <1>5, <2>1, <2>2
<1>9. http # <<>> => All[1] = http[1]
  <2>1. http # <<>> => 1 \in 1 .. h
    BY <1>5
  <2>. QED  BY <1>4, <2>1
<1>. QED  BY <1>1, <1>2, <1>3, <1>4, <1>7, <1>8, <1>9

\* What those bytes may hold, by the first frame of the batch.
LEMMA LineOptions ==
    ASSUME NEW bs
    PROVE  /\ http = <<>> /\ bs[1].seg = 1 => LineAfter(bs) = {peer[bs[1].cid].status}
           /\ bs[1].seg # 2 /\ (http = <<>> => bs[1].seg # 1 /\ ~AllPadding(bs))
                 => LineAfter(bs) = {"none"}
<1>1. ASSUME http = <<>>, bs[1].seg = 1 PROVE LineAfter(bs) = {peer[bs[1].cid].status}
  <2>1. bs[1].seg # 2 /\ bs[1].seg # 0
    BY <1>1
  <2>2. ~AllPadding(bs) /\ ~Short(bs)
    BY <2>1 DEF AllPadding, Short
  <2>. QED  BY <1>1, <2>1, <2>2 DEF LineAfter
<1>2. ASSUME bs[1].seg # 2, http = <<>> => bs[1].seg # 1 /\ ~AllPadding(bs)
      PROVE  LineAfter(bs) = {"none"}
  <2>1. /\ ~(http = <<>> /\ bs[1].seg = 1) /\ ~(http = <<>> /\ Short(bs))
        /\ ~(http = <<>> /\ AllPadding(bs) /\ line # "none")
    BY <1>2 DEF Short
  <2>. QED  BY <1>2, <2>1 DEF LineAfter
<1>. QED  BY <1>1, <1>2

\* The rule of bytes 9..11 keeps the status the peer's.
LEMMA LineKept ==
    ASSUME WireInv, Claims, at = "recv", NEW a, http' = a, UNCHANGED <<client, cid, peer>>,
           Batch[1].cid = cid, FrameOK(Batch[1], peer), a \in Seq(WireFrame),
           http = <<>> /\ a # <<>> => a[1] = Batch[1] /\ Len(a) <= Len(Batch),
           http # <<>> => a[1] = http[1],
           IF a # http /\ (http = <<>> \/ Short(http))
           THEN line' \in LineAfter(Batch) ELSE line' = line
    PROVE  LineOwn'
<1>. SUFFICES ASSUME client \in Retried, a # <<>>
              PROVE  /\ a[1].seg = 1 => peer[cid].did = "served" /\ line' = peer[cid].status
                     /\ line' # "none" => AllPadding(a) \/ peer[cid].did = "served"
  BY DEF LineOwn
<1>1. cid # 0 /\ FramesOK(http, peer)
  BY DEF WireInv
<1>2. Batch[1].seg # 0 => peer[cid].did = "served"
  BY <1>1 DEF FrameOK
<1>3. CASE http = <<>>
  <2>1. /\ a[1] = Batch[1] /\ Len(a) <= Len(Batch) /\ line' \in LineAfter(Batch)
        /\ Len(a) \in Nat \ {0}
    BY <1>3
  <2>2. CASE Batch[1].seg = 1
    BY <1>2, <1>3, <2>1, <2>2, LineOptions
  <2>3. CASE Batch[1].seg \notin {0, 1}
    BY <1>2, <2>1, <2>3
  <2>4. CASE Batch[1].seg = 0
    <3>1. ~AllPadding(Batch) => line' = "none"
      <4>1. Batch[1].seg # 2 /\ Batch[1].seg # 1
        BY <2>4
      <4>2. ~AllPadding(Batch) => LineAfter(Batch) = {"none"}
        BY <4>1, LineOptions
      <4>. QED  BY <2>1, <4>2
    <3>2. AllPadding(Batch) => AllPadding(a)
      <4>1. ASSUME Len(Batch) = 1 PROVE Len(a) = 1
        <5>1. Len(a) <= 1
          BY <2>1, <4>1, Zenon
        <5>2. Len(a) \in Nat \ {0}
          BY <2>1
        <5>3. \A n \in Nat \ {0} : n <= 1 => n = 1
          OBVIOUS
        <5>. QED  BY <5>1, <5>2, <5>3, Zenon
      <4>. QED  BY <2>1, <4>1 DEF AllPadding
    <3>. QED  BY <2>1, <2>4, <3>1, <3>2
  <2>. QED  BY <2>2, <2>3, <2>4
<1>4. CASE http # <<>>
  <2>1. /\ a[1] = http[1] /\ http[1].cid = cid /\ FrameOK(http[1], peer)
        /\ http[1].seg = 1 => peer[cid].did = "served" /\ line = peer[cid].status
        /\ line # "none" => AllPadding(http) \/ peer[cid].did = "served"
    <3>1. FrameOK(http[1], peer) /\ Len(http) \in Nat \ {0}
      BY <1>1, <1>4, TailFrames DEF FramesOK
    <3>2. FreshIsOwn /\ client # "download"
      BY DEF Claims, StartsOwn, Retried, Tcps
    <3>3. http[1].cid = cid
      BY <3>1, <3>2 DEF FreshIsOwn
    <3>. QED  BY <1>4, <3>1, <3>3 DEF Claims, LineOwn
  <2>2. CASE a # http /\ Short(http)
    <3>1. http[1].seg = 0 /\ line' \in LineAfter(Batch)
      BY <2>2 DEF Short, AllPadding
    <3>2. line' # "none" => Batch[1].seg = 2
      <4>1. Batch[1].seg # 2 => LineAfter(Batch) = {"none"}
        BY <1>4, LineOptions
      <4>. QED  BY <3>1, <4>1
    <3>. QED  BY <1>2, <2>1, <3>1, <3>2
  <2>3. CASE a # http /\ ~Short(http)
    <3>1. line' = line
      BY <1>4, <2>3
    <3>2. peer[cid].did \in {"accepted", "served"}
      BY DEF Claims, HandshakeFresh, Retried, Tcps
    <3>3. AllPadding(http) => peer[cid].did = "served"
      BY <1>1, <2>1, <2>3, <3>2 DEF Short, FrameOK
    <3>. QED  BY <2>1, <3>1, <3>3
  <2>4. CASE a = http
    BY <2>1, <2>4
  <2>. QED  BY <2>2, <2>3, <2>4
<1>. QED  BY <1>3, <1>4

\* A poll in a receive loop.
LEMMA LegacyPollKeeps ==
    ASSUME LegacyInv, Polled, client \in Tcps,
           rx' \in {<<>>, Batch}, tcp' \in {tcp, [tcp EXCEPT !.state = "Closed"]},
           \/ /\ Ours(Head(Batch)) /\ http' = All /\ fresh' = Count
              /\ at' \in {"recv", "close"}
              /\ IF All # http /\ (http = <<>> \/ Short(http))
                 THEN line' \in LineAfter(Batch) ELSE line' = line
           \/ UNCHANGED <<http, fresh, line, at>>
    PROVE  LegacyInv'
<1>1. /\ WireInv /\ client \in Asked /\ Claims /\ FramesOK(rx, peer) /\ FramesOK(http, peer)
      /\ tcp \in [state : {"Closed", "SynSent", "Established"}, port : Nat]
  BY DEF LegacyInv, WireInv
<1>2. /\ at = "recv" /\ ring # <<>> /\ ring' = <<>>
      /\ UNCHANGED <<client, cid, outcome, last_port, in_use, peer>>
  BY DEF Polled, portVars
<1>3. FramesOK(Batch, peer)
  BY <1>1, <1>2, BatchIs
<1>4. tcp'.port = tcp.port
  BY <1>1
<1>5. CASE UNCHANGED <<http, fresh, line, at>>
  <2>1. FramesOK(ring', peer) /\ FramesOK(rx', peer) /\ FramesOK(http', peer)
    BY <1>1, <1>2, <1>3, <1>5, NoFrames
  <2>2. WireInv'
    BY <1>1, <1>2, <2>1, WireAlone
  <2>3. StartsOwn' /\ LineOwn'
    BY <1>1, <1>2, <1>5 DEF Claims, StartsOwn, FreshIsOwn, LineOwn, AllPadding
  <2>4. Claims'
    BY <1>1, <1>2, <1>4, <1>5, <2>3 DEF Claims, OnPort, HandshakeFresh, Ended
  <2>. QED  BY <1>1, <1>2, <2>2, <2>4 DEF LegacyInv
<1>6. CASE /\ Ours(Head(Batch)) /\ http' = All /\ fresh' = Count /\ at' \in {"recv", "close"}
           /\ IF All # http /\ (http = <<>> \/ Short(http))
              THEN line' \in LineAfter(Batch) ELSE line' = line
  <2>1. /\ FramesOK(All, peer) /\ FreshIsOwn'
        /\ Batch # <<>> /\ Batch[1].cid = cid /\ FrameOK(Batch[1], peer)
        /\ http = <<>> /\ All # <<>> => All[1] = Batch[1] /\ Len(All) <= Len(Batch)
        /\ http # <<>> => All[1] = http[1]
    BY <1>1, <1>2, <1>6, BatchIsOwn
  <2>2. FramesOK(ring', peer) /\ FramesOK(rx', peer) /\ FramesOK(http', peer)
    BY <1>1, <1>2, <1>3, <1>6, <2>1, NoFrames
  <2>3. WireInv'
    BY <1>1, <1>2, <2>2, WireAlone
  <2>4. LineOwn'
    <3>. DEFINE a == All
    <3>1. /\ a \in Seq(WireFrame) /\ http' = a
          /\ http = <<>> /\ a # <<>> => a[1] = Batch[1] /\ Len(a) <= Len(Batch)
          /\ http # <<>> => a[1] = http[1]
          /\ IF a # http /\ (http = <<>> \/ Short(http))
             THEN line' \in LineAfter(Batch) ELSE line' = line
      BY <1>6, <2>1 DEF FramesOK
    <3>. HIDE DEF a
    <3>. QED  BY <1>1, <1>2, <2>1, <3>1, LineKept
  <2>5. StartsOwn'
    BY <2>1 DEF StartsOwn
  <2>6. Claims'
    BY <1>1, <1>2, <1>4, <1>6, <2>4, <2>5 DEF Claims, OnPort, HandshakeFresh, Ended
  <2>. QED  BY <1>1, <1>2, <2>3, <2>6 DEF LegacyInv
<1>. QED  BY <1>5, <1>6

LegacyReceives ==
    \/ send_get_receives \/ download_receives \/ chat_receives \/ discord_receives
    \/ tcp_receive_data

LEMMA ReceivesKeep == ASSUME LegacyInv, LegacyReceives PROVE LegacyInv'
<1>1. Polled /\ client \in Tcps
  BY DEF LegacyReceives, send_get_receives, download_receives, chat_receives, discord_receives,
         tcp_receive_data, Tcps
<1>2. rx' \in {<<>>, Batch} /\ tcp' \in {tcp, [tcp EXCEPT !.state = "Closed"]}
  BY DEF LegacyReceives, send_get_receives, download_receives, chat_receives, discord_receives,
         tcp_receive_data
<1>3. Takes(Complete(All, Count)) \/ Takes(FALSE)
  BY DEF LegacyReceives, send_get_receives, download_receives, chat_receives, discord_receives,
         tcp_receive_data
<1>4. \/ /\ Ours(Head(Batch)) /\ http' = All /\ fresh' = Count
         /\ at' \in {"recv", "close"}
         /\ IF All # http /\ (http = <<>> \/ Short(http))
            THEN line' \in LineAfter(Batch) ELSE line' = line
      \/ UNCHANGED <<http, fresh, line, at>>
  BY <1>3 DEF Takes
<1>. QED  BY <1>1, <1>2, <1>4, LegacyPollKeeps

LEMMA EndsKeep == ASSUME LegacyInv, receive_ends PROVE LegacyInv'
<1>1. /\ WireInv /\ client \in Asked /\ Claims
      /\ FramesOK(ring, peer) /\ FramesOK(rx, peer) /\ FramesOK(http, peer)
  BY DEF LegacyInv, WireInv
<1>2. /\ UNCHANGED <<client, tcp, cid, ring, rx, http, fresh, line, outcome, last_port,
                      in_use, peer>>
      /\ at = "recv" /\ at' \in {"close", "abort"}
  BY DEF receive_ends, cardVars, loopVars, portVars
<1>3. WireInv'
  BY <1>1, <1>2, WireAlone
<1>4. StartsOwn' /\ LineOwn'
  BY <1>1, <1>2 DEF Claims, StartsOwn, FreshIsOwn, LineOwn, AllPadding
<1>5. Claims'
  BY <1>1, <1>2, <1>4 DEF Claims, OnPort, HandshakeFresh, Ended
<1>. QED  BY <1>1, <1>2, <1>3, <1>5 DEF LegacyInv

LEMMA CloseKeeps ==
    ASSUME WireInv, CloseUnlessGet, UNCHANGED <<peer, cid, last_port, in_use, ring, http>>
    PROVE  WireInv'
<1>1. FramesOK(ring, peer) /\ FramesOK(rx, peer) /\ FramesOK(http, peer)
  BY DEF WireInv
<1>2. (tcp' = tcp /\ rx' = rx) \/ (tcp' = Closed /\ rx' = <<>>)
  BY DEF CloseUnlessGet, Resets
<1>3. FramesOK(rx', peer)
  BY <1>1, <1>2, NoFrames
<1>. QED  BY <1>1, <1>2, <1>3, WireAlone

LegacyReturns ==
    \/ get_returns \/ api_returns \/ chat_returns \/ discord_returns \/ download_returns

LEMMA ReturnsKeep == ASSUME LegacyInv, LegacyReturns PROVE LegacyInv'
<1>1. WireInv /\ client \in Asked /\ Claims
  BY DEF LegacyInv
<1>2. CloseUnlessGet /\ UNCHANGED <<peer, cid, last_port, in_use, ring, http>>
  BY DEF LegacyReturns, get_returns, api_returns, chat_returns, discord_returns, download_returns,
         cardVars, portVars
<1>3. WireInv'
  BY <1>1, <1>2, CloseKeeps
<1>4. CASE GivesUpOrRetries
  BY <1>1, <1>3, <1>4, GivenUp DEF LegacyInv
<1>5. UNCHANGED <<http, fresh, line>> /\ client' = client
  BY <1>2, GivenUp DEF LegacyReturns, get_returns, api_returns, chat_returns,
                       discord_returns, download_returns, Ends
<1>6. FreshIsOwn /\ Len(http) \in Nat /\ (http # <<>> => Len(http) # 0)
  <2>1. client \in Tcps /\ at \in {"close", "abort"}
    BY DEF LegacyReturns, get_returns, api_returns, chat_returns, discord_returns,
           download_returns, Tcps
  <2>. QED  BY <1>1, <2>1 DEF Claims, StartsOwn, WireInv, FramesOK
<1>7. client # "download" /\ http # <<>> => http[1].cid = cid
  BY <1>6 DEF FreshIsOwn
<1>8. CASE get_returns \/ api_returns
  <2>1. /\ client \in {"get", "api"} /\ at' = "idle"
        /\ outcome' = IF http = <<>> THEN "fail" ELSE "ok"
    BY <1>8 DEF get_returns, api_returns, Ends
  <2>2. Claims'
    BY <1>2, <1>5, <1>7, <2>1
       DEF Claims, OnPort, HandshakeFresh, StartsOwn, LineOwn, Ended, Retried
  <2>. QED  BY <1>1, <1>3, <1>5, <2>2 DEF LegacyInv
<1>9. CASE chat_returns \/ discord_returns
  <2>. SUFFICES ASSUME ~GivesUpOrRetries PROVE LegacyInv'
    BY <1>4
  <2>1. /\ client \in Retried /\ at = "close" /\ at' = "idle" /\ http # <<>>
        /\ outcome' = line /\ line # "none"
    <3>1. CASE chat_returns
      BY <3>1 DEF chat_returns, Ends, Retried
    <3>2. CASE discord_returns
      <4>. DEFINE t == IF HasBody(http) THEN line ELSE "none"
      <4>1. (t = "ok" /\ Ends("ok")) \/ (t = "refused" /\ Ends("refused"))
        BY <3>2 DEF discord_returns
      <4>2. client = "discord" /\ at = "close"
        BY <3>2 DEF discord_returns
      <4>3. HasBody(http) /\ at' = "idle" /\ outcome' = line /\ line # "none"
        BY <4>1 DEF Ends
      <4>4. http # <<>>
        BY <4>3 DEF HasBody, HeadAt
      <4>. QED  BY <4>2, <4>3, <4>4 DEF Retried
    <3>. QED  BY <1>9, <3>1, <3>2
  <2>2. /\ http[1].seg = 1 => peer[cid].did = "served" /\ line = peer[cid].status
        /\ AllPadding(http) \/ peer[cid].did = "served"
    BY <1>1, <2>1 DEF Claims, LineOwn
  <2>3. client \in Tcps \ {"download"}
    BY <2>1 DEF Retried, Tcps
  <2>4. Ended'
    BY <1>2, <1>5, <1>7, <2>1, <2>2, <2>3 DEF Ended, AllPadding, Retried, Tcps
  <2>5. Claims'
    BY <1>5, <2>1, <2>4 DEF Claims, OnPort, HandshakeFresh, StartsOwn, LineOwn
  <2>. QED  BY <1>1, <1>3, <1>5, <2>5 DEF LegacyInv
<1>10. CASE download_returns
  <2>1. client = "download" /\ at' = "idle" /\ (outcome' = "ok" => fresh # 0)
    BY <1>10 DEF download_returns, Ends
  <2>2. fresh # 0 => http[Len(http) - fresh + 1].cid = cid
    BY <1>6 DEF FreshIsOwn
  <2>3. Claims'
    BY <1>2, <1>5, <2>1, <2>2
       DEF Claims, OnPort, HandshakeFresh, StartsOwn, LineOwn, Ended, Retried
  <2>. QED  BY <1>1, <1>3, <1>5, <2>3 DEF LegacyInv
<1>. QED  BY <1>8, <1>9, <1>10 DEF LegacyReturns

-----------------------------------------------------------------------------
(* Steps of the clients without a connection.                              *)

LEMMA ProbesStart ==
    ASSUME LegacyInv, ProbeStarts, ProbeSent \/ ProbeFails
    PROVE  LegacyInv'
<1>1. /\ WireInv /\ client \in Asked /\ Claims /\ peer \in Seq(Peer) /\ PortsApart(peer)
      /\ FramesOK(ring, peer) /\ FramesOK(rx, peer) /\ FramesOK(http, peer)
      /\ tcp \in [state : {"Closed", "SynSent", "Established"}, port : Nat]
      /\ last_port \in Nat \ {0}
  BY DEF LegacyInv, WireInv
<1>2. UNCHANGED <<tcp, ring, http, last_port, in_use, client>>
  BY DEF ProbeStarts, ProbeSent, ProbeFails, cardVars, portVars
<1>3. Claims'
  BY NothingClaimed DEF ProbeSent, ProbeFails
<1>4. CASE ProbeSent
  <2>. DEFINE v == Exchange(client, 0)
  <2>1. v \in Peer /\ v.port = 0 /\ peer' = Append(peer, v)
    BY <1>1, <1>4, ExchangeIs DEF ProbeSent
  <2>2. cid' = Len(peer) + 1 /\ rx' = <<>>
    BY <1>4 DEF ProbeSent
  <2>. HIDE DEF v
  <2>3. Later(peer, peer') /\ PortsApart(peer') /\ Len(peer) + 1 \in 1 .. Len(peer')
        /\ peer'[Len(peer) + 1] = v
    BY <1>1, <2>1, PeerJoins
  <2>4. FramesOK(ring', peer) /\ FramesOK(rx', peer) /\ FramesOK(http', peer)
    BY <1>1, <1>2, <2>2, NoFrames
  <2>6. in_use' = in_use
        /\ \A c \in Len(peer) + 1 .. Len(peer') : peer'[c].port \in {0} \cup in_use'
    <3>1. Len(peer') = Len(peer) + 1 /\ Len(peer) \in Nat
      BY <1>1, <2>1
    <3>2. \A c \in Len(peer) + 1 .. Len(peer') : c = Len(peer) + 1
      BY <3>1
    <3>. QED  BY <1>2, <2>1, <2>3, <3>2
  <2>5. WireInv'
    BY <1>1, <1>2, <2>2, <2>3, <2>4, <2>6, WireKept
  <2>. QED  BY <1>1, <1>2, <1>3, <2>5 DEF LegacyInv
<1>5. CASE ProbeFails
  <2>1. UNCHANGED <<rx, peer, cid>>
    BY <1>5 DEF ProbeFails
  <2>2. WireInv'
    BY <1>1, <1>2, <2>1, WireAlone
  <2>. QED  BY <1>1, <1>2, <1>3, <2>2 DEF LegacyInv
<1>. QED  BY <1>4, <1>5

\* Nothing is said of what a ping or a notification came to.
LEMMA LittleClaimed ==
    ASSUME client' \in {"ping", "ntfy"}, at' = "idle"
    PROVE  Claims'
BY DEF Claims, OnPort, HandshakeFresh, StartsOwn, LineOwn, Ended, Retried, Tcps

LEMMA PingGoesOn ==
    ASSUME client = "ping", NEW n, ping_next(n)
    PROVE  client' = client /\ Claims'
<1>1. client' = client /\ at' \in {"connect", "idle"}
  BY DEF ping_next
<1>. QED  BY <1>1, LittleClaimed, NothingClaimed

LEMMA ProbesReceive ==
    ASSUME LegacyInv, dns_receives \/ ping_receives \/ ntfy_receives
    PROVE  LegacyInv'
<1>1. /\ WireInv /\ client \in Asked /\ Claims
      /\ FramesOK(rx, peer) /\ FramesOK(http, peer)
  BY DEF LegacyInv, WireInv
<1>2. ring # <<>> /\ ring' = <<>> /\ UNCHANGED <<tcp, cid, last_port, in_use, peer>>
  BY DEF dns_receives, ping_receives, ntfy_receives, ProbePolled, portVars
<1>3. FramesOK(Batch, peer) /\ Batch # <<>>
  BY <1>1, <1>2, BatchIs
<1>4. Head(Batch) = Batch[1]
  BY <1>3, TailFrames
<1>5. rx' \in {<<>>, Batch} /\ http' = http /\ line' = line /\ at = "wait"
  BY DEF dns_receives, ping_receives, ntfy_receives, ProbePolled
<1>6. FramesOK(ring', peer) /\ FramesOK(rx', peer) /\ FramesOK(http', peer)
  BY <1>1, <1>2, <1>3, <1>5, NoFrames
<1>7. WireInv'
  BY <1>1, <1>2, <1>6, WireAlone
<1>8. ASSUME WaitsOn PROVE LegacyInv'
  <2>1. UNCHANGED <<at, client, outcome, fresh>>
    BY <1>8 DEF WaitsOn
  <2>2. Claims'
    BY <1>1, <1>2, <1>5, <2>1, LaterSelf, ClaimsStay
  <2>. QED  BY <1>1, <1>7, <2>1, <2>2 DEF LegacyInv
<1>9. CASE dns_receives /\ ~WaitsOn
  <2>1. client = "dns" /\ AnswersQuery(Head(Batch)) /\ rx' = Batch /\ Ends("ok")
    BY <1>9 DEF dns_receives
  <2>2. /\ Batch[1].cid = cid /\ rx' = Batch /\ client' = client /\ at' = "idle"
        /\ outcome' = "ok"
    BY <1>4, <2>1 DEF AnswersQuery, Ends
  <2>3. Claims'
    BY <1>2, <2>1, <2>2
       DEF Claims, OnPort, HandshakeFresh, StartsOwn, LineOwn, Ended, Retried, Tcps
  <2>. QED  BY <1>1, <1>7, <2>2, <2>3 DEF LegacyInv
<1>10. CASE ping_receives /\ ~WaitsOn
  <2>1. client = "ping" /\ ping_next(fresh + 1)
    BY <1>10 DEF ping_receives
  <2>. QED  BY <1>1, <1>7, <2>1, PingGoesOn DEF LegacyInv
<1>11. CASE ntfy_receives /\ ~WaitsOn
  <2>1. client = "ntfy" /\ client' = client /\ at' = "post"
    BY <1>11 DEF ntfy_receives
  <2>. QED  BY <1>1, <1>7, <2>1, NothingClaimed DEF LegacyInv
<1>. QED  BY <1>8, <1>9, <1>10, <1>11

LEMMA ProbesEnd ==
    ASSUME LegacyInv, probe_timeout \/ ntfy_posts
    PROVE  LegacyInv'
<1>1. /\ WireInv /\ client \in Asked /\ Claims
      /\ FramesOK(ring, peer) /\ FramesOK(rx, peer) /\ FramesOK(http, peer)
      /\ tcp \in [state : {"Closed", "SynSent", "Established"}, port : Nat]
      /\ cid \in 1 .. Len(peer) /\ last_port \in Nat \ {0}
  BY DEF LegacyInv, WireInv
<1>2. CASE probe_timeout
  <2>1. UNCHANGED <<tcp, cid, ring, rx, http, last_port, in_use, peer>>
    BY <1>2 DEF probe_timeout, cardVars, portVars
  <2>2. WireInv'
    BY <1>1, <2>1, WireAlone
  <2>3. CASE client = "ping"
    <3>1. ping_next(fresh)
      BY <1>2, <2>3 DEF probe_timeout
    <3>. QED  BY <1>1, <2>2, <2>3, <3>1, PingGoesOn DEF LegacyInv
  <2>4. CASE client # "ping"
    <3>1. Ends("fail")
      BY <1>2, <2>4 DEF probe_timeout
    <3>. QED  BY <1>1, <2>2, <3>1, NothingClaimed DEF LegacyInv, Ends
  <2>. QED  BY <2>3, <2>4
<1>3. CASE ntfy_posts
  <2>1. /\ client = "ntfy" /\ client' = client /\ at' = "idle"
        /\ ring' = <<>> /\ rx' = <<>> /\ UNCHANGED <<tcp, cid, http, last_port, in_use>>
    BY <1>1, <1>3 DEF Claims, ntfy_posts, Ends, portVars
  <2>2. Later(peer, peer') /\ PortsApart(peer') /\ Len(peer') = Len(peer)
    <3>1. CASE peer' = [peer EXCEPT ![cid].asked = TRUE]
      BY <1>1, <3>1, AskedOf
    <3>2. CASE peer' = peer
      BY <1>1, <3>2, LaterSelf
    <3>. QED  BY <1>3, <3>1, <3>2 DEF ntfy_posts
  <2>3. FramesOK(ring', peer) /\ FramesOK(rx', peer) /\ FramesOK(http', peer)
    BY <1>1, <2>1, NoFrames
  <2>5. in_use' = in_use /\ \A c \in Len(peer) + 1 .. Len(peer') : FALSE
    BY <1>1, <2>1, <2>2
  <2>4. WireInv'
    BY <1>1, <2>1, <2>2, <2>3, <2>5, WireKept
  <2>. QED  BY <1>1, <2>1, <2>4, LittleClaimed DEF LegacyInv
<1>. QED  BY <1>2, <1>3

-----------------------------------------------------------------------------
LEMMA LegacyInvInit == LegacyInit => LegacyInv
<1>. SUFFICES ASSUME LegacyInit PROVE LegacyInv
  OBVIOUS
<1>. DEFINE v == [Exchange("get", last_port) EXCEPT !.did = "served", !.asked = TRUE]
            f == OnWire(1, "data", 1)
            g == OnWire(1, "data", 2)
<1>1. /\ last_port = 2 /\ tcp = [state |-> "Established", port |-> 2] /\ cid = 1
      /\ ring = <<>> /\ rx = <<>> /\ http = <<f, g>> /\ peer = <<v>>
      /\ client = "get" /\ at = "idle" /\ outcome = "ok" /\ 2 \in in_use /\ fresh = 2
  BY LegacyAssumption DEF LegacyInit
<1>2. v \in Peer /\ v.did = "served" /\ v.port = 2
  BY <1>1 DEF Exchange, Peer, Asked
<1>3. /\ f \in WireFrame /\ f.cid = 1 /\ f.what = "data"
      /\ g \in WireFrame /\ g.cid = 1 /\ g.what = "data"
  BY DEF OnWire, WireFrame
<1>. HIDE DEF v, f, g
<1>4. peer \in Seq(Peer) /\ Len(peer) = 1 /\ DOMAIN peer = {1} /\ peer[1] = v
  BY <1>1, <1>2
<1>5. PortsApart(peer)
  BY <1>4 DEF PortsApart
<1>6. FrameOK(f, peer) /\ FrameOK(g, peer)
  BY <1>2, <1>3, <1>4 DEF FrameOK
<1>7. /\ http \in Seq(WireFrame) /\ Len(http) = 2 /\ http[1] = f /\ http[2] = g
  BY <1>1, <1>3
<1>8. FramesOK(http, peer)
  <2>1. \A i \in 1 .. 2 : i = 1 \/ i = 2
    OBVIOUS
  <2>. QED  BY <1>6, <1>7, <2>1 DEF FramesOK
<1>9. tcp \in [state : {"Closed", "SynSent", "Established"}, port : Nat]
  BY <1>1
<1>10. WireInv
  <2>1. Marked
    BY <1>1, <1>2, <1>4 DEF Marked
  <2>. QED  BY <1>1, <1>4, <1>5, <1>8, <1>9, <2>1, NoFrames DEF WireInv
<1>11. Claims
  BY <1>1, <1>3, <1>7 DEF Claims, OnPort, HandshakeFresh, StartsOwn, LineOwn, Ended, Retried
<1>. QED  BY <1>1, <1>10, <1>11 DEF LegacyInv, Asked

LEMMA LegacyInvStep ==
    LegacyInv /\ [LegacyNext]_legacyVars /\ [PortIsFree]_legacyVars => LegacyInv'
<1>. SUFFICES ASSUME LegacyInv, [LegacyNext]_legacyVars, [PortIsFree]_legacyVars PROVE LegacyInv'
  OBVIOUS
<1>1. CASE UNCHANGED legacyVars
  <2>1. UNCHANGED <<client, at, tcp, cid, ring, rx, http, fresh, line, outcome, last_port, in_use,
                       peer>>
    BY <1>1 DEF legacyVars, cardVars, loopVars, portVars
  <2>. QED  BY <2>1, StillKeeps
<1>2. CASE \E k \in Clients : request(k)
  BY <1>2, RequestKeeps
<1>3. CASE tcp_connect
  <2>1. CASE PortIsFree
    BY <1>3, <2>1, ConnectKeeps
  <2>2. CASE ~PortIsFree
    BY <1>1, <2>2
  <2>. QED  BY <2>1, <2>2
<1>4. CASE syn_waits \/ syn_timeout
  BY <1>4, SynKeeps
<1>5. CASE tcp_send_data
  BY <1>5, SendKeeps
<1>6. CASE LegacyReceives
  BY <1>6, ReceivesKeep
<1>7. CASE receive_ends
  BY <1>7, EndsKeep
<1>8. CASE download_waits_on \/ turn_limit_passes \/ tick_limit_passes \/ idle_limit_passes
  <2>1. UNCHANGED <<client, at, tcp, cid, ring, rx, http, fresh, line, outcome, last_port, in_use,
                       peer>>
    BY <1>8 DEF download_waits_on, turn_limit_passes, tick_limit_passes, LimitPasses,
                  idle_limit_passes, cardVars, portVars
  <2>. QED  BY <2>1, StillKeeps
<1>9. CASE LegacyReturns
  BY <1>9, ReturnsKeep
<1>10. CASE dns_query \/ ntfy_syn \/ ping_sends
  BY <1>10, ProbesStart DEF dns_query, ntfy_syn, ping_sends
<1>11. CASE dns_receives \/ ping_receives \/ ntfy_receives
  BY <1>11, ProbesReceive
<1>12. CASE probe_timeout \/ ntfy_posts
  BY <1>12, ProbesEnd
<1>13. CASE \E c \in DOMAIN peer : peer_accepts(c) \/ peer_serves(c)
  BY <1>13, PeersKeep
<1>14. CASE frame_arrives
  BY <1>14, ArrivalKeeps
<1>15. CASE Turn
  BY <1>3, <1>4, <1>5, <1>6, <1>7, <1>8, <1>9, <1>10, <1>11, <1>12, <1>15
     DEF Turn, LegacyReceives, LegacyReturns
<1>. QED  BY <1>1, <1>2, <1>8, <1>13, <1>14, <1>15 DEF LegacyNext

\* What a legacy client takes for the answer to a request starts with a frame of
\* the exchange it made for it (the download's part of the buffer does), the chat
\* clients go by the status of that peer once its status line came first and, if
\* they are content with anything but padding, were served by it, and every
\* handshake is with the peer of the exchange: for any retries, frames and
\* buffers, whatever earlier peers repeat, as long as get_unique_port finds a port
\* for each connection that was not used lately.  Its fallback, a port that was,
\* would let an earlier peer in.
THEOREM AnswersStayOwn == LegacySpec /\ [][PortIsFree]_legacyVars => []AnswersAreOwn
<1>1. LegacyInv => AnswersAreOwn
  BY DEF LegacyInv, Claims, Ended, AnswersAreOwn
<1>2. LegacySpec /\ [][PortIsFree]_legacyVars => []LegacyInv
  BY LegacyInvInit, LegacyInvStep, PTL DEF LegacySpec
<1>. QED  BY <1>1, <1>2, PTL
================================================================================
