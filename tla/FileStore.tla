------------------------------ MODULE FileStore ------------------------------
(***************************************************************************)
(* What AVFS (src/src/Avfs/Avfs.c) promises the programs that use it: a     *)
(* map from normalised paths to byte sequences, in which a call names one   *)
(* path and changes the bytes of that file and of no other.  Where a file   *)
(* lies in the 16 MB of storage, and which of the calls had to move it, is   *)
(* not visible here.                                                        *)
(***************************************************************************)
EXTENDS Naturals, Sequences

CONSTANTS Keys,      \* the normalised paths files may have
          NoFile     \* what a path names when it names no file

VARIABLES store,     \* the file of every path
          call       \* the last call that was answered with success

Put(k, s) == store' = [store EXCEPT ![k] = s]

IsFile(k) == store[k] # NoFile

\* avfs_create_file: the bytes of a new file are whatever its blocks held.
Create ==
  call'.op = "create" /\ \E k \in Keys :
    /\ call' = [op |-> "create", path |-> k, size |-> call'.size]
    /\ ~IsFile(k)
    /\ Len(store'[k]) = call'.size
    /\ \A j \in Keys \ {k} : store'[j] = store[j]

\* avfs_save_file: the file is exactly the buffer.
Save ==
  call'.op = "save" /\ \E k \in Keys :
    /\ call' = [op |-> "save", path |-> k, buf |-> call'.buf]
    /\ Put(k, call'.buf)

\* avfs_write_file: the bytes at the offset are replaced, the length stays.
Write ==
  call'.op = "write" /\ \E k \in Keys :
    /\ call' = [op |-> "write", path |-> k, buf |-> call'.buf, offset |-> call'.offset]
    /\ IsFile(k)
    /\ Put(k, [i \in 1..Len(store[k]) |->
                 IF i - call'.offset \in 1..Len(call'.buf)
                 THEN call'.buf[i - call'.offset] ELSE store[k][i]])

\* avfs_append_file: the old bytes, then the buffer.
Extend ==
  call'.op = "append" /\ \E k \in Keys :
    /\ call' = [op |-> "append", path |-> k, buf |-> call'.buf]
    /\ IsFile(k)
    /\ Put(k, store[k] \o call'.buf)

\* avfs_truncate: the common prefix survives; what a longer file ends in is
\* left open here.
Truncate ==
  call'.op = "truncate" /\ \E k \in Keys :
    /\ call' = [op |-> "truncate", path |-> k, size |-> call'.size]
    /\ IsFile(k)
    /\ Len(store'[k]) = call'.size
    /\ \A i \in 1..Len(store[k]) : i <= call'.size => store'[k][i] = store[k][i]
    /\ \A j \in Keys \ {k} : store'[j] = store[j]

\* avfs_remove_file of a file.
Remove ==
  call'.op = "remove" /\ \E k \in Keys :
    /\ call' = [op |-> "remove", path |-> k]
    /\ IsFile(k)
    /\ Put(k, NoFile)

\* Directories, and the current directory, are not files.
Directory ==
  /\ call' = [op |-> "dir"]
  /\ UNCHANGED store

StoreInit == store = [k \in Keys |-> NoFile] /\ call = [op |-> "none"]

StoreNext == Create \/ Save \/ Write \/ Extend \/ Truncate \/ Remove \/ Directory

StoreSpec == StoreInit /\ [][StoreNext]_<<store, call>>
==============================================================================
