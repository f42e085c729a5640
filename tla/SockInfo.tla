------------------------------ MODULE SockInfo ------------------------------
(***************************************************************************)
(* The socket table of collectors/proc_sock: the apps thread reads the     *)
(* socket files of /proc/net one after the other, keeps a node for every   *)
(* inode in an RCU hash table, sweeps the nodes that were not seen again   *)
(* and looks sockets up between two scans.  Nodes come from a memory pool  *)
(* and go back to it in callbacks of the RCU thread, after a grace period. *)
(***************************************************************************)
EXTENDS Naturals, Sequences, FiniteSets

CONSTANTS
    Inos,           \* inode numbers other than 0
    Files,          \* the socket types, in the order their files are read
    States,         \* socket states
    Nodes,          \* addresses the pool may return
    NoSock, NoNode,
    MaxChanges,     \* bound: sockets opened, closed or changed
    MaxDups,        \* bound: lines for a socket that was listed already
    MaxFailures     \* bound: files that cannot be opened or read

ASSUME SockInfoAssumption ==
    /\ NoNode \notin Nodes
    /\ MaxChanges \in Nat /\ MaxDups \in Nat /\ MaxFailures \in Nat

Types == {Files[k] : k \in 1 .. Len(Files)}
Socks == [sock_type : Types, sock_state : States]

\* __sock_file_infos names every type once.
ASSUME FilesAssumption ==
    /\ Files \in Seq(Types)
    /\ \A j, k \in 1 .. Len(Files) : Files[j] = Files[k] => j = k

ASSUME NoSockAssumption == NoSock \notin Socks

VARIABLES
    sockets,            \* the kernel: the socket of an inode
    changes, dups, failures,
    \* the memory of the nodes
    pool,               \* nodes in the memory pool
    ht,                 \* nodes in the hash table
    waiting,            \* call_rcu was called, the reader has not left since
    ready,              \* the grace period is over: the callback may run
    ino, si, is_update, \* the fields of a node
    \* the apps thread
    pc, file, todo, left, cursor, exit_flag,
    listed              \* the sockets this scan has listed so far

vars == <<sockets, changes, dups, failures, pool, ht, waiting, ready, ino, si,
          is_update, pc, file, todo, left, cursor, exit_flag, listed>>

kernel == <<sockets, changes>>
memory == <<pool, ht, waiting, ready>>
fields == <<ino, si, is_update>>

\* init_sock_info_mgr: an empty table.
Init ==
    /\ sockets \in [Inos -> Socks \cup {NoSock}]
    /\ changes = 0 /\ dups = 0 /\ failures = 0
    /\ pool = Nodes /\ ht = {} /\ waiting = {} /\ ready = {}
    /\ ino = [n \in Nodes |-> NoSock] /\ si = [n \in Nodes |-> NoSock]
    /\ is_update = [n \in Nodes |-> 0]
    /\ pc = "idle" /\ file = 0 /\ todo = {} /\ left = {} /\ cursor = NoNode
    /\ exit_flag = 0
    /\ listed = [i \in Inos |-> NoSock]

-----------------------------------------------------------------------------
(* collect_socks_info_i: clear the flags, read the files, sweep. *)

\* Mutant of CleanFlags: an entry that was swept past keeps its flag.
ForgetsToClean ==
    /\ pc = "idle" /\ exit_flag = 0
    /\ pc' = "open" /\ file' = 1
    /\ listed' = [i \in Inos |-> NoSock]
    /\ UNCHANGED <<kernel, dups, failures, memory, fields, todo, left, cursor, exit_flag>>

\* clean_all_sock_info_update_flag: atomic_dec of every entry.
CleanFlags ==
    /\ pc = "idle" /\ exit_flag = 0
    /\ is_update' = [n \in Nodes |-> IF n \in ht THEN is_update[n] - 1 ELSE is_update[n]]
    /\ pc' = "open" /\ file' = 1
    /\ listed' = [i \in Inos |-> NoSock]
    /\ UNCHANGED <<kernel, dups, failures, memory, ino, si, todo, left, cursor, exit_flag>>

HasType(i, t) == sockets[i] # NoSock /\ sockets[i].sock_type = t

\* procfile_open and procfile_readall.
ReadAll ==
    /\ pc = "open" /\ file <= Len(Files)
    /\ pc' = "lines"
    /\ todo' = {i \in Inos : HasType(i, Files[file])}
    /\ UNCHANGED <<kernel, dups, failures, memory, fields, file, left, cursor,
                   exit_flag, listed>>

\* One of the two fails: the other files are read all the same.
ReadFails ==
    /\ pc = "open" /\ file <= Len(Files)
    /\ failures < MaxFailures
    /\ failures' = failures + 1
    /\ file' = file + 1
    /\ UNCHANGED <<kernel, dups, memory, fields, pc, todo, left, cursor, exit_flag,
                   listed>>

\* The socket went away before its line was written.
LineGone(i) ==
    /\ pc = "lines" /\ i \in todo
    /\ ~ HasType(i, Files[file])
    /\ todo' = todo \ {i}
    /\ UNCHANGED <<kernel, dups, failures, memory, fields, pc, file, left, cursor,
                   exit_flag, listed>>

\* The kernel writes the file piece by piece and finds its place again by
\* counting: a socket may be listed again, or a new one be listed.
LineAgain(i) ==
    /\ pc = "lines" /\ i \notin todo
    /\ HasType(i, Files[file])
    /\ dups < MaxDups
    /\ dups' = dups + 1
    /\ todo' = todo \cup {i}
    /\ UNCHANGED <<kernel, failures, memory, fields, pc, file, left, cursor,
                   exit_flag, listed>>

\* What cds_lfht_lookup finds for an inode.
Lookup(i) == {n \in ht : ino[n] = i}

Line(i) ==
    /\ pc = "lines" /\ i \in todo
    /\ HasType(i, Files[file])
    /\ todo' = todo \ {i}
    /\ listed' = [listed EXCEPT ![i] = sockets[i]]

\* add_sock_info_node for an entry with the same type and state: the entry is
\* marked and the new node goes back to the pool.
AddSame(i) ==
    /\ Line(i)
    /\ pool # {}
    /\ \E n \in Lookup(i) :
           /\ si[n] = sockets[i]
           /\ is_update' = [is_update EXCEPT ![n] = @ + 1]
    /\ UNCHANGED <<kernel, dups, failures, memory, ino, si, pc, file, left, cursor,
                   exit_flag>>

\* Mutant of AddNode: cds_lfht_add in the place of cds_lfht_add_replace.
AddsNextToIt(i) ==
    /\ Line(i)
    /\ \A n \in Lookup(i) : si[n] # sockets[i]
    /\ \E new \in pool :
           /\ pool' = pool \ {new}
           /\ ht' = ht \cup {new}
           /\ ino' = [ino EXCEPT ![new] = i]
           /\ si' = [si EXCEPT ![new] = sockets[i]]
           /\ is_update' = [is_update EXCEPT ![new] = 1]
    /\ pc' = "added" /\ cursor' = NoNode
    /\ UNCHANGED <<kernel, dups, failures, waiting, ready, file, left, exit_flag>>

\* Mutant of AddNode: the old node goes back to the pool at once.
FreesOldNode(i) ==
    /\ Line(i)
    /\ \A n \in Lookup(i) : si[n] # sockets[i]
    /\ \E new \in pool :
           /\ pool' = (pool \ {new}) \cup Lookup(i)
           /\ ht' = (ht \ Lookup(i)) \cup {new}
           /\ ino' = [ino EXCEPT ![new] = i]
           /\ si' = [si EXCEPT ![new] = sockets[i]]
           /\ is_update' = [is_update EXCEPT ![new] = 1]
    /\ cursor' = IF Lookup(i) = {} THEN NoNode ELSE CHOOSE n \in Lookup(i) : TRUE
    /\ pc' = "added"
    /\ UNCHANGED <<kernel, dups, failures, waiting, ready, file, left, exit_flag>>

\* It is new, or has another type or state: cds_lfht_add_replace, and call_rcu for
\* the node it replaces, which the thread still has in its hands.
AddNode(i) ==
    /\ Line(i)
    /\ \A n \in Lookup(i) : si[n] # sockets[i]
    /\ \E new \in pool :
           /\ pool' = pool \ {new}
           /\ ht' = (ht \ Lookup(i)) \cup {new}
           /\ ino' = [ino EXCEPT ![new] = i]
           /\ si' = [si EXCEPT ![new] = sockets[i]]
           /\ is_update' = [is_update EXCEPT ![new] = 1]
    /\ waiting' = waiting \cup Lookup(i)
    /\ cursor' = IF Lookup(i) = {} THEN NoNode ELSE CHOOSE n \in Lookup(i) : TRUE
    /\ pc' = "added"
    /\ UNCHANGED <<kernel, dups, failures, ready, file, left, exit_flag>>

\* urcu_memb_read_unlock: the nodes retired so far may be reclaimed.
ReadUnlock ==
    /\ ready' = ready \cup waiting
    /\ waiting' = {}
    /\ cursor' = NoNode

AddUnlock ==
    /\ pc = "added"
    /\ pc' = "lines"
    /\ ReadUnlock
    /\ UNCHANGED <<kernel, dups, failures, pool, ht, fields, file, todo, left,
                   exit_flag, listed>>

FileEnd ==
    /\ pc = "lines" /\ todo = {}
    /\ pc' = "open" /\ file' = file + 1
    /\ UNCHANGED <<kernel, dups, failures, memory, fields, todo, left, cursor,
                   exit_flag, listed>>

\* remove_all_not_update_sock_info walks over the table under the read lock.
SweepBegin ==
    /\ pc = "open" /\ file > Len(Files)
    /\ pc' = "sweep" /\ left' = ht
    /\ UNCHANGED <<kernel, dups, failures, memory, fields, file, todo, cursor,
                   exit_flag, listed>>

\* An entry whose flag is 0 is deleted; the iterator still goes on from it.
Sweep(n) ==
    /\ pc = "sweep" /\ n \in left
    /\ left' = left \ {n} /\ cursor' = n
    /\ IF is_update[n] = 0
       THEN ht' = ht \ {n} /\ waiting' = waiting \cup {n}
       ELSE UNCHANGED <<ht, waiting>>
    /\ UNCHANGED <<kernel, dups, failures, pool, ready, fields, pc, file, todo,
                   exit_flag, listed>>

SweepEnd ==
    /\ pc = "sweep" /\ left = {}
    /\ pc' = "idle"
    /\ ReadUnlock
    /\ UNCHANGED <<kernel, dups, failures, pool, ht, fields, file, todo, left,
                   exit_flag, listed>>

-----------------------------------------------------------------------------
(* find_sock_info, called by the process collector between two scans. *)

Find(i) ==
    /\ pc = "idle" /\ exit_flag = 0
    /\ \E n \in Lookup(i) : cursor' = n
    /\ pc' = "find"
    /\ UNCHANGED <<kernel, dups, failures, memory, fields, file, todo, left,
                   exit_flag, listed>>

\* The socket is copied out, then the read lock is given up.
FindUnlock ==
    /\ pc = "find"
    /\ pc' = "idle"
    /\ ReadUnlock
    /\ UNCHANGED <<kernel, dups, failures, pool, ht, fields, file, todo, left,
                   exit_flag, listed>>

-----------------------------------------------------------------------------
(* fini_proc_socks, at the end of the apps thread. *)

FiniBegin ==
    /\ pc = "idle" /\ exit_flag = 1
    /\ pc' = "remove_all" /\ left' = ht
    /\ UNCHANGED <<kernel, dups, failures, memory, fields, file, todo, cursor,
                   exit_flag, listed>>

\* __remove_all_sock_info.
RemoveOne(n) ==
    /\ pc = "remove_all" /\ n \in left
    /\ left' = left \ {n} /\ cursor' = n
    /\ ht' = ht \ {n} /\ waiting' = waiting \cup {n}
    /\ UNCHANGED <<kernel, dups, failures, pool, ready, fields, pc, file, todo,
                   exit_flag, listed>>

RemoveUnlock ==
    /\ pc = "remove_all" /\ left = {}
    /\ pc' = "barrier"
    /\ ReadUnlock
    /\ UNCHANGED <<kernel, dups, failures, pool, ht, fields, file, todo, left,
                   exit_flag, listed>>

\* Mutant of Barrier: it does not wait.
NoBarrier ==
    /\ pc = "barrier"
    /\ pc' = "ended"
    /\ UNCHANGED <<kernel, dups, failures, memory, fields, file, todo, left, cursor,
                   exit_flag, listed>>

\* urcu_memb_barrier waits for the callbacks; then the table, the pool and the
\* manager are destroyed.
Barrier ==
    /\ pc = "barrier"
    /\ ready = {}
    /\ pc' = "ended"
    /\ UNCHANGED <<kernel, dups, failures, memory, fields, file, todo, left, cursor,
                   exit_flag, listed>>

-----------------------------------------------------------------------------
\* The RCU thread runs __free_sock_info_node.
Reclaim(n) ==
    /\ n \in ready
    /\ ready' = ready \ {n}
    /\ pool' = pool \cup {n}
    /\ UNCHANGED <<kernel, dups, failures, ht, waiting, fields, pc, file, todo,
                   left, cursor, exit_flag, listed>>

\* A socket is opened, closed, or goes to another state.
SocketChanges(i, s) ==
    /\ changes < MaxChanges
    /\ s # sockets[i]
    /\ sockets' = [sockets EXCEPT ![i] = s]
    /\ changes' = changes + 1
    /\ UNCHANGED <<dups, failures, memory, fields, pc, file, todo, left, cursor,
                   exit_flag, listed>>

\* appstat_collector_routine_stop, on the main thread.
RoutineStop ==
    /\ exit_flag = 0
    /\ exit_flag' = 1
    /\ UNCHANGED <<kernel, dups, failures, memory, fields, pc, file, todo, left,
                   cursor, listed>>

Scan ==
    \/ CleanFlags \/ ReadAll \/ AddUnlock \/ FileEnd \/ SweepBegin \/ SweepEnd
    \/ \E i \in Inos : LineGone(i) \/ AddSame(i) \/ AddNode(i)
    \/ \E n \in Nodes : Sweep(n)

Fini == FiniBegin \/ (\E n \in Nodes : RemoveOne(n)) \/ RemoveUnlock \/ Barrier

Next ==
    \/ Scan \/ Fini \/ ReadFails \/ FindUnlock
    \/ \E i \in Inos : LineAgain(i) \/ Find(i)
    \/ \E n \in Nodes : Reclaim(n)
    \/ \E i \in Inos, s \in Socks \cup {NoSock} : SocketChanges(i, s)
    \/ RoutineStop

Spec == Init /\ [][Next]_vars

-----------------------------------------------------------------------------
TypeOK ==
    /\ sockets \in [Inos -> Socks \cup {NoSock}]
    /\ listed \in [Inos -> Socks \cup {NoSock}]
    /\ changes \in 0 .. MaxChanges /\ dups \in 0 .. MaxDups
    /\ failures \in 0 .. MaxFailures
    /\ pool \subseteq Nodes /\ ht \subseteq Nodes
    /\ waiting \subseteq Nodes /\ ready \subseteq Nodes
    /\ ino \in [Nodes -> Inos \cup {NoSock}]
    /\ si \in [Nodes -> Socks \cup {NoSock}]
    /\ is_update \in [Nodes -> Nat]
    /\ pc \in {"idle", "open", "lines", "added", "sweep", "find", "remove_all",
               "barrier", "ended"}
    /\ file \in 0 .. Len(Files) + 1
    /\ todo \subseteq Inos /\ left \subseteq Nodes
    /\ cursor \in Nodes \cup {NoNode}
    /\ exit_flag \in {0, 1}

\* A node has one owner: the pool, the table, or a callback that will run once.
\* None is lost.
OneOwner ==
    /\ pool \cup ht \cup waiting \cup ready = Nodes
    /\ pool \cap ht = {} /\ pool \cap waiting = {} /\ pool \cap ready = {}
    /\ ht \cap waiting = {} /\ ht \cap ready = {} /\ waiting \cap ready = {}

\* The node that the thread looks at, or iterates from, is not in the pool.
CursorIsLive == cursor # NoNode => cursor \notin pool \cup ready

\* An inode has one entry, so a lookup has one answer.
OneEntryPerInode == \A n, m \in ht : ino[n] = ino[m] => n = m

\* Between two scans the table holds every socket that the last scan listed, with
\* the type and state it was listed with last.
ListedIsFound ==
    pc = "idle" =>
        \A i \in Inos : listed[i] # NoSock =>
            \E n \in ht : ino[n] = i /\ si[n] = listed[i] /\ is_update[n] > 0

\* When the pool is destroyed no callback is left that would use it.
NoLateCallback == pc = "ended" => pool = Nodes

\* No node is lost, freed twice, or given back to a pool that is gone.
NodesAreOwned == TypeOK /\ OneOwner /\ NoLateCallback

\* find_sock_info_i has one answer, and the right one, for every listed socket.
LookupIsExact == OneEntryPerInode /\ ListedIsFound

\* Between two scans the table holds a socket that the last scan did not list only
\* because of lines that earlier scans listed again: is_update never tells of
\* more scans to come than there were such lines, so the entry goes in the end.
UnlistedWasDuplicated ==
    pc = "idle" => \A n \in ht : listed[ino[n]] = NoSock => is_update[n] <= dups
=============================================================================
