--------------------------- MODULE SockInfoProofs ---------------------------
(***************************************************************************)
(* Proofs about SockInfo for every number of files, inodes, nodes, changes *)
(* of sockets, duplicate lines and unreadable files.                       *)
(***************************************************************************)
EXTENDS SockInfo, TLAPS

-----------------------------------------------------------------------------
(* The inductive invariant *)

\* Where the thread is tells what is left of the table and of the callbacks.
PhaseInv ==
    /\ pc = "open" => file \in 1 .. Len(Files) + 1
    /\ pc \in {"lines", "added"} => file \in 1 .. Len(Files)
    /\ left \subseteq ht
    /\ pc \notin {"sweep", "remove_all"} => left = {}
    /\ pc = "remove_all" => ht = left
    /\ pc \in {"barrier", "ended"} => ht = {} /\ waiting = {}
    /\ pc = "ended" => ready = {}

\* The table still answers lookups.
Serving == pc \notin {"remove_all", "barrier", "ended"}

\* Entries hold a socket, and the sweep leaves none whose flag is 0: the next
\* atomic_dec cannot pass 0.  What was listed is found from its line on, not only
\* when the scan is over.
EntryInv ==
    /\ \A n \in ht : ino[n] \in Inos /\ si[n] \in Socks
    /\ pc \in {"idle", "find", "sweep"} => \A n \in ht \ left : is_update[n] > 0
    /\ Serving =>
           \A i \in Inos : listed[i] # NoSock =>
               \E n \in ht : ino[n] = i /\ si[n] = listed[i] /\ is_update[n] > 0

\* The scan may still mark entry n without a further duplicate line.
Coming(n) ==
    \/ /\ pc \in {"lines", "added"}
       /\ ino[n] \in todo /\ si[n].sock_type = Files[file]
    \/ \E k \in 1 .. Len(Files) :
           /\ Files[k] = si[n].sock_type
           /\ \/ pc = "open" /\ file <= k
              \/ pc \in {"lines", "added"} /\ file < k

\* Every duplicate line pays for one mark, and one more is free in a scan.
CountInv ==
    Serving =>
        \A n \in ht :
            /\ is_update[n] <= dups + 1
            /\ listed[ino[n]] = NoSock \/ Coming(n) => is_update[n] <= dups

Inv ==
    /\ TypeOK /\ OneOwner /\ PhaseInv /\ CursorIsLive
    /\ OneEntryPerInode /\ EntryInv /\ CountInv

-----------------------------------------------------------------------------
(* Init *)

LEMMA InitInv == Init => Inv
<1> USE SockInfoAssumption, FilesAssumption, NoSockAssumption
<1> SUFFICES ASSUME Init PROVE Inv
  OBVIOUS
<1>1. TypeOK
  BY DEF Init, TypeOK
<1>2. OneOwner /\ PhaseInv /\ CursorIsLive
  BY DEF Init, OneOwner, PhaseInv, CursorIsLive
<1>3. OneEntryPerInode /\ EntryInv /\ CountInv
  BY DEF Init, OneEntryPerInode, EntryInv, CountInv
<1>4. QED
  BY <1>1, <1>2, <1>3 DEF Inv

-----------------------------------------------------------------------------
(* Types *)

\* What a line of the file lists is a socket of the type of the file.
LEMMA LineIsSocket ==
  ASSUME TypeOK, NEW i \in Inos, NEW t, HasType(i, t)
  PROVE  sockets[i] \in Socks /\ sockets[i] # NoSock /\ sockets[i].sock_type = t
BY NoSockAssumption DEF TypeOK, HasType

\* urcu_memb_read_unlock keeps the types of what it touches.
LEMMA UnlockTypes ==
  ASSUME TypeOK, ReadUnlock
  PROVE  /\ waiting' \subseteq Nodes /\ ready' \subseteq Nodes
         /\ cursor' \in Nodes \cup {NoNode}
BY DEF TypeOK, ReadUnlock

LEMMA NextTypes == Inv /\ [Next]_vars => TypeOK'
<1> USE SockInfoAssumption, FilesAssumption DEF kernel, memory, fields
<1> SUFFICES ASSUME Inv, [Next]_vars PROVE TypeOK'
  OBVIOUS
<1>0. TypeOK /\ PhaseInv /\ Len(Files) \in Nat
  BY DEF Inv
<1>1. CASE CleanFlags
  <2>1. \A n \in ht : is_update[n] - 1 \in Nat
    BY <1>0, <1>1 DEF CleanFlags, Inv, PhaseInv, EntryInv, TypeOK
  <2>2. is_update' \in [Nodes -> Nat]
    BY <1>0, <1>1, <2>1 DEF CleanFlags, TypeOK
  <2>3. listed' \in [Inos -> Socks \cup {NoSock}] /\ file' \in 0 .. Len(Files) + 1
    BY <1>0, <1>1 DEF CleanFlags
  <2>4. QED
    BY <1>0, <1>1, <2>2, <2>3 DEF CleanFlags, TypeOK
<1>2. CASE ReadAll
  BY <1>0, <1>2 DEF ReadAll, TypeOK
<1>3. CASE ReadFails
  BY <1>0, <1>3 DEF ReadFails, TypeOK
<1>4. ASSUME NEW i \in Inos, LineGone(i) \/ LineAgain(i) PROVE TypeOK'
  BY <1>0, <1>4 DEF LineGone, LineAgain, TypeOK
<1>5. ASSUME NEW i \in Inos, AddSame(i) PROVE TypeOK'
  BY <1>0, <1>5 DEF AddSame, Line, Lookup, TypeOK
<1>6. ASSUME NEW i \in Inos, AddNode(i) PROVE TypeOK'
  <2>1. PICK new \in pool : /\ pool' = pool \ {new}
                            /\ ht' = (ht \ Lookup(i)) \cup {new}
                            /\ ino' = [ino EXCEPT ![new] = i]
                            /\ si' = [si EXCEPT ![new] = sockets[i]]
                            /\ is_update' = [is_update EXCEPT ![new] = 1]
    BY <1>6 DEF AddNode
  <2>2. Lookup(i) \subseteq Nodes
    BY <1>0 DEF Lookup, TypeOK
  <2>3. /\ pool' \subseteq Nodes /\ ht' \subseteq Nodes
        /\ ino' \in [Nodes -> Inos \cup {NoSock}]
        /\ si' \in [Nodes -> Socks \cup {NoSock}]
        /\ is_update' \in [Nodes -> Nat]
    BY <1>0, <2>1, <2>2 DEF TypeOK
  <2>4. cursor' \in Nodes \cup {NoNode} /\ waiting' \subseteq Nodes
    BY <1>0, <1>6, <2>2 DEF AddNode, TypeOK
  <2>5. todo' \subseteq Inos /\ listed' \in [Inos -> Socks \cup {NoSock}]
    BY <1>0, <1>6 DEF AddNode, Line, TypeOK
  <2>6. QED
    BY <1>0, <1>6, <2>3, <2>4, <2>5 DEF AddNode, TypeOK
<1>7. CASE AddUnlock \/ SweepEnd \/ FindUnlock \/ RemoveUnlock
  BY <1>0, <1>7, UnlockTypes
     DEF AddUnlock, SweepEnd, FindUnlock, RemoveUnlock, TypeOK
<1>8. CASE FileEnd
  BY <1>0, <1>8 DEF FileEnd, PhaseInv, TypeOK
<1>9. CASE SweepBegin \/ FiniBegin \/ Barrier
  BY <1>0, <1>9 DEF SweepBegin, FiniBegin, Barrier, TypeOK
<1>10. ASSUME NEW n \in Nodes, Sweep(n) \/ RemoveOne(n) PROVE TypeOK'
  BY <1>0, <1>10 DEF Sweep, RemoveOne, TypeOK
<1>11. ASSUME NEW i \in Inos, Find(i) PROVE TypeOK'
  BY <1>0, <1>11 DEF Find, Lookup, TypeOK
<1>12. ASSUME NEW n \in Nodes, Reclaim(n) PROVE TypeOK'
  BY <1>0, <1>12 DEF Reclaim, TypeOK
<1>13. ASSUME NEW i \in Inos, NEW s \in Socks \cup {NoSock}, SocketChanges(i, s)
       PROVE  TypeOK'
  BY <1>0, <1>13 DEF SocketChanges, TypeOK
<1>14. CASE RoutineStop
  BY <1>0, <1>14 DEF RoutineStop, TypeOK
<1>15. CASE UNCHANGED vars
  BY <1>0, <1>15 DEF vars, TypeOK
<1>16. QED
  BY <1>1, <1>2, <1>3, <1>4, <1>5, <1>6, <1>7, <1>8, <1>9, <1>10, <1>11, <1>12,
     <1>13, <1>14, <1>15 DEF Next, Scan, Fini

-----------------------------------------------------------------------------
(* Who owns a node *)

\* A replaced node is one of the table, and what the thread keeps of it.
LEMMA ReplacedNode ==
  ASSUME Inv, NEW i \in Inos, AddNode(i)
  PROVE  /\ Lookup(i) \subseteq ht
         /\ cursor' = NoNode \/ cursor' \in Lookup(i)
BY DEF AddNode, Lookup

LEMMA NextOwner == Inv /\ [Next]_vars => OneOwner'
<1> USE DEF kernel, memory, fields, OneOwner
<1> SUFFICES ASSUME Inv, [Next]_vars PROVE OneOwner'
  OBVIOUS
<1>0. TypeOK /\ OneOwner /\ PhaseInv
  BY DEF Inv
<1>1. CASE CleanFlags \/ ReadAll \/ ReadFails \/ FileEnd \/ SweepBegin \/ FiniBegin
           \/ Barrier \/ RoutineStop
  BY <1>0, <1>1 DEF CleanFlags, ReadAll, ReadFails, FileEnd, SweepBegin, FiniBegin,
     Barrier, RoutineStop
<1>2. ASSUME NEW i \in Inos, LineGone(i) \/ LineAgain(i) \/ AddSame(i) \/ Find(i)
      PROVE  OneOwner'
  BY <1>0, <1>2 DEF LineGone, LineAgain, AddSame, Find
<1>3. ASSUME NEW i \in Inos, AddNode(i) PROVE OneOwner'
  <2>1. PICK new \in pool : /\ pool' = pool \ {new}
                            /\ ht' = (ht \ Lookup(i)) \cup {new}
    BY <1>3 DEF AddNode
  <2>2. waiting' = waiting \cup Lookup(i) /\ ready' = ready
    BY <1>3 DEF AddNode
  <2>3. Lookup(i) \subseteq ht
    BY <1>3, ReplacedNode
  <2>4. QED
    BY <1>0, <2>1, <2>2, <2>3
<1>4. CASE AddUnlock \/ SweepEnd \/ FindUnlock \/ RemoveUnlock
  BY <1>0, <1>4 DEF AddUnlock, SweepEnd, FindUnlock, RemoveUnlock, ReadUnlock
<1>5. ASSUME NEW n \in Nodes, Sweep(n) \/ RemoveOne(n) PROVE OneOwner'
  BY <1>0, <1>5 DEF Sweep, RemoveOne, PhaseInv
<1>6. ASSUME NEW n \in Nodes, Reclaim(n) PROVE OneOwner'
  BY <1>0, <1>6 DEF Reclaim
<1>7. ASSUME NEW i \in Inos, NEW s \in Socks \cup {NoSock}, SocketChanges(i, s)
      PROVE  OneOwner'
  BY <1>0, <1>7 DEF SocketChanges
<1>8. CASE UNCHANGED vars
  BY <1>0, <1>8 DEF vars
<1>9. QED
  BY <1>1, <1>2, <1>3, <1>4, <1>5, <1>6, <1>7, <1>8 DEF Next, Scan, Fini

LEMMA NextPhase == Inv /\ [Next]_vars => PhaseInv'
<1> USE FilesAssumption DEF kernel, memory, fields, PhaseInv
<1> SUFFICES ASSUME Inv, [Next]_vars PROVE PhaseInv'
  OBVIOUS
<1>0. TypeOK /\ OneOwner /\ PhaseInv /\ Len(Files) \in Nat
  BY DEF Inv
<1>1. CASE CleanFlags \/ ReadAll \/ ReadFails \/ FileEnd
  BY <1>0, <1>1 DEF CleanFlags, ReadAll, ReadFails, FileEnd
<1>2. CASE SweepBegin \/ FiniBegin \/ Barrier \/ RoutineStop
  BY <1>0, <1>2 DEF SweepBegin, FiniBegin, Barrier, RoutineStop
<1>3. ASSUME NEW i \in Inos, LineGone(i) \/ LineAgain(i) \/ AddSame(i) \/ Find(i)
      PROVE  PhaseInv'
  BY <1>0, <1>3 DEF LineGone, LineAgain, AddSame, Line, Find
<1>4. ASSUME NEW i \in Inos, AddNode(i) PROVE PhaseInv'
  BY <1>0, <1>4 DEF AddNode, Line
<1>5. CASE AddUnlock \/ SweepEnd \/ FindUnlock \/ RemoveUnlock
  BY <1>0, <1>5 DEF AddUnlock, SweepEnd, FindUnlock, RemoveUnlock, ReadUnlock
<1>6. ASSUME NEW n \in Nodes, Sweep(n) \/ RemoveOne(n) PROVE PhaseInv'
  BY <1>0, <1>6 DEF Sweep, RemoveOne
<1>7. ASSUME NEW n \in Nodes, Reclaim(n) PROVE PhaseInv'
  BY <1>0, <1>7 DEF Reclaim
<1>8. ASSUME NEW i \in Inos, NEW s \in Socks \cup {NoSock}, SocketChanges(i, s)
      PROVE  PhaseInv'
  BY <1>0, <1>8 DEF SocketChanges
<1>9. CASE UNCHANGED vars
  BY <1>0, <1>9 DEF vars
<1>10. QED
  BY <1>1, <1>2, <1>3, <1>4, <1>5, <1>6, <1>7, <1>8, <1>9 DEF Next, Scan, Fini

LEMMA NextCursor == Inv /\ [Next]_vars => CursorIsLive'
<1> USE DEF kernel, memory, fields, CursorIsLive
<1> SUFFICES ASSUME Inv, [Next]_vars PROVE CursorIsLive'
  OBVIOUS
<1>0. TypeOK /\ OneOwner /\ PhaseInv /\ CursorIsLive
  BY DEF Inv
<1>1. CASE CleanFlags \/ ReadAll \/ ReadFails \/ FileEnd \/ SweepBegin \/ FiniBegin
           \/ Barrier \/ RoutineStop
  BY <1>0, <1>1 DEF CleanFlags, ReadAll, ReadFails, FileEnd, SweepBegin, FiniBegin,
     Barrier, RoutineStop
<1>2. ASSUME NEW i \in Inos, LineGone(i) \/ LineAgain(i) \/ AddSame(i)
      PROVE  CursorIsLive'
  BY <1>0, <1>2 DEF LineGone, LineAgain, AddSame
<1>3. ASSUME NEW i \in Inos, Find(i) PROVE CursorIsLive'
  BY <1>0, <1>3 DEF Find, Lookup, OneOwner
<1>4. ASSUME NEW i \in Inos, AddNode(i) PROVE CursorIsLive'
  <2>1. Lookup(i) \subseteq ht /\ (cursor' = NoNode \/ cursor' \in Lookup(i))
    BY <1>4, ReplacedNode
  <2>2. pool' \subseteq pool /\ ready' = ready
    BY <1>4 DEF AddNode
  <2>3. QED
    BY <1>0, <2>1, <2>2 DEF OneOwner
<1>5. CASE AddUnlock \/ SweepEnd \/ FindUnlock \/ RemoveUnlock
  BY <1>5 DEF AddUnlock, SweepEnd, FindUnlock, RemoveUnlock, ReadUnlock
<1>6. ASSUME NEW n \in Nodes, Sweep(n) \/ RemoveOne(n) PROVE CursorIsLive'
  BY <1>0, <1>6 DEF Sweep, RemoveOne, PhaseInv, OneOwner
<1>7. ASSUME NEW n \in Nodes, Reclaim(n) PROVE CursorIsLive'
  BY <1>0, <1>7 DEF Reclaim
<1>8. ASSUME NEW i \in Inos, NEW s \in Socks \cup {NoSock}, SocketChanges(i, s)
      PROVE  CursorIsLive'
  BY <1>0, <1>8 DEF SocketChanges
<1>9. CASE UNCHANGED vars
  BY <1>0, <1>9 DEF vars
<1>10. QED
  BY <1>1, <1>2, <1>3, <1>4, <1>5, <1>6, <1>7, <1>8, <1>9 DEF Next, Scan, Fini

-----------------------------------------------------------------------------
(* What the table holds *)

\* AddNode in full: the new node is the only entry of its inode.
LEMMA AddedNode ==
  ASSUME Inv, NEW i \in Inos, AddNode(i)
  PROVE  \E new \in pool :
            /\ new \in Nodes /\ new \notin ht
            /\ ht' = (ht \ Lookup(i)) \cup {new}
            /\ ino'[new] = i /\ si'[new] = sockets[i] /\ is_update'[new] = 1
            /\ \A n \in ht : /\ ino'[n] = ino[n] /\ si'[n] = si[n]
                             /\ is_update'[n] = is_update[n]
            /\ sockets[i] \in Socks /\ sockets[i] # NoSock
            /\ sockets[i].sock_type = Files[file]
            /\ listed' = [listed EXCEPT ![i] = sockets[i]]
            /\ todo' = todo \ {i}
            /\ pc = "lines" /\ pc' = "added" /\ file' = file /\ dups' = dups
            /\ left' = left
<1>1. PICK new \in pool : /\ ht' = (ht \ Lookup(i)) \cup {new}
                          /\ ino' = [ino EXCEPT ![new] = i]
                          /\ si' = [si EXCEPT ![new] = sockets[i]]
                          /\ is_update' = [is_update EXCEPT ![new] = 1]
  BY DEF AddNode
<1>2. TypeOK /\ OneOwner
  BY DEF Inv
<1>3. new \in Nodes /\ new \notin ht
  BY <1>1, <1>2 DEF TypeOK, OneOwner
<1>4. /\ ino'[new] = i /\ si'[new] = sockets[i] /\ is_update'[new] = 1
      /\ \A n \in ht : /\ ino'[n] = ino[n] /\ si'[n] = si[n]
                       /\ is_update'[n] = is_update[n]
  BY <1>1, <1>2, <1>3 DEF TypeOK
<1>5. /\ sockets[i] \in Socks /\ sockets[i] # NoSock
      /\ sockets[i].sock_type = Files[file]
  <2>1. HasType(i, Files[file])
    BY DEF AddNode, Line
  <2>2. QED
    BY <1>2, <2>1, LineIsSocket
<1>6. QED
  BY <1>1, <1>3, <1>4, <1>5 DEF AddNode, Line

\* AddSame in full: one entry gets one mark more.
LEMMA MarkedNode ==
  ASSUME Inv, NEW i \in Inos, AddSame(i)
  PROVE  \E n \in ht :
            /\ n \in Nodes /\ ino[n] = i /\ si[n] = sockets[i]
            /\ is_update'[n] = is_update[n] + 1
            /\ \A m \in ht : m # n => is_update'[m] = is_update[m]
            /\ sockets[i] \in Socks /\ sockets[i] # NoSock
            /\ sockets[i].sock_type = Files[file]
            /\ listed' = [listed EXCEPT ![i] = sockets[i]]
            /\ todo' = todo \ {i}
            /\ ht' = ht /\ ino' = ino /\ si' = si /\ left' = left
            /\ pc = "lines" /\ pc' = pc /\ file' = file /\ dups' = dups
<1>1. PICK n \in Lookup(i) : /\ si[n] = sockets[i]
                             /\ is_update' = [is_update EXCEPT ![n] = @ + 1]
  BY DEF AddSame
<1>2. TypeOK
  BY DEF Inv
<1>3. n \in ht /\ n \in Nodes /\ ino[n] = i
  BY <1>1, <1>2 DEF Lookup, TypeOK
<1>4. /\ is_update'[n] = is_update[n] + 1
      /\ \A m \in ht : m # n => is_update'[m] = is_update[m]
  BY <1>1, <1>2, <1>3 DEF TypeOK
<1>5. /\ sockets[i] \in Socks /\ sockets[i] # NoSock
      /\ sockets[i].sock_type = Files[file]
  <2>1. HasType(i, Files[file])
    BY DEF AddSame, Line
  <2>2. QED
    BY <1>2, <2>1, LineIsSocket
<1>6. QED
  BY <1>1, <1>3, <1>4, <1>5 DEF AddSame, Line, memory

LEMMA NextOneEntry == Inv /\ [Next]_vars => OneEntryPerInode'
<1> USE DEF kernel, memory, fields, OneEntryPerInode
<1> SUFFICES ASSUME Inv, [Next]_vars PROVE OneEntryPerInode'
  OBVIOUS
<1>0. TypeOK /\ OneEntryPerInode
  BY DEF Inv
<1>1. CASE CleanFlags \/ ReadAll \/ ReadFails \/ FileEnd \/ SweepBegin \/ FiniBegin
           \/ Barrier \/ RoutineStop
  BY <1>0, <1>1 DEF CleanFlags, ReadAll, ReadFails, FileEnd, SweepBegin, FiniBegin,
     Barrier, RoutineStop
<1>2. ASSUME NEW i \in Inos, LineGone(i) \/ LineAgain(i) \/ AddSame(i) \/ Find(i)
      PROVE  OneEntryPerInode'
  BY <1>0, <1>2 DEF LineGone, LineAgain, AddSame, Find
<1>3. ASSUME NEW i \in Inos, AddNode(i) PROVE OneEntryPerInode'
  <2>1. PICK new \in pool :
            /\ ht' = (ht \ Lookup(i)) \cup {new} /\ ino'[new] = i
            /\ \A n \in ht : ino'[n] = ino[n]
    BY <1>3, AddedNode
  <2>2. \A n \in ht \ Lookup(i) : ino'[n] # i
    BY <2>1 DEF Lookup
  <2>3. QED
    BY <1>0, <2>1, <2>2
<1>4. CASE AddUnlock \/ SweepEnd \/ FindUnlock \/ RemoveUnlock
  BY <1>0, <1>4 DEF AddUnlock, SweepEnd, FindUnlock, RemoveUnlock
<1>5. ASSUME NEW n \in Nodes, Sweep(n) \/ RemoveOne(n) PROVE OneEntryPerInode'
  BY <1>0, <1>5 DEF Sweep, RemoveOne
<1>6. ASSUME NEW n \in Nodes, Reclaim(n) PROVE OneEntryPerInode'
  BY <1>0, <1>6 DEF Reclaim
<1>7. ASSUME NEW i \in Inos, NEW s \in Socks \cup {NoSock}, SocketChanges(i, s)
      PROVE  OneEntryPerInode'
  BY <1>0, <1>7 DEF SocketChanges
<1>8. CASE UNCHANGED vars
  BY <1>0, <1>8 DEF vars
<1>9. QED
  BY <1>1, <1>2, <1>3, <1>4, <1>5, <1>6, <1>7, <1>8 DEF Next, Scan, Fini

LEMMA NextEntry == Inv /\ [Next]_vars => EntryInv'
<1> USE DEF kernel, memory, fields, EntryInv, Serving
<1> SUFFICES ASSUME Inv, [Next]_vars PROVE EntryInv'
  OBVIOUS
<1>0. TypeOK /\ OneEntryPerInode /\ EntryInv /\ PhaseInv
  BY DEF Inv
<1>1. CASE CleanFlags
  BY <1>0, <1>1 DEF CleanFlags
<1>2. CASE ReadAll \/ ReadFails \/ FileEnd \/ RoutineStop
  BY <1>0, <1>2 DEF ReadAll, ReadFails, FileEnd, RoutineStop
<1>3. CASE SweepBegin \/ FiniBegin \/ Barrier
  BY <1>0, <1>3 DEF SweepBegin, FiniBegin, Barrier
<1>4. ASSUME NEW i \in Inos, LineGone(i) \/ LineAgain(i) \/ Find(i) PROVE EntryInv'
  BY <1>0, <1>4 DEF LineGone, LineAgain, Find
<1>5. ASSUME NEW i \in Inos, AddSame(i) PROVE EntryInv'
  <2>1. PICK n \in ht :
            /\ n \in Nodes /\ ino[n] = i /\ si[n] = sockets[i]
            /\ is_update'[n] = is_update[n] + 1
            /\ \A m \in ht : m # n => is_update'[m] = is_update[m]
            /\ listed' = [listed EXCEPT ![i] = sockets[i]]
            /\ ht' = ht /\ ino' = ino /\ si' = si
            /\ pc = "lines" /\ pc' = pc
    BY <1>5, MarkedNode
  <2>2. is_update'[n] > 0
    BY <1>0, <2>1 DEF TypeOK
  <2>3. ASSUME NEW j \in Inos, listed'[j] # NoSock
        PROVE  \E m \in ht : ino[m] = j /\ si[m] = listed'[j] /\ is_update'[m] > 0
    <3>1. CASE j = i
      BY <1>0, <2>1, <2>2, <3>1 DEF TypeOK
    <3>2. CASE j # i
      <4>1. listed'[j] = listed[j]
        BY <1>0, <2>1, <3>2 DEF TypeOK
      <4>2. PICK m \in ht : ino[m] = j /\ si[m] = listed[j] /\ is_update[m] > 0
        BY <1>0, <2>1, <2>3, <4>1
      <4>3. QED
        BY <2>1, <3>2, <4>1, <4>2
    <3>3. QED
      BY <3>1, <3>2
  <2>4. QED
    BY <1>0, <2>1, <2>3
<1>6. ASSUME NEW i \in Inos, AddNode(i) PROVE EntryInv'
  <2>1. PICK new \in pool :
            /\ new \notin ht
            /\ ht' = (ht \ Lookup(i)) \cup {new}
            /\ ino'[new] = i /\ si'[new] = sockets[i] /\ is_update'[new] = 1
            /\ \A n \in ht : /\ ino'[n] = ino[n] /\ si'[n] = si[n]
                             /\ is_update'[n] = is_update[n]
            /\ sockets[i] \in Socks
            /\ listed' = [listed EXCEPT ![i] = sockets[i]]
            /\ pc = "lines" /\ pc' = "added"
    BY <1>6, AddedNode
  <2>2. \A n \in ht' : ino'[n] \in Inos /\ si'[n] \in Socks
    BY <1>0, <2>1
  <2>3. ASSUME NEW j \in Inos, listed'[j] # NoSock
        PROVE  \E m \in ht' : ino'[m] = j /\ si'[m] = listed'[j] /\ is_update'[m] > 0
    <3>1. CASE j = i
      BY <1>0, <2>1, <3>1 DEF TypeOK
    <3>2. CASE j # i
      <4>1. listed'[j] = listed[j]
        BY <1>0, <2>1, <3>2 DEF TypeOK
      <4>2. PICK m \in ht : ino[m] = j /\ si[m] = listed[j] /\ is_update[m] > 0
        BY <1>0, <2>1, <2>3, <4>1
      <4>3. m \in ht'
        BY <2>1, <3>2, <4>2 DEF Lookup
      <4>4. QED
        BY <2>1, <4>1, <4>2, <4>3
    <3>3. QED
      BY <3>1, <3>2
  <2>4. QED
    BY <2>1, <2>2, <2>3
<1>7. CASE AddUnlock \/ SweepEnd \/ FindUnlock \/ RemoveUnlock
  BY <1>0, <1>7 DEF AddUnlock, SweepEnd, FindUnlock, RemoveUnlock
<1>8. ASSUME NEW n \in Nodes, Sweep(n) PROVE EntryInv'
  <2>1. /\ is_update[n] \in Nat
        /\ is_update[n] = 0 => ht' = ht \ {n}
        /\ is_update[n] # 0 => ht' = ht
        /\ left' = left \ {n} /\ pc = "sweep" /\ pc' = pc
        /\ UNCHANGED <<ino, si, is_update, listed>>
    BY <1>0, <1>8 DEF Sweep, TypeOK
  <2>2. QED
    BY <1>0, <2>1
<1>9. ASSUME NEW n \in Nodes, RemoveOne(n) PROVE EntryInv'
  BY <1>0, <1>9 DEF RemoveOne
<1>10. ASSUME NEW n \in Nodes, Reclaim(n) PROVE EntryInv'
  BY <1>0, <1>10 DEF Reclaim
<1>11. ASSUME NEW i \in Inos, NEW s \in Socks \cup {NoSock}, SocketChanges(i, s)
       PROVE  EntryInv'
  BY <1>0, <1>11 DEF SocketChanges
<1>12. CASE UNCHANGED vars
  BY <1>0, <1>12 DEF vars
<1>13. QED
  BY <1>1, <1>2, <1>3, <1>4, <1>5, <1>6, <1>7, <1>8, <1>9, <1>10, <1>11, <1>12
     DEF Next, Scan, Fini

-----------------------------------------------------------------------------
(* How often an entry is marked *)

\* Files that are still to be read name other types than the one being read.
LEMMA LaterFilesDiffer ==
  ASSUME NEW j \in 1 .. Len(Files), NEW k \in 1 .. Len(Files), j < k
  PROVE  Files[j] # Files[k]
BY FilesAssumption

LEMMA NextCount == Inv /\ [Next]_vars => CountInv'
<1> USE FilesAssumption DEF kernel, memory, fields, CountInv, Serving
<1> SUFFICES ASSUME Inv, [Next]_vars PROVE CountInv'
  OBVIOUS
<1>0. TypeOK /\ OneEntryPerInode /\ EntryInv /\ PhaseInv /\ CountInv /\ Len(Files) \in Nat
  BY DEF Inv
<1>t. /\ dups \in Nat /\ \A n \in ht : is_update[n] \in Nat /\ ino[n] \in Inos
      /\ file \in Nat
  BY <1>0 DEF TypeOK, EntryInv
<1>1. CASE CleanFlags
  <2>1. \A n \in ht : is_update'[n] = is_update[n] - 1
    BY <1>0, <1>1 DEF CleanFlags, TypeOK
  <2>2. ht' = ht /\ dups' = dups /\ pc = "idle"
    BY <1>1 DEF CleanFlags
  <2>3. QED
    BY <1>0, <1>t, <2>1, <2>2
<1>2. CASE ReadAll \/ ReadFails \/ FileEnd \/ SweepBegin
  <2>1. /\ ht' = ht /\ dups' = dups /\ is_update' = is_update /\ ino' = ino
        /\ listed' = listed
    BY <1>2 DEF ReadAll, ReadFails, FileEnd, SweepBegin
  <2>2. pc \in {"open", "lines"}
    BY <1>2 DEF ReadAll, ReadFails, FileEnd, SweepBegin
  <2>3. ASSUME NEW n \in ht, Coming(n)' PROVE Coming(n)
    <3>1. CASE ReadAll
      BY <1>0, <1>t, <2>3, <3>1 DEF ReadAll, Coming, PhaseInv
    <3>2. CASE ReadFails
      BY <1>0, <1>t, <2>3, <3>2 DEF ReadFails, Coming
    <3>3. CASE FileEnd
      BY <1>0, <1>t, <2>3, <3>3 DEF FileEnd, Coming
    <3>4. CASE SweepBegin
      BY <2>3, <3>4 DEF SweepBegin, Coming
    <3>5. QED
      BY <1>2, <3>1, <3>2, <3>3, <3>4
  <2>4. QED
    BY <1>0, <2>1, <2>2, <2>3
<1>3. CASE FiniBegin \/ Barrier \/ RemoveUnlock
  BY <1>3 DEF FiniBegin, Barrier, RemoveUnlock
<1>4. CASE RoutineStop
  BY <1>0, <1>4 DEF RoutineStop, Coming
<1>5. ASSUME NEW i \in Inos, LineGone(i) \/ Find(i) PROVE CountInv'
  BY <1>0, <1>5 DEF LineGone, Find, Coming
<1>6. ASSUME NEW i \in Inos, LineAgain(i) PROVE CountInv'
  <2>1. /\ ht' = ht /\ dups' = dups + 1 /\ is_update' = is_update /\ pc = "lines"
    BY <1>6 DEF LineAgain
  <2>2. QED
    BY <1>0, <1>t, <2>1
<1>7. ASSUME NEW i \in Inos, AddSame(i) PROVE CountInv'
  <2>1. PICK n \in ht :
            /\ n \in Nodes /\ ino[n] = i /\ si[n] = sockets[i]
            /\ is_update'[n] = is_update[n] + 1
            /\ \A m \in ht : m # n => is_update'[m] = is_update[m]
            /\ sockets[i] \in Socks /\ sockets[i] # NoSock
            /\ sockets[i].sock_type = Files[file]
            /\ listed' = [listed EXCEPT ![i] = sockets[i]]
            /\ todo' = todo \ {i}
            /\ ht' = ht /\ ino' = ino /\ si' = si
            /\ pc = "lines" /\ pc' = pc /\ file' = file /\ dups' = dups
    BY <1>7, MarkedNode
  <2>2. i \in todo
    BY <1>7 DEF AddSame, Line
  <2>3. is_update[n] <= dups
    BY <1>0, <2>1, <2>2 DEF Coming
  <2>4. ~ Coming(n)'
    BY <1>0, <2>1, LaterFilesDiffer DEF Coming, PhaseInv
  <2>5. listed'[i] # NoSock
    BY <1>0, <2>1 DEF TypeOK
  <2>6. ASSUME NEW m \in ht, m # n
        PROVE  /\ is_update'[m] <= dups + 1
               /\ listed'[ino'[m]] = NoSock \/ Coming(m)' => is_update'[m] <= dups
    <3>1. ino[m] # i
      BY <1>0, <2>1, <2>6 DEF OneEntryPerInode
    <3>2. listed'[ino[m]] = listed[ino[m]]
      BY <1>0, <1>t, <2>1, <3>1 DEF TypeOK
    <3>3. Coming(m)' => Coming(m)
      BY <2>1 DEF Coming
    <3>4. QED
      BY <1>0, <2>1, <2>6, <3>2, <3>3
  <2>7. QED
    BY <1>t, <2>1, <2>3, <2>4, <2>5, <2>6
<1>8. ASSUME NEW i \in Inos, AddNode(i) PROVE CountInv'
  <2>1. PICK new \in pool :
            /\ new \notin ht
            /\ ht' = (ht \ Lookup(i)) \cup {new}
            /\ ino'[new] = i /\ si'[new] = sockets[i] /\ is_update'[new] = 1
            /\ \A n \in ht : /\ ino'[n] = ino[n] /\ si'[n] = si[n]
                             /\ is_update'[n] = is_update[n]
            /\ sockets[i] # NoSock /\ sockets[i].sock_type = Files[file]
            /\ listed' = [listed EXCEPT ![i] = sockets[i]]
            /\ todo' = todo \ {i}
            /\ pc = "lines" /\ pc' = "added" /\ file' = file /\ dups' = dups
    BY <1>8, AddedNode
  <2>2. ~ Coming(new)'
    BY <1>0, <2>1, LaterFilesDiffer DEF Coming, PhaseInv
  <2>3. listed'[i] # NoSock
    BY <1>0, <2>1 DEF TypeOK
  <2>4. ASSUME NEW m \in ht \ Lookup(i)
        PROVE  /\ is_update'[m] <= dups + 1
               /\ listed'[ino'[m]] = NoSock \/ Coming(m)' => is_update'[m] <= dups
    <3>1. ino[m] # i
      BY DEF Lookup
    <3>2. listed'[ino[m]] = listed[ino[m]]
      BY <1>0, <1>t, <2>1, <3>1 DEF TypeOK
    <3>3. Coming(m)' => Coming(m)
      BY <2>1, m \in ht DEF Coming
    <3>4. QED
      BY <1>0, <2>1, <3>2, <3>3
  <2>5. QED
    BY <1>t, <2>1, <2>2, <2>3, <2>4
<1>9. CASE AddUnlock \/ SweepEnd \/ FindUnlock
  BY <1>0, <1>9 DEF AddUnlock, SweepEnd, FindUnlock, Coming
<1>10. ASSUME NEW n \in Nodes, Sweep(n) PROVE CountInv'
  BY <1>0, <1>10 DEF Sweep, Coming
<1>11. ASSUME NEW n \in Nodes, RemoveOne(n) PROVE CountInv'
  BY <1>11 DEF RemoveOne
<1>12. ASSUME NEW n \in Nodes, Reclaim(n) PROVE CountInv'
  BY <1>0, <1>12 DEF Reclaim, Coming
<1>13. ASSUME NEW i \in Inos, NEW s \in Socks \cup {NoSock}, SocketChanges(i, s)
       PROVE  CountInv'
  BY <1>0, <1>13 DEF SocketChanges, Coming
<1>14. CASE UNCHANGED vars
  BY <1>0, <1>14 DEF vars, Coming
<1>15. QED
  BY <1>1, <1>2, <1>3, <1>4, <1>5, <1>6, <1>7, <1>8, <1>9, <1>10, <1>11, <1>12,
     <1>13, <1>14 DEF Next, Scan, Fini

-----------------------------------------------------------------------------
(* The theorems *)

\* The conjunction of the parts is an invariant of the socket table.
THEOREM Invariance == Spec => []Inv
<1>1. Inv /\ [Next]_vars => Inv'
  BY NextTypes, NextOwner, NextPhase, NextCursor, NextOneEntry, NextEntry, NextCount
     DEF Inv
<1>2. QED
  BY InitInv, <1>1, PTL DEF Spec

\* No node of the pool is lost, freed twice by __free_sock_info_node, or given back
\* after fini_sock_info_mgr destroyed the pool, for any number of nodes.
THEOREM NodesOwned == Spec => []NodesAreOwned
<1>1. Inv => NodesAreOwned
  BY DEF Inv, PhaseInv, OneOwner, NodesAreOwned, NoLateCallback
<1>2. QED
  BY Invariance, <1>1, PTL

\* The node that the apps thread reads, replaced or iterates from is never one
\* that the RCU thread may already have given back to the pool.
THEOREM CursorLive == Spec => []CursorIsLive
<1>1. Inv => CursorIsLive
  BY DEF Inv
<1>2. QED
  BY Invariance, <1>1, PTL

\* find_sock_info_i has one answer for an inode, and between two scans it finds
\* every socket of the last scan with the type and state it had there.
THEOREM LookupExact == Spec => []LookupIsExact
<1>1. Inv => LookupIsExact
  BY DEF Inv, EntryInv, Serving, LookupIsExact, ListedIsFound
<1>2. QED
  BY Invariance, <1>1, PTL

\* However many scans there are, an entry that the last one did not list has no
\* more marks than there were duplicate lines in all, so the sweeps remove it.
THEOREM UnlistedGoes == Spec => []UnlistedWasDuplicated
<1>1. Inv => UnlistedWasDuplicated
  BY DEF Inv, CountInv, Serving, UnlistedWasDuplicated
<1>2. QED
  BY Invariance, <1>1, PTL

=============================================================================
