------------------------- MODULE UserStorage_proofs --------------------------
(***************************************************************************)
(* What UserStorage guarantees for every number of users, requests and     *)
(* ids, every quota and every size: types, the quota, the counter as the   *)
(* sum of the files, the objects and the tree of the rows, the number of   *)
(* files, and FileSpace as what the requests implement.                    *)
(***************************************************************************)
EXTENDS UserStorage, SumTheorems

Making   == {"reserve", "resolve", "store", "record", "insertDir"}
Deleting == {"discard", "erase", "refund"}

\* The ids of rows that requests are about to insert, and those that were rows
\* or never will be.
Maker(s) == sess[s].at \in Making
Pending  == {sess[s].entry : s \in {t \in Sessions : Maker(t)}}
Settled  == born \ Pending

\* What a request holds at each of its steps, and the lock.
Shape(s) ==
    LET r == sess[s] IN
    /\ r.at # "idle" => r.user # NULL /\ r.entry # NULL /\ r.entry \in born
    /\ r.at \in {"reserve", "resolve", "store", "record", "refresh", "unpin"} =>
          r.name # NULL /\ r.content # NULL
    /\ r.at = "insertDir" => r.name # NULL /\ r.content = NULL
    /\ Maker(s) /\ r.parent # NULL =>
          /\ r.parent \in Settled
          /\ r.parent \in Rows => IsDir(r.parent) /\ file[r.parent].owner = r.user
    /\ r.at \in {"refresh", "unpin"} \cup Deleting => r.entry \in Settled
    /\ r.at \in Deleting /\ r.entry \in Rows =>
          /\ file[r.entry].owner = r.user
          /\ ~IsDir(r.entry) => r.victims = {<<r.entry, file[r.entry].content>>}
    /\ r.at \notin Deleting => r.victims = {}
    /\ IsFiniteSet(r.victims)
    /\ \A v \in r.victims : v[1] \in condemned \cap Settled
    /\ \A u \in Users : lock[u] = s <=> r.at \in {"resolve", "store", "record"} /\ r.user = u

Shapes == \A s \in Sessions : Shape(s)

\* Every id is one request's.
OwnIds ==
    /\ IsFiniteSet(born) /\ Rows \subseteq Settled
    /\ \A s, t \in Sessions : s # t /\ Maker(s) /\ Maker(t) => sess[s].entry # sess[t].entry

\* The counter is a number of bytes, within the quota.
WithinQuota == (\A u \in Users : used[u] >= 0) /\ QuotaHolds

\* The id e is that of a row, an upload or a condemned file whose object has
\* the key k.
Holds(e, k) ==
    \/ e \in Rows /\ ~IsDir(e) /\ KeyOf(e, file[e].content) = k
    \/ \E s \in Sessions : /\ sess[s].at \in {"record", "refresh", "unpin"} /\ sess[s].entry = e
                           /\ KeyOf(e, sess[s].content) = k
    \/ \E s \in Sessions : \E v \in sess[s].victims : v[1] = e /\ KeyOf(e, v[2]) = k

\* Each of them has stored it.
StoresCounted ==
    \A k \in Keys, e \in Entries : Holds(e, k) =>
        stores[k] >= 1 /\ \A f \in Entries : f # e /\ Holds(f, k) => stores[k] = 2

\* The object of an upload is kept until its row is.
KeptInFlight ==
    \A s \in Sessions : sess[s].at = "record" /\ stores[KeyOf(sess[s].entry, sess[s].content)] = 1
                            => KeyOf(sess[s].entry, sess[s].content) \in stored

\* Rows and the requests that may add one.
Makers(u) == {s \in Sessions : Maker(s) /\ sess[s].user = u}

RoomLeft == \A u \in Users :
                Cardinality(RowsOf(u)) + Cardinality(Makers(u)) < MaxFiles + Cardinality(Sessions)

\* The inductive invariant.
IInv ==
    /\ TypeOK
    /\ Shapes
    /\ OwnIds
    /\ WithinQuota
    /\ UsedIsSum
    /\ StoresCounted
    /\ KeptInFlight
    /\ KeptUntilDeleted
    /\ TreeIsWhole
    /\ RoomLeft

-----------------------------------------------------------------------------
(***************************************************************************)
(* The steps.                                                              *)
(***************************************************************************)
\* A transaction that ends and leaves nothing but what is committed.
Quits(s) == Finish(s) /\ UNCHANGED <<file, used, stored, ghosts>>

\* An upload's transaction that fails.
Fails(s) == /\ sess[s].at = "record" /\ Goto(s, "unpin")
            /\ lock' = [lock EXCEPT ![sess[s].user] = NULL]
            /\ UNCHANGED <<file, used, stored, ghosts>>

\* Reservations, parents and stores that succeed; a store that fails.
Locks(s) == /\ sess[s].at = "reserve" /\ CanLock(s) /\ Fits(s)
            /\ Goto(s, "resolve") /\ lock' = [lock EXCEPT ![sess[s].user] = s]
            /\ UNCHANGED <<file, used, stored, ghosts>>

Finds(s) == /\ sess[s].at = "resolve"
            /\ \E p \in Dirs(sess[s].user) :
                  sess' = [sess EXCEPT ![s] = [sess[s] EXCEPT !.at = "store", !.path = <<>>, !.parent = p]]
            /\ UNCHANGED <<file, used, lock, stored, ghosts>>

StoreKey(s) == KeyOf(sess[s].entry, sess[s].content)
Counts(s)   == /\ sess[s].at = "store"
               /\ stores' = [stores EXCEPT ![StoreKey(s)] = IF @ = 2 THEN 2 ELSE @ + 1]
               /\ UNCHANGED <<file, used, born, condemned, disowned, miscounted>>

Stores(s)    == Counts(s) /\ stored' = stored \cup {StoreKey(s)} /\ Goto(s, "record") /\ UNCHANGED lock
StoreLost(s) == Counts(s) /\ stored' \in {stored, stored \cup {StoreKey(s)}} /\ Finish(s)

\* A row that is not read back, one that is made, and one that is being deleted.
Misses(s) == /\ sess[s].at = "refresh" /\ Goto(s, "unpin")
             /\ UNCHANGED <<file, used, lock, stored, ghosts>>

Makes(s) == /\ sess[s].at = "insertDir" /\ InsertValid(s) /\ Insert(s)
            /\ Finish(s) /\ UNCHANGED <<used, stored, ghosts>>

Erases(s) == /\ sess[s].at = "erase"
             /\ Goto(s, "refund") /\ UNCHANGED <<file, used, lock, stored, ghosts>>

Move(s) ==
    \/ Quits(s) \/ Fails(s) \/ Locks(s) \/ Finds(s) \/ Stores(s) \/ StoreLost(s) \/ Record(s)
    \/ Misses(s) \/ Unpin(s) \/ Makes(s) \/ Discard(s) \/ Erases(s) \/ Refund(s)
    \/ \E u \in Users : Upload(s, u) \/ Mkdir(s, u)
    \/ \E e \in Entries : Delete(s, e)

-----------------------------------------------------------------------------
LEMMA Typed ==
    ASSUME TypeOK
    PROVE  /\ \A s \in Sessions : sess[s] \in Session
           /\ \A e \in Rows : file[e] \in File
           /\ NULL \notin Users /\ NULL \notin Names /\ NULL \notin Contents /\ NULL \notin Entries
           /\ NULL \notin Sessions /\ NULL \notin File /\ Contents \cap Entries = {}
           /\ IsFiniteSet(Sessions) /\ Sessions # {} /\ Quota \in Nat /\ MaxFiles \in Nat
           /\ \A c \in Contents : Size[c] \in Nat /\ Size[c] > 0
  BY ConstantsAssumption DEF TypeOK, Rows

LEMMA IdleTyped == Idle \in Session
  BY DEF Idle, Session, Steps

LEMMA KeyTyped == ASSUME NEW e \in Entries, NEW c \in Contents PROVE KeyOf(e, c) \in Keys
  BY DEF KeyOf, Keys

\* A request that goes on.
LEMMA Went ==
    ASSUME TypeOK, NEW s \in Sessions, NEW step \in Steps, Goto(s, step)
    PROVE  /\ sess' \in [Sessions -> Session]
           /\ sess'[s].at = step /\ sess'[s].user = sess[s].user /\ sess'[s].entry = sess[s].entry
           /\ sess'[s].parent = sess[s].parent /\ sess'[s].name = sess[s].name
           /\ sess'[s].content = sess[s].content /\ sess'[s].victims = sess[s].victims
           /\ \A t \in Sessions \ {s} : sess'[t] = sess[t]
  <1>1. sess' = [sess EXCEPT ![s] = [sess[s] EXCEPT !.at = step]] /\ sess[s] \in Session
    BY Typed DEF Goto, TypeOK
  <1>2. [sess[s] EXCEPT !.at = step] \in Session
    BY <1>1 DEF Session
  <1>3. sess'[s] = [sess[s] EXCEPT !.at = step] /\ \A t \in Sessions \ {s} : sess'[t] = sess[t]
    BY <1>1 DEF TypeOK
  <1>4. sess' \in [Sessions -> Session]
    BY <1>1, <1>2 DEF TypeOK
  <1> QED BY <1>1, <1>3, <1>4 DEF Session

\* A request that ends.
LEMMA Ended ==
    ASSUME TypeOK, NEW s \in Sessions, Finish(s)
    PROVE  /\ sess' \in [Sessions -> Session]
           /\ sess'[s].at = "idle" /\ sess'[s].user = NULL /\ sess'[s].entry = NULL
           /\ sess'[s].parent = NULL /\ sess'[s].name = NULL /\ sess'[s].content = NULL
           /\ sess'[s].victims = {}
           /\ \A t \in Sessions \ {s} : sess'[t] = sess[t]
           /\ lock' \in [Users -> Sessions \cup {NULL}]
           /\ \A u \in Users : lock'[u] = IF lock[u] = s THEN NULL ELSE lock[u]
  <1>1. sess' = [sess EXCEPT ![s] = Idle] /\ lock' = [u \in Users |-> IF lock[u] = s THEN NULL ELSE lock[u]]
    BY DEF Finish
  <1>2. sess'[s] = Idle /\ sess' \in [Sessions -> Session] /\ \A t \in Sessions \ {s} : sess'[t] = sess[t]
    BY <1>1, IdleTyped DEF TypeOK
  <1>3. lock' \in [Users -> Sessions \cup {NULL}]
    BY <1>1 DEF TypeOK
  <1> QED BY <1>1, <1>2, <1>3 DEF Idle

\* A request that begins.
Begins(s, next) == next \in Session /\ sess[s].at = "idle" /\ sess' = [sess EXCEPT ![s] = next]

LEMMA Begun ==
    ASSUME TypeOK, NEW s \in Sessions, NEW next, Begins(s, next)
    PROVE  /\ sess' \in [Sessions -> Session] /\ sess'[s] = next
           /\ \A t \in Sessions \ {s} : sess'[t] = sess[t]
  BY DEF Begins, TypeOK

NewUpload(u, e, path, n, c) ==
    [Idle EXCEPT !.at = "reserve", !.user = u, !.entry = e, !.path = path, !.name = n, !.content = c]
NewDir(u, e, p, n) ==
    [Idle EXCEPT !.at = "insertDir", !.user = u, !.entry = e, !.parent = p, !.name = n]
NewDeletion(e) ==
    [Idle EXCEPT !.at = "discard", !.user = file[e].owner, !.entry = e,
                 !.victims = {<<f, file[f].content>> : f \in Doomed(e)}]

LEMMA NewUploadIs ==
    ASSUME NEW u, NEW e, NEW path, NEW n, NEW c
    PROVE  LET r == NewUpload(u, e, path, n, c) IN
           /\ r.at = "reserve" /\ r.user = u /\ r.entry = e /\ r.parent = NULL /\ r.name = n
           /\ r.content = c /\ r.victims = {}
  BY DEF NewUpload, Idle

LEMMA NewDirIs ==
    ASSUME NEW u, NEW e, NEW p, NEW n
    PROVE  LET r == NewDir(u, e, p, n) IN
           /\ r.at = "insertDir" /\ r.user = u /\ r.entry = e /\ r.parent = p /\ r.name = n
           /\ r.content = NULL /\ r.victims = {}
  BY DEF NewDir, Idle

LEMMA NewDeletionIs ==
    ASSUME NEW e
    PROVE  LET r == NewDeletion(e) IN
           /\ r.at = "discard" /\ r.user = file[e].owner /\ r.entry = e /\ r.parent = NULL
           /\ r.name = NULL /\ r.content = NULL
           /\ r.victims = {<<f, file[f].content>> : f \in Doomed(e)}
  BY DEF NewDeletion, Idle

LEMMA DoomedTyped ==
    ASSUME TypeOK, NEW e \in Rows
    PROVE  /\ Doomed(e) \subseteq Rows /\ \A f \in Doomed(e) : f \in Entries /\ file[f].content \in Contents
           /\ ~IsDir(e) => Doomed(e) = {e}
  <1>1. Doomed(e) \subseteq {f \in Rows : ~IsDir(f)}
    BY DEF Doomed, Below
  <1>2. \A f \in Rows : f \in Entries /\ (~IsDir(f) => file[f].content \in Contents)
    BY Typed DEF Rows, File, IsDir
  <1> QED BY <1>1, <1>2 DEF Doomed

LEMMA UploadStep ==
    ASSUME TypeOK, NEW s \in Sessions, NEW u \in Users, Upload(s, u)
    PROVE  \E e \in Entries \ born, path \in Paths, n \in Names, c \in Contents :
              Begins(s, NewUpload(u, e, path, n, c)) /\ born' = born \cup {e}
  <1>1. PICK e \in Entries \ born, path \in Paths, n \in Names, c \in Contents :
          sess' = [sess EXCEPT ![s] = NewUpload(u, e, path, n, c)] /\ born' = born \cup {e}
    BY DEF Upload, NewUpload
  <1>2. NewUpload(u, e, path, n, c) \in Session
    BY IdleTyped DEF NewUpload, Session, Steps
  <1> QED BY <1>1, <1>2 DEF Begins, Upload

LEMMA MkdirStep ==
    ASSUME TypeOK, NEW s \in Sessions, NEW u \in Users, Mkdir(s, u)
    PROVE  \E e \in Entries \ born, path \in Paths, n \in Names, p \in Dirs(u) :
              Begins(s, NewDir(u, e, p, n)) /\ born' = born \cup {e}
  <1>1. PICK e \in Entries \ born, path \in Paths, n \in Names :
          \E p \in Resolved(u, path) : /\ sess' = [sess EXCEPT ![s] = NewDir(u, e, p, n)]
                                       /\ born' = born \cup {e}
    BY DEF Mkdir, NewDir
  <1>2. PICK p \in Dirs(u) : sess' = [sess EXCEPT ![s] = NewDir(u, e, p, n)] /\ born' = born \cup {e}
    BY <1>1 DEF Resolved
  <1>3. NewDir(u, e, p, n) \in Session
    BY IdleTyped DEF NewDir, Session, Steps, Dirs, RowsOf, Rows
  <1> QED BY <1>2, <1>3 DEF Begins, Mkdir

LEMMA DeleteStep ==
    ASSUME TypeOK, NEW s \in Sessions, NEW e \in Entries, Delete(s, e)
    PROVE  Begins(s, NewDeletion(e)) /\ e \in Rows /\ condemned' = condemned \cup Doomed(e)
  <1>1. /\ e \in Rows /\ sess' = [sess EXCEPT ![s] = NewDeletion(e)] /\ sess[s].at = "idle"
        /\ condemned' = condemned \cup Doomed(e)
    BY DEF Delete, NewDeletion
  <1>2. {<<f, file[f].content>> : f \in Doomed(e)} \subseteq Entries \X Contents
    BY <1>1, DoomedTyped
  <1>3. file[e].owner \in Users
    BY <1>1, Typed DEF File
  <1>4. NewDeletion(e) \in Session
    BY <1>2, <1>3, IdleTyped DEF NewDeletion, Session, Steps
  <1> QED BY <1>1, <1>4 DEF Begins

LEMMA NextMoves ==
    ASSUME TypeOK, Shapes, Next
    PROVE  \E s \in Sessions : Move(s)
  <1>1. PICK s \in Sessions :
          \/ \E u \in Users : Upload(s, u) \/ Mkdir(s, u)
          \/ \E e \in Entries : Delete(s, e)
          \/ Serve(s) \/ Lose(s)
    BY DEF Next
  <1>2. CASE Lose(s)
    BY <1>2 DEF Lose, Move, Quits
  <1>4. CASE Reserve(s)
    BY <1>4 DEF Reserve, Move, Quits, Locks
  <1>5. CASE ResolveParent(s)
    <2>1. CASE Resolved(sess[s].user, sess[s].path) = {}
      BY <1>5, <2>1 DEF ResolveParent, Move, Quits
    <2>2. CASE Resolved(sess[s].user, sess[s].path) # {}
      <3>1. PICK p \in Resolved(sess[s].user, sess[s].path) :
              sess' = [sess EXCEPT ![s].at = "store", ![s].path = <<>>, ![s].parent = p]
        BY <1>5, <2>2 DEF ResolveParent
      <3>2. p \in Dirs(sess[s].user)
        BY DEF Resolved
      <3>3. sess' = [sess EXCEPT ![s] = [sess[s] EXCEPT !.at = "store", !.path = <<>>, !.parent = p]]
        BY <3>1 DEF TypeOK
      <3> QED BY <1>5, <2>2, <3>2, <3>3 DEF ResolveParent, Move, Finds
    <2> QED BY <2>1, <2>2
  <1>6. CASE Store(s)
    BY <1>6 DEF Store, Move, Stores, StoreLost, Counts, StoreKey
  <1>7. CASE Refresh(s)
    BY <1>7 DEF Refresh, Move, Quits, Misses
  <1>8. CASE RecordFails(s)
    BY <1>8 DEF RecordFails, Move, Fails
  <1>9. CASE InsertDir(s)
    BY <1>9 DEF InsertDir, Move, Quits, Makes
  <1>10. CASE Erase(s)
    BY <1>10 DEF Erase, Move, Quits, Erases
  <1>11. CASE EraseFails(s)
    BY <1>11 DEF EraseFails, Move, Quits
  <1> QED BY <1>1, <1>2, <1>4, <1>5, <1>6, <1>7, <1>8, <1>9, <1>10, <1>11 DEF Move, Serve

\* What an upload or a mkdir is about to insert.
LEMMA InsertedTyped ==
    ASSUME TypeOK, NEW s \in Sessions, Shape(s), sess[s].at \in {"record", "insertDir"}, Insert(s)
    PROVE  /\ file' \in [Entries -> File \cup {NULL}]
           /\ sess[s].entry \in Entries /\ sess[s].user \in Users
           /\ file'[sess[s].entry] = [owner |-> sess[s].user, parent |-> sess[s].parent,
                                      name |-> sess[s].name, content |-> sess[s].content]
           /\ file'[sess[s].entry] # NULL
           /\ \A e \in Entries \ {sess[s].entry} : file'[e] = file[e]
  <1> DEFINE row == [owner |-> sess[s].user, parent |-> sess[s].parent,
                     name |-> sess[s].name, content |-> sess[s].content]
  <1>1. sess[s].entry \in Entries /\ sess[s].user \in Users /\ sess[s].name \in Names
    BY Typed DEF Shape, Session
  <1>2. row \in File
    BY <1>1, Typed DEF Session, File
  <1>3. file' = [file EXCEPT ![sess[s].entry] = row]
    BY DEF Insert
  <1>4. row # NULL
    BY <1>2, Typed
  <1> HIDE DEF row
  <1>5. /\ file' \in [Entries -> File \cup {NULL}] /\ file'[sess[s].entry] = row
        /\ \A e \in Entries \ {sess[s].entry} : file'[e] = file[e]
    BY <1>1, <1>2, <1>3 DEF TypeOK
  <1> QED BY <1>1, <1>4, <1>5 DEF row

\* The rows after a deletion.
LEMMA RemovedTyped ==
    ASSUME TypeOK, NEW s \in Sessions, Shape(s), Refund(s)
    PROVE  /\ file' \in [Entries -> File \cup {NULL}]
           /\ sess[s].entry \in Entries /\ sess[s].user \in Users /\ file'[sess[s].entry] = NULL
           /\ \A e \in Entries \ {sess[s].entry} :
                 /\ file'[e] = NULL <=> file[e] = NULL
                 /\ file[e] # NULL =>
                       /\ file'[e].owner = file[e].owner /\ file'[e].content = file[e].content
                       /\ file'[e].parent = IF file[e].parent = sess[s].entry THEN NULL ELSE file[e].parent
  <1>1. sess[s].entry \in Entries /\ sess[s].user \in Users
    BY Typed DEF Shape, Session, Refund
  <1>2. PICK x \in Entries : x = sess[s].entry
    BY <1>1
  <1>3. file' = [e \in Entries |-> IF e = x THEN NULL
                                   ELSE IF file[e] # NULL /\ file[e].parent = x
                                   THEN [file[e] EXCEPT !.parent = NULL] ELSE file[e]]
    BY <1>2 DEF Refund, Orphaned
  <1>4. ASSUME NEW e \in Entries, file[e] # NULL
        PROVE  /\ file[e] \in File /\ [file[e] EXCEPT !.parent = NULL] \in File
               /\ [file[e] EXCEPT !.parent = NULL].owner = file[e].owner
               /\ [file[e] EXCEPT !.parent = NULL].content = file[e].content
               /\ [file[e] EXCEPT !.parent = NULL].parent = NULL
    <2>1. file[e] \in File
      BY <1>4 DEF TypeOK
    <2> QED BY <2>1 DEF File
  <1>5. \A e \in Entries : file'[e] \in File \cup {NULL}
    BY <1>3, <1>4
  <1>6. file' \in [Entries -> File \cup {NULL}]
    BY <1>3, <1>5
  <1>7. ASSUME NEW e \in Entries \ {x}
        PROVE  /\ file'[e] = NULL <=> file[e] = NULL
               /\ file[e] # NULL =>
                     /\ file'[e].owner = file[e].owner /\ file'[e].content = file[e].content
                     /\ file'[e].parent = IF file[e].parent = x THEN NULL ELSE file[e].parent
    <2>1. CASE file[e] # NULL /\ file[e].parent = x
      <3>1. file'[e] = [file[e] EXCEPT !.parent = NULL]
        BY <1>3, <2>1
      <3> QED BY <1>4, <2>1, <3>1, Typed
    <2>2. CASE ~(file[e] # NULL /\ file[e].parent = x)
      BY <1>3, <2>2
    <2> QED BY <2>1, <2>2
  <1> QED BY <1>1, <1>2, <1>3, <1>6, <1>7

\* What a deletion gives back.
LEMMA FreedNat ==
    ASSUME TypeOK, NEW s \in Sessions, Shape(s)
    PROVE  Freed(s) \in Nat
  <1>1. sess[s].victims \subseteq Entries \X Contents /\ IsFiniteSet(sess[s].victims)
    BY Typed DEF Shape, Session
  <1> DEFINE w == [v \in sess[s].victims |-> Size[v[2]]]
  <1>2. w \in [sess[s].victims -> Nat]
    BY <1>1, Typed
  <1>3. SumFunction(w) \in Nat
    <2> HIDE DEF w
    <2> QED BY <1>1, <1>2, SumNat
  <1> QED BY <1>3 DEF Freed

\* A move keeps the types and leaves the other requests and their locks alone.
LEMMA MoveTypes ==
    ASSUME TypeOK, NEW s \in Sessions, Shape(s), Move(s)
    PROVE  /\ TypeOK'
           /\ \A t \in Sessions \ {s} : sess'[t] = sess[t] /\ \A u \in Users : lock'[u] = t <=> lock[u] = t
           /\ born \subseteq born' /\ condemned \subseteq condemned' /\ disowned \subseteq disowned'
  <1> USE Typed
  <1> DEFINE me == sess[s]
  <1>0. /\ me \in Session
        /\ me.at # "idle" => me.user \in Users /\ me.entry \in Entries
        /\ me.at \in {"store", "record", "unpin"} => me.content \in Contents
        /\ \A u \in Users : lock[u] = s <=> me.at \in {"resolve", "store", "record"} /\ me.user = u
    BY DEF Shape, Session
  <1>1. CASE Quits(s)
    BY <1>1, Ended DEF Quits, TypeOK, ghosts
  <1>2. CASE Fails(s)
    <2>1. sess' \in [Sessions -> Session] /\ \A t \in Sessions \ {s} : sess'[t] = sess[t]
      BY <1>2, Went DEF Fails, Steps
    <2> QED BY <1>0, <1>2, <2>1 DEF Fails, TypeOK, ghosts
  <1>3. CASE Locks(s)
    <2>1. sess' \in [Sessions -> Session] /\ \A t \in Sessions \ {s} : sess'[t] = sess[t]
      BY <1>3, Went DEF Locks, Steps
    <2> QED BY <1>0, <1>3, <2>1 DEF Locks, CanLock, TypeOK, ghosts
  <1>4. CASE Finds(s)
    <2>1. PICK p \in Dirs(me.user) : sess' = [sess EXCEPT ![s] = [me EXCEPT !.at = "store", !.path = <<>>, !.parent = p]]
      BY <1>4 DEF Finds
    <2>2. [me EXCEPT !.at = "store", !.path = <<>>, !.parent = p] \in Session
      BY <1>0, <2>1 DEF Session, Steps, Dirs, RowsOf, Rows
    <2>3. sess' \in [Sessions -> Session] /\ \A t \in Sessions \ {s} : sess'[t] = sess[t]
      BY <2>1, <2>2 DEF TypeOK
    <2> QED BY <1>4, <2>3 DEF Finds, TypeOK, ghosts
  <1>5. ASSUME Counts(s)
        PROVE  StoreKey(s) \in Keys /\ stores' \in [Keys -> 0 .. 2]
    <2>1. StoreKey(s) \in Keys
      BY <1>0, <1>5, KeyTyped DEF StoreKey, Counts
    <2> QED BY <1>5, <2>1 DEF Counts, TypeOK
  <1>6. CASE Stores(s)
    <2>1. sess' \in [Sessions -> Session] /\ \A t \in Sessions \ {s} : sess'[t] = sess[t]
      BY <1>6, Went DEF Stores, Steps
    <2> QED BY <1>5, <1>6, <2>1 DEF Stores, Counts, TypeOK, ghosts
  <1>7. CASE StoreLost(s)
    BY <1>5, <1>7, Ended DEF StoreLost, Counts, TypeOK, ghosts
  <1>8. CASE Record(s)
    <2>1. sess' \in [Sessions -> Session] /\ \A t \in Sessions \ {s} : sess'[t] = sess[t]
      BY <1>8, Went DEF Record, Steps
    <2>2. file' \in [Entries -> File \cup {NULL}]
      BY <1>8, InsertedTyped DEF Record
    <2>3. used' \in [Users -> Int]
      BY <1>0, <1>8 DEF Record, TypeOK
    <2>4. me.at = "record" /\ lock' = [lock EXCEPT ![me.user] = NULL] /\ UNCHANGED <<stored, ghosts>>
      BY <1>8 DEF Record
    <2> QED BY <1>0, <2>1, <2>2, <2>3, <2>4 DEF TypeOK, ghosts
  <1>9. CASE Misses(s)
    BY <1>9, Went DEF Misses, Steps, TypeOK, ghosts
  <1>10. CASE Unpin(s)
    <2>1. /\ sess' \in [Sessions -> Session] /\ lock' \in [Users -> Sessions \cup {NULL}]
          /\ \A t \in Sessions \ {s} : sess'[t] = sess[t]
          /\ \A u \in Users : lock'[u] = IF lock[u] = s THEN NULL ELSE lock[u]
      BY <1>10, Ended DEF Unpin
    <2>2. disowned' \subseteq Entries /\ disowned \subseteq disowned'
      BY <1>0, <1>10 DEF Unpin, TypeOK
    <2>3. stored' \subseteq Keys /\ UNCHANGED <<file, used, born, condemned, stores, miscounted>>
      BY <1>10 DEF Unpin, TypeOK
    <2> QED BY <2>1, <2>2, <2>3 DEF TypeOK
  <1>11. CASE Makes(s)
    <2>1. file' \in [Entries -> File \cup {NULL}]
      BY <1>11, InsertedTyped DEF Makes
    <2> QED BY <1>11, <2>1, Ended DEF Makes, TypeOK, ghosts
  <1>12. CASE Discard(s)
    BY <1>12, Went DEF Discard, Steps, TypeOK, ghosts
  <1>13. CASE Erases(s)
    BY <1>13, Went DEF Erases, Steps, TypeOK, ghosts
  <1>14. CASE Refund(s)
    <2>1. file' \in [Entries -> File \cup {NULL}] /\ me.user \in Users
      BY <1>14, RemovedTyped
    <2>2. used[me.user] \in Int /\ Refunded(me.user, Freed(s)) \in Int
      BY <2>1, FreedNat DEF TypeOK, Refunded
    <2>3. used' \in [Users -> Int]
      BY <1>14, <2>2 DEF Refund, TypeOK
    <2>4. miscounted' \subseteq Users
      BY <1>14, <2>1 DEF Refund, TypeOK
    <2>5. Finish(s) /\ UNCHANGED <<stored, born, condemned, disowned, stores>>
      BY <1>14 DEF Refund
    <2> QED BY <2>1, <2>3, <2>4, <2>5, Ended DEF TypeOK
  <1>15. ASSUME NEW u \in Users, Upload(s, u) PROVE TypeOK' /\ \A t \in Sessions \ {s} : sess'[t] = sess[t]
    <2>1. PICK e \in Entries \ born, path \in Paths, n \in Names, c \in Contents :
              Begins(s, NewUpload(u, e, path, n, c)) /\ born' = born \cup {e}
      BY <1>15, UploadStep
    <2>2. sess' \in [Sessions -> Session] /\ \A t \in Sessions \ {s} : sess'[t] = sess[t]
      BY <2>1, Begun
    <2> QED BY <1>15, <2>1, <2>2 DEF Upload, TypeOK
  <1>16. ASSUME NEW u \in Users, Mkdir(s, u) PROVE TypeOK' /\ \A t \in Sessions \ {s} : sess'[t] = sess[t]
    <2>1. PICK e \in Entries \ born, path \in Paths, n \in Names, p \in Dirs(u) :
              Begins(s, NewDir(u, e, p, n)) /\ born' = born \cup {e}
      BY <1>16, MkdirStep
    <2>2. sess' \in [Sessions -> Session] /\ \A t \in Sessions \ {s} : sess'[t] = sess[t]
      BY <2>1, Begun
    <2> QED BY <1>16, <2>1, <2>2 DEF Mkdir, TypeOK
  <1>17. ASSUME NEW e \in Entries, Delete(s, e) PROVE TypeOK' /\ \A t \in Sessions \ {s} : sess'[t] = sess[t]
    <2>1. Begins(s, NewDeletion(e)) /\ e \in Rows /\ condemned' = condemned \cup Doomed(e)
      BY <1>17, DeleteStep
    <2>2. sess' \in [Sessions -> Session] /\ \A t \in Sessions \ {s} : sess'[t] = sess[t]
      BY <2>1, Begun
    <2>3. Doomed(e) \subseteq Entries
      BY <2>1, DoomedTyped DEF Rows
    <2> QED BY <1>17, <2>1, <2>2, <2>3 DEF Delete, TypeOK
  <1>18. CASE \E u \in Users : Upload(s, u) \/ Mkdir(s, u)
    <2>1. UNCHANGED <<lock, condemned, disowned>> /\ born \subseteq born'
      BY <1>18 DEF Upload, Mkdir
    <2> QED BY <1>15, <1>16, <1>18, <2>1
  <1>19. CASE \E e \in Entries : Delete(s, e)
    <2>1. UNCHANGED <<lock, born, disowned>> /\ condemned \subseteq condemned'
      BY <1>19 DEF Delete
    <2> QED BY <1>17, <1>19, <2>1
  <1> QED BY <1>1, <1>2, <1>3, <1>4, <1>6, <1>7, <1>8, <1>9, <1>10, <1>11, <1>12, <1>13, <1>14,
             <1>18, <1>19 DEF Move

\* The ids that are settled stay so, and an id is taken from a fresh one to a
\* maker's, and from there to a settled one.
LEMMA IdsMove ==
    ASSUME TypeOK, NEW s \in Sessions, Shapes, OwnIds, TypeOK', born \subseteq born',
           \A t \in Sessions \ {s} : sess'[t] = sess[t],
           Maker(s)' => \/ Maker(s) /\ sess'[s].entry = sess[s].entry
                        \/ sess'[s].entry \in Entries \ born
    PROVE  /\ Settled \subseteq Settled'
           /\ sess[s].at # "idle" /\ ~Maker(s)' => sess[s].entry \in Settled'
           /\ \A t, r \in Sessions : t # r /\ Maker(t)' /\ Maker(r)' => sess'[t].entry # sess'[r].entry
  <1>1. \A t \in Sessions : Maker(t) => sess[t].entry \in born
    BY DEF Maker, Making, Shapes, Shape
  <1>2. \A t \in Sessions \ {s} : Maker(t)' <=> Maker(t)
    BY DEF Maker
  <1>3. Settled \subseteq Settled'
    <2>1. ASSUME NEW e \in Settled, NEW t \in Sessions, Maker(t)', sess'[t].entry = e PROVE FALSE
      <3>1. CASE t = s
        BY <1>1, <2>1, <3>1 DEF Settled, Pending
      <3>2. CASE t # s
        BY <1>2, <2>1, <3>2 DEF Settled, Pending
      <3> QED BY <3>1, <3>2
    <2> QED BY <2>1 DEF Settled, Pending
  <1>4. sess[s].at # "idle" /\ ~Maker(s)' => sess[s].entry \in Settled'
    <2>1. SUFFICES ASSUME sess[s].at # "idle", ~Maker(s)' PROVE sess[s].entry \in Settled'
      OBVIOUS
    <2>2. sess[s].entry \in born'
      BY <2>1 DEF Shapes, Shape
    <2>3. CASE Maker(s)
      BY <1>2, <2>1, <2>2, <2>3 DEF Settled, Pending, OwnIds
    <2>4. CASE ~Maker(s)
      <3>1. sess[s].at \in Steps
        BY Typed DEF Session
      <3>2. sess[s].entry \in Settled
        BY <2>1, <2>4, <3>1 DEF Shapes, Shape, Maker, Making, Deleting, Steps
      <3> QED BY <1>3, <3>2
    <2> QED BY <2>3, <2>4
  <1>5. ASSUME NEW t \in Sessions, NEW r \in Sessions, t # r, Maker(t)', Maker(r)'
        PROVE  sess'[t].entry # sess'[r].entry
    <2>1. CASE t # s /\ r # s
      BY <1>2, <1>5, <2>1 DEF OwnIds
    <2>2. CASE t = s
      BY <1>1, <1>2, <1>5, <2>2 DEF OwnIds
    <2>3. CASE r = s
      BY <1>1, <1>2, <1>5, <2>3 DEF OwnIds
    <2> QED BY <2>1, <2>2, <2>3
  <1> QED BY <1>3, <1>4, <1>5

\* How the rows change, and when they do.
RowsStay == file' = file

RowMade(s) ==
    /\ sess[s].at \in {"record", "insertDir"} /\ InsertValid(s)
    /\ sess[s].entry \notin Rows /\ Rows' = Rows \cup {sess[s].entry}
    /\ file'[sess[s].entry] = [owner |-> sess[s].user, parent |-> sess[s].parent,
                               name |-> sess[s].name, content |-> sess[s].content]
    /\ \A e \in Rows : file'[e] = file[e]

RowGone(s) ==
    /\ sess[s].at = "refund" /\ Rows' = Rows \ {sess[s].entry}
    /\ \A e \in Rows' :
          /\ file'[e].owner = file[e].owner /\ file'[e].content = file[e].content
          /\ file'[e].parent = IF file[e].parent = sess[s].entry THEN NULL ELSE file[e].parent

LEMMA MoveRows ==
    ASSUME TypeOK, NEW s \in Sessions, Shape(s), OwnIds, Move(s)
    PROVE  /\ Record(s) \/ Makes(s) => RowMade(s)
           /\ Refund(s) => RowGone(s)
           /\ ~(Record(s) \/ Makes(s) \/ Refund(s)) => RowsStay
  <1>1. ASSUME Record(s) \/ Makes(s) PROVE RowMade(s)
    <2>1. Insert(s) /\ sess[s].at \in {"record", "insertDir"} /\ InsertValid(s)
      BY <1>1 DEF Record, Makes
    <2>2. sess[s].entry \notin Rows
      BY <2>1 DEF OwnIds, Settled, Pending, Maker, Making
    <2>3. Rows' = Rows \cup {sess[s].entry}
      <3>1. sess[s].entry \in Entries /\ file'[sess[s].entry] # NULL
        BY <2>1, InsertedTyped
      <3>2. \A e \in Entries \ {sess[s].entry} : file'[e] = file[e]
        BY <2>1, InsertedTyped
      <3> QED BY <3>1, <3>2 DEF Rows
    <2>4. \A e \in Rows : file'[e] = file[e]
      BY <2>1, <2>2, InsertedTyped DEF Rows
    <2> QED BY <2>1, <2>2, <2>3, <2>4, InsertedTyped DEF RowMade
  <1>2. ASSUME Refund(s) PROVE RowGone(s)
    <2>1. Rows' = Rows \ {sess[s].entry}
      BY <1>2, RemovedTyped DEF Rows
    <2>2. ASSUME NEW e \in Rows'
          PROVE  /\ file'[e].owner = file[e].owner /\ file'[e].content = file[e].content
                 /\ file'[e].parent = IF file[e].parent = sess[s].entry THEN NULL ELSE file[e].parent
      <3>1. e \in Entries \ {sess[s].entry} /\ file[e] # NULL
        BY <2>1 DEF Rows
      <3> QED BY <1>2, <3>1, RemovedTyped
    <2>3. sess[s].at = "refund"
      BY <1>2 DEF Refund
    <2> QED BY <2>1, <2>2, <2>3 DEF RowGone
  <1>3. ASSUME ~(Record(s) \/ Makes(s) \/ Refund(s)) PROVE RowsStay
    BY <1>3 DEF Move, Quits, Fails, Locks, Finds, Stores, StoreLost, Counts, Misses, Unpin, Discard,
                Erases, Upload, Mkdir, Delete, RowsStay
  <1> QED BY <1>1, <1>2, <1>3

\* A request that is about to insert a row goes on or has begun.
LEMMA MakersMove ==
    ASSUME TypeOK, NEW s \in Sessions, Shape(s), Move(s), Maker(s)'
    PROVE  \/ Maker(s) /\ sess'[s].entry = sess[s].entry /\ sess'[s].user = sess[s].user
           \/ /\ sess[s].at = "idle" /\ sess'[s].entry \in Entries \ born
              /\ \E u \in Users : sess'[s].user = u /\ (Upload(s, u) \/ Mkdir(s, u))
  <1>1. sess'[s].at \in Making
    BY DEF Maker
  <1>2. CASE Quits(s) \/ StoreLost(s) \/ Unpin(s) \/ Makes(s) \/ Refund(s)
    BY <1>1, <1>2, Ended DEF Quits, StoreLost, Unpin, Makes, Refund, Making
  <1>3. CASE Fails(s) \/ Record(s) \/ Misses(s) \/ Discard(s) \/ Erases(s)
    BY <1>1, <1>3, Went DEF Fails, Record, Misses, Discard, Erases, Making, Steps
  <1>4. CASE Locks(s)
    BY <1>4, Went DEF Locks, Making, Maker, Steps
  <1>5. CASE Stores(s)
    BY <1>5, Went DEF Stores, Counts, Making, Maker, Steps
  <1>6. CASE Finds(s)
    <2>1. PICK p : sess' = [sess EXCEPT ![s] = [sess[s] EXCEPT !.at = "store", !.path = <<>>, !.parent = p]]
      BY <1>6 DEF Finds
    <2>2. sess'[s] = [sess[s] EXCEPT !.at = "store", !.path = <<>>, !.parent = p] /\ sess[s] \in Session
      BY <2>1, Typed DEF TypeOK
    <2>3. sess'[s].entry = sess[s].entry /\ sess'[s].user = sess[s].user
      BY <2>2 DEF Session
    <2> QED BY <1>6, <2>3 DEF Finds, Maker, Making
  <1>7. ASSUME NEW u \in Users, Upload(s, u)
        PROVE  sess[s].at = "idle" /\ sess'[s].entry \in Entries \ born /\ sess'[s].user = u
    <2>1. PICK e \in Entries \ born, path \in Paths, n \in Names, c \in Contents :
              Begins(s, NewUpload(u, e, path, n, c)) /\ born' = born \cup {e}
      BY <1>7, UploadStep
    <2>2. sess'[s] = NewUpload(u, e, path, n, c)
      BY <2>1, Begun
    <2> QED BY <2>1, <2>2, NewUploadIs DEF Begins
  <1>8. ASSUME NEW u \in Users, Mkdir(s, u)
        PROVE  sess[s].at = "idle" /\ sess'[s].entry \in Entries \ born /\ sess'[s].user = u
    <2>1. PICK e \in Entries \ born, path \in Paths, n \in Names, p \in Dirs(u) :
              Begins(s, NewDir(u, e, p, n)) /\ born' = born \cup {e}
      BY <1>8, MkdirStep
    <2>2. sess'[s] = NewDir(u, e, p, n)
      BY <2>1, Begun
    <2> QED BY <2>1, <2>2, NewDirIs DEF Begins
  <1>9. ASSUME NEW e \in Entries, Delete(s, e) PROVE FALSE
    <2>1. Begins(s, NewDeletion(e))
      BY <1>9, DeleteStep
    <2>2. sess'[s] = NewDeletion(e)
      BY <2>1, Begun
    <2>3. sess'[s].at = "discard"
      BY <2>2, NewDeletionIs
    <2> QED BY <1>1, <2>3 DEF Making
  <1> QED BY <1>2, <1>3, <1>4, <1>5, <1>6, <1>7, <1>8, <1>9 DEF Move

LEMMA MoveIds ==
    ASSUME TypeOK, NEW s \in Sessions, Shapes, OwnIds, Move(s)
    PROVE  /\ OwnIds' /\ Settled \subseteq Settled'
           /\ sess[s].at # "idle" /\ ~Maker(s)' => sess[s].entry \in Settled'
           /\ \A e \in Settled : e \in Rows' =>
                 e \in Rows /\ file'[e].owner = file[e].owner /\ file'[e].content = file[e].content
  <1>0. Shape(s)
    BY DEF Shapes
  <1>1. TypeOK' /\ born \subseteq born' /\ \A t \in Sessions \ {s} : sess'[t] = sess[t]
    BY <1>0, MoveTypes
  <1>2. /\ Settled \subseteq Settled'
        /\ sess[s].at # "idle" /\ ~Maker(s)' => sess[s].entry \in Settled'
        /\ \A t, r \in Sessions : t # r /\ Maker(t)' /\ Maker(r)' => sess'[t].entry # sess'[r].entry
    <2>1. Maker(s)' => \/ Maker(s) /\ sess'[s].entry = sess[s].entry
                       \/ sess'[s].entry \in Entries \ born
      BY <1>0, MakersMove
    <2> QED BY <1>1, <2>1, IdsMove
  <1>3. RowsStay \/ RowMade(s) \/ RowGone(s)
    BY <1>0, MoveRows
  <1>4. RowMade(s) => ~Maker(s)'
    <2>1. SUFFICES ASSUME RowMade(s), Maker(s)' PROVE FALSE
      OBVIOUS
    <2>2. sess[s].entry \in Pending' /\ sess[s].entry \in Rows'
      <3>1. sess'[s].entry = sess[s].entry
        BY <1>0, <2>1, MakersMove DEF RowMade
      <3> QED BY <2>1, <3>1 DEF Pending, RowMade
    <2>3. ~RowsStay /\ ~RowGone(s)
      BY <2>1 DEF RowMade, RowsStay, RowGone, Rows
    <2>4. CASE Record(s)
      BY <2>1, <2>4, Went DEF Record, Maker, Making, Steps
    <2>5. CASE Makes(s)
      BY <2>1, <2>5, Ended DEF Makes, Maker, Making
    <2>6. CASE ~Record(s) /\ ~Makes(s)
      <3>1. CASE Refund(s)
        BY <2>1, <3>1 DEF RowMade, Refund
      <3>2. CASE ~Refund(s)
        BY <2>3, <2>6, <3>2 DEF Move, Quits, Fails, Locks, Finds, Stores, StoreLost, Counts, Misses, Unpin,
                         Discard, Erases, Upload, Mkdir, Delete, RowsStay
      <3> QED BY <3>1, <3>2
    <2> QED BY <2>4, <2>5, <2>6
  <1>5. Rows' \subseteq Settled'
    <2>1. CASE RowsStay
      BY <1>2, <2>1 DEF RowsStay, Rows, OwnIds
    <2>2. CASE RowMade(s)
      BY <1>2, <1>4, <2>2 DEF RowMade, OwnIds
    <2>3. CASE RowGone(s)
      BY <1>2, <2>3 DEF RowGone, OwnIds
    <2> QED BY <1>3, <2>1, <2>2, <2>3
  <1>6. IsFiniteSet(born')
    <2>1. born' = born \/ \E e \in Entries : born' = born \cup {e}
      BY DEF Move, Quits, Fails, Locks, Finds, Stores, StoreLost, Counts, Record, Misses, Unpin, Makes,
             Discard, Erases, Refund, Upload, Mkdir, Delete, ghosts
    <2> QED BY <2>1, FS_AddElement DEF OwnIds
  <1>7. ASSUME NEW e \in Settled, e \in Rows'
        PROVE  e \in Rows /\ file'[e].owner = file[e].owner /\ file'[e].content = file[e].content
    <2>1. CASE RowsStay
      BY <1>7, <2>1 DEF RowsStay, Rows
    <2>2. CASE RowMade(s)
      <3>1. sess[s].entry \notin Settled
        BY <2>2 DEF RowMade, Settled, Pending, Maker, Making
      <3> QED BY <1>7, <2>2, <3>1 DEF RowMade
    <2>3. CASE RowGone(s)
      BY <1>7, <2>3 DEF RowGone
    <2> QED BY <1>3, <2>1, <2>2, <2>3
  <1> QED BY <1>2, <1>5, <1>6, <1>7 DEF OwnIds

\* A move of s leaves the shape of the others.
LEMMA OthersKeepShape ==
    ASSUME TypeOK, NEW s \in Sessions, Shapes, OwnIds, Move(s), NEW t \in Sessions \ {s}
    PROVE  Shape(t)'
  <1>1. /\ sess'[t] = sess[t] /\ \A u \in Users : lock'[u] = t <=> lock[u] = t
        /\ born \subseteq born' /\ condemned \subseteq condemned'
    BY MoveTypes DEF Shapes
  <1>2. Settled \subseteq Settled' /\ \A e \in Settled : e \in Rows' =>
                 e \in Rows /\ file'[e].owner = file[e].owner /\ file'[e].content = file[e].content
    BY MoveIds
  <1>3. Maker(t)' <=> Maker(t)
    BY <1>1 DEF Maker
  <1> DEFINE r == sess[t]
  <1>4. Shape(t)
    BY DEF Shapes
  <1>5. Maker(t) /\ r.parent # NULL =>
          /\ r.parent \in Settled'
          /\ r.parent \in Rows' => file'[r.parent].content = NULL /\ file'[r.parent].owner = r.user
    BY <1>2, <1>4 DEF Shape, IsDir
  <1>6. r.at \in {"refresh", "unpin"} \cup Deleting => r.entry \in Settled'
    BY <1>2, <1>4 DEF Shape
  <1>7. r.at \in Deleting /\ r.entry \in Rows' =>
          /\ file'[r.entry].owner = r.user
          /\ ~(file'[r.entry].content = NULL) => r.victims = {<<r.entry, file'[r.entry].content>>}
    BY <1>2, <1>4, <1>6 DEF Shape, IsDir
  <1>8. \A v \in r.victims : v[1] \in condemned' \cap Settled'
    BY <1>1, <1>2, <1>4 DEF Shape
  <1>9. \A u \in Users : lock'[u] = t <=> r.at \in {"resolve", "store", "record"} /\ r.user = u
    BY <1>1, <1>4 DEF Shape
  <1>10. /\ r.at # "idle" => r.user # NULL /\ r.entry # NULL /\ r.entry \in born'
         /\ r.at \in {"reserve", "resolve", "store", "record", "refresh", "unpin"} =>
               r.name # NULL /\ r.content # NULL
         /\ r.at = "insertDir" => r.name # NULL /\ r.content = NULL
         /\ r.at \notin Deleting => r.victims = {}
         /\ IsFiniteSet(r.victims)
    BY <1>1, <1>4 DEF Shape
  <1> HIDE DEF r
  <1>11. sess'[t] = r
    BY <1>1 DEF r
  <1> QED BY <1>3, <1>5, <1>6, <1>7, <1>8, <1>9, <1>10, <1>11 DEF Shape, IsDir

LEMMA DoomedFinite ==
    ASSUME TypeOK, OwnIds, NEW e \in Rows
    PROVE  IsFiniteSet({<<f, file[f].content>> : f \in Doomed(e)})
  <1> DEFINE D == Doomed(e)
             V == {<<f, file[f].content>> : f \in D}
             g == [f \in D |-> <<f, file[f].content>>]
  <1>1. Doomed(e) \subseteq born
    BY DoomedTyped DEF OwnIds, Settled
  <1>2. IsFiniteSet(D)
    BY <1>1, FS_Subset DEF OwnIds
  <1>3. g \in [D -> V] /\ \A v \in V : \E f \in D : g[f] = v
    OBVIOUS
  <1> HIDE DEF D, V, g
  <1>4. g \in Surjection(D, V)
    BY <1>3 DEF Surjection
  <1>5. IsFiniteSet(V)
    BY <1>2, <1>4, FS_Surjection
  <1> QED BY <1>5 DEF D, V

\* What is known of a request after its own move.
LEMMA OwnShape ==
    ASSUME TypeOK, NEW s \in Sessions, Shapes, OwnIds, Move(s)
    PROVE  Shape(s)'
  <1> DEFINE r == sess[s]
             q == sess'[s]
  <1>1. /\ TypeOK' /\ born \subseteq born' /\ Shape(s)
        /\ r.at # "idle" => r.user \in Users
    <2>1. Shape(s)
      BY DEF Shapes
    <2> QED BY <2>1, MoveTypes, Typed DEF Shape, Session
  <1>2. /\ Settled \subseteq Settled' /\ OwnIds'
        /\ r.at # "idle" /\ ~(q.at \in Making) => r.entry \in Settled'
    <2>1. Maker(s)' <=> q.at \in Making
      BY DEF Maker
    <2> QED BY <2>1, MoveIds
  <1>3. \A u \in Users : lock[u] = s <=> r.at \in {"resolve", "store", "record"} /\ r.user = u
    BY <1>1 DEF Shape
  <1>4. CASE Quits(s) \/ StoreLost(s) \/ Unpin(s) \/ Makes(s) \/ Refund(s)
    <2>1. Finish(s)
      BY <1>4 DEF Quits, StoreLost, Unpin, Makes, Refund
    <2>2. q.at = "idle" /\ q.victims = {} /\ \A u \in Users : lock'[u] # s
      BY <2>1, Ended, Typed
    <2>3. ~Maker(s)'
      BY <2>2 DEF Maker, Making
    <2>4. IsFiniteSet(q.victims)
      BY <2>2, FS_EmptySet
    <2> QED BY <2>2, <2>3, <2>4 DEF Shape, Deleting
  <1>5. CASE Fails(s)
    <2>1. /\ r.at = "record" /\ q.at = "unpin" /\ q.user = r.user /\ q.entry = r.entry
          /\ q.name = r.name /\ q.content = r.content /\ q.victims = r.victims
      BY <1>5, Went DEF Fails, Steps
    <2>2. r.entry \in Settled'
      BY <1>2, <2>1 DEF Making
    <2>4. \A u \in Users : lock'[u] # s
      BY <1>1, <1>3, <1>5, <2>1, Typed DEF Fails, TypeOK
    <2>5. ~Maker(s)' /\ q.victims = {}
      BY <1>1, <2>1 DEF Maker, Making, Shape, Deleting
    <2>6. IsFiniteSet(q.victims)
      BY <2>5, FS_EmptySet
    <2> HIDE DEF r, q
    <2>7. q = sess'[s] /\ r = sess[s]
      BY DEF r, q
    <2> QED BY <1>1, <2>1, <2>2, <2>4, <2>5, <2>6, <2>7 DEF Shape, Deleting
  <1>6. CASE Locks(s) \/ Stores(s)
    <2>1. /\ r.at \in {"reserve", "store"} /\ q.at \in {"resolve", "record"} /\ q.user = r.user
          /\ q.entry = r.entry /\ q.parent = r.parent /\ q.name = r.name /\ q.content = r.content
          /\ q.victims = r.victims /\ file' = file
      BY <1>6, Went DEF Locks, Stores, Counts, Steps
    <2>2. r.parent # NULL =>
              /\ r.parent \in Settled'
              /\ r.parent \in Rows' => file'[r.parent].content = NULL /\ file'[r.parent].owner = r.user
      BY <1>1, <1>2, <2>1 DEF Shape, Maker, Making, IsDir, Rows
    <2>3. \A u \in Users : lock'[u] = s <=> r.user = u
      <3>1. CASE Locks(s)
        BY <1>1, <1>3, <3>1 DEF Locks, TypeOK
      <3>2. CASE Stores(s)
        BY <1>3, <3>2 DEF Stores, Counts
      <3> QED BY <1>6, <3>1, <3>2
    <2>4. r.victims = {} /\ r.name # NULL /\ r.content # NULL /\ r.user # NULL /\ r.entry # NULL
          /\ r.entry \in born'
      BY <1>1, <2>1 DEF Shape, Deleting
    <2>5. IsFiniteSet(r.victims)
      BY <2>4, FS_EmptySet
    <2> HIDE DEF r, q
    <2>6. q = sess'[s] /\ r = sess[s]
      BY DEF r, q
    <2> QED BY <2>1, <2>2, <2>3, <2>4, <2>5, <2>6 DEF Shape, Deleting, IsDir, Maker
  <1>7. CASE Finds(s)
    <2>1. PICK p \in Dirs(r.user) : sess' = [sess EXCEPT ![s] = [r EXCEPT !.at = "store", !.path = <<>>, !.parent = p]]
      BY <1>7 DEF Finds
    <2>2. q = [r EXCEPT !.at = "store", !.path = <<>>, !.parent = p] /\ r \in Session
      BY <2>1, Typed DEF TypeOK
    <2>3. /\ q.at = "store" /\ q.user = r.user /\ q.entry = r.entry /\ q.parent = p
          /\ q.name = r.name /\ q.content = r.content /\ q.victims = r.victims
      BY <2>2 DEF Session
    <2>4. r.at = "resolve" /\ file' = file /\ lock' = lock
      BY <1>7 DEF Finds
    <2>5. p # NULL => p \in Settled' /\ (p \in Rows' => file'[p].content = NULL /\ file'[p].owner = r.user)
      BY <1>2, <2>4 DEF Dirs, RowsOf, IsDir, OwnIds
    <2>6. r.victims = {} /\ r.name # NULL /\ r.content # NULL /\ r.user # NULL /\ r.entry # NULL
          /\ r.entry \in born'
      BY <1>1, <2>4 DEF Shape, Deleting
    <2>7. IsFiniteSet(r.victims)
      BY <2>6, FS_EmptySet
    <2> HIDE DEF r, q
    <2>8. q = sess'[s] /\ r = sess[s]
      BY DEF r, q
    <2> QED BY <1>3, <2>3, <2>4, <2>5, <2>6, <2>7, <2>8 DEF Shape, Deleting, IsDir, Maker
  <1>8. CASE Record(s) \/ Misses(s)
    <2>1. /\ r.at \in {"record", "refresh"} /\ q.user = r.user /\ q.entry = r.entry
          /\ q.name = r.name /\ q.content = r.content /\ q.victims = r.victims
          /\ q.at \in {"refresh", "unpin"}
      BY <1>8, Went DEF Record, Misses, Steps
    <2>2. r.entry \in Settled'
      BY <1>2, <2>1 DEF Making
    <2>4. \A u \in Users : lock'[u] # s
      <3>1. CASE Record(s)
        BY <1>1, <1>3, <2>1, <3>1, Typed DEF Record, TypeOK
      <3>2. CASE Misses(s)
        BY <1>3, <3>2 DEF Misses
      <3> QED BY <1>8, <3>1, <3>2
    <2>5. r.victims = {} /\ r.name # NULL /\ r.content # NULL /\ r.user # NULL /\ r.entry # NULL
          /\ r.entry \in born'
      BY <1>1, <2>1 DEF Shape, Deleting
    <2>6. IsFiniteSet(r.victims) /\ ~(q.at \in Making) /\ ~(q.at \in Deleting)
      BY <2>1, <2>5, FS_EmptySet DEF Making, Deleting
    <2> HIDE DEF r, q
    <2>7. q = sess'[s] /\ r = sess[s]
      BY DEF r, q
    <2> QED BY <2>1, <2>2, <2>4, <2>5, <2>6, <2>7 DEF Shape, Maker
  <1>9. CASE Discard(s) \/ Erases(s)
    <2>1. /\ r.at \in Deleting /\ q.user = r.user /\ q.entry = r.entry
          /\ q.name = r.name /\ q.content = r.content /\ q.victims = r.victims
          /\ q.at \in {"erase", "refund"} /\ UNCHANGED <<file, lock, condemned>>
      BY <1>9, Went DEF Discard, Erases, Steps, Deleting, ghosts
    <2>2. r.entry \in Settled' /\ q.at \in Deleting /\ q.at \notin Making
      BY <1>1, <1>2, <2>1 DEF Shape, Deleting, Making
    <2>3. /\ q.entry \in Rows' => file'[q.entry].owner = q.user
          /\ q.entry \in Rows' /\ ~(file'[q.entry].content = NULL) =>
                 q.victims = {<<q.entry, file'[q.entry].content>>}
      BY <1>1, <2>1 DEF Shape, IsDir, Rows
    <2>4. IsFiniteSet(r.victims) /\ \A v \in r.victims : v[1] \in condemned' \cap Settled'
      BY <1>1, <1>2, <2>1 DEF Shape
    <2>5. \A u \in Users : lock'[u] # s
      BY <1>3, <2>1 DEF Deleting
    <2>6. q.user # NULL /\ q.entry # NULL /\ q.entry \in born' /\ q.entry \in Settled'
      BY <1>1, <2>1, <2>2 DEF Shape, Deleting
    <2>7. IsFiniteSet(q.victims) /\ \A v \in q.victims : v[1] \in condemned' \cap Settled'
      BY <2>1, <2>4
    <2>8. q.at \in {"erase", "refund"}
      BY <2>1
    <2> HIDE DEF r, q
    <2>9. q = sess'[s]
      BY DEF q
    <2> QED BY <2>2, <2>3, <2>5, <2>6, <2>7, <2>8, <2>9 DEF Shape, Maker, IsDir
  <1>10. ASSUME NEW u \in Users, Upload(s, u) PROVE Shape(s)'
    <2>1. PICK e \in Entries \ born, path \in Paths, n \in Names, c \in Contents :
              Begins(s, NewUpload(u, e, path, n, c)) /\ born' = born \cup {e}
      BY <1>10, UploadStep
    <2>2. q = NewUpload(u, e, path, n, c) /\ r.at = "idle" /\ lock' = lock
      BY <1>10, <2>1, Begun DEF Begins, Upload
    <2>3. /\ q.at = "reserve" /\ q.user = u /\ q.entry = e /\ q.parent = NULL /\ q.name = n
          /\ q.content = c /\ q.victims = {}
      BY <2>2, NewUploadIs
    <2>4. IsFiniteSet(q.victims)
      BY <2>3, FS_EmptySet
    <2> HIDE DEF r, q
    <2>5. q = sess'[s] /\ r = sess[s]
      BY DEF r, q
    <2> QED BY <1>3, <2>1, <2>2, <2>3, <2>4, <2>5, Typed DEF Shape, Deleting
  <1>11. ASSUME NEW u \in Users, Mkdir(s, u) PROVE Shape(s)'
    <2>1. PICK e \in Entries \ born, path \in Paths, n \in Names, p \in Dirs(u) :
              Begins(s, NewDir(u, e, p, n)) /\ born' = born \cup {e}
      BY <1>11, MkdirStep
    <2>2. q = NewDir(u, e, p, n) /\ r.at = "idle" /\ lock' = lock /\ file' = file
      BY <1>11, <2>1, Begun DEF Begins, Mkdir
    <2>3. /\ q.at = "insertDir" /\ q.user = u /\ q.entry = e /\ q.parent = p /\ q.name = n
          /\ q.content = NULL /\ q.victims = {}
      BY <2>2, NewDirIs
    <2>4. IsFiniteSet(q.victims)
      BY <2>3, FS_EmptySet
    <2>5. p # NULL => p \in Settled' /\ (p \in Rows' => file'[p].content = NULL /\ file'[p].owner = u)
      BY <1>2, <2>2 DEF Dirs, RowsOf, IsDir, OwnIds
    <2> HIDE DEF r, q
    <2>6. q = sess'[s] /\ r = sess[s]
      BY DEF r, q
    <2> QED BY <1>3, <2>1, <2>2, <2>3, <2>4, <2>5, <2>6, Typed DEF Shape, Deleting, Maker, IsDir
  <1>12. ASSUME NEW e \in Entries, Delete(s, e) PROVE Shape(s)'
    <2>1. Begins(s, NewDeletion(e)) /\ e \in Rows /\ condemned' = condemned \cup Doomed(e)
      BY <1>12, DeleteStep
    <2>2. q = NewDeletion(e) /\ r.at = "idle" /\ lock' = lock /\ file' = file /\ born' = born
      BY <1>12, <2>1, Begun DEF Begins, Delete
    <2> DEFINE V == {<<f, file[f].content>> : f \in Doomed(e)}
    <2>3. /\ q.at = "discard" /\ q.user = file[e].owner /\ q.entry = e /\ q.victims = V
      BY <2>2, NewDeletionIs
    <2>4. IsFiniteSet(V)
      BY <2>1, DoomedFinite
    <2>5. e \in Settled' /\ e \in born' /\ file[e].owner \in Users
      BY <1>2, <2>1, <2>2, Typed DEF OwnIds, Settled, File
    <2>6. \A v \in V : v[1] \in condemned' \cap Settled'
      BY <1>2, <2>1, DoomedTyped DEF OwnIds
    <2>7. file'[e].content # NULL => V = {<<e, file'[e].content>>}
      BY <2>1, <2>2, DoomedTyped DEF IsDir
    <2>8. q.at \in Deleting /\ q.at \notin Making
      BY <2>3 DEF Deleting, Making
    <2>9. \A u \in Users : lock'[u] # s
      BY <1>3, <2>2
    <2> HIDE DEF r, q, V
    <2>10. q = sess'[s] /\ r = sess[s]
      BY DEF r, q
    <2> QED BY <2>2, <2>3, <2>4, <2>5, <2>6, <2>7, <2>8, <2>9, <2>10, Typed DEF Shape, Maker, IsDir
  <1> QED BY <1>4, <1>5, <1>6, <1>7, <1>8, <1>9, <1>10, <1>11, <1>12 DEF Move

LEMMA ShapesStep ==
    ASSUME TypeOK, NEW s \in Sessions, Shapes, OwnIds, Move(s)
    PROVE  Shapes'
  BY OwnShape, OthersKeepShape DEF Shapes

-----------------------------------------------------------------------------
(***************************************************************************)
(* The quota.                                                              *)
(***************************************************************************)
LEMMA ReservedNat ==
    ASSUME TypeOK, Shapes, NEW u \in Users
    PROVE  Reserved(u) \in Nat /\ used[u] \in Int
  <1>1. CASE lock[u] = NULL
    BY <1>1 DEF Reserved, TypeOK
  <1>2. CASE lock[u] # NULL
    <2>1. PICK t \in Sessions : t = lock[u]
      BY <1>2 DEF TypeOK
    <2>2. sess[t].content \in Contents
      BY <2>1, Typed DEF Shapes, Shape, Session
    <2> QED BY <1>2, <2>1, <2>2, Typed DEF Reserved, TypeOK
  <1> QED BY <1>1, <1>2

\* The reservation of a user changes when an upload makes or drops it.
LEMMA ReservedMove ==
    ASSUME TypeOK, Shapes, OwnIds, NEW s \in Sessions, Move(s), NEW u \in Users
    PROVE  \/ Locks(s) /\ sess[s].user = u
           \/ Reserved(u)' = 0
           \/ lock'[u] = lock[u] /\ Reserved(u)' = Reserved(u)
  <1>1. Shape(s) /\ Shape(s)' /\ TypeOK' /\ \A t \in Sessions \ {s} : sess'[t] = sess[t] /\ (lock'[u] = t <=> lock[u] = t)
    BY MoveTypes, ShapesStep DEF Shapes
  <1>2. CASE lock'[u] = NULL
    BY <1>2 DEF Reserved
  <1>3. CASE lock'[u] # NULL /\ lock'[u] # s
    <2>1. PICK t \in Sessions \ {s} : t = lock'[u]
      BY <1>1, <1>3 DEF TypeOK
    <2> QED BY <1>1, <1>3, <2>1 DEF Reserved
  <1>4. CASE lock'[u] = s
    <2>1. sess'[s].at \in {"resolve", "store", "record"} /\ sess'[s].user = u
      BY <1>1, <1>4 DEF Shape
    <2>2. Maker(s)'
      BY <2>1 DEF Maker, Making
    <2>3. CASE Quits(s) \/ StoreLost(s) \/ Unpin(s) \/ Makes(s) \/ Refund(s)
      BY <2>1, <2>3, Ended DEF Quits, StoreLost, Unpin, Makes, Refund
    <2>4. CASE Fails(s) \/ Record(s) \/ Misses(s) \/ Discard(s) \/ Erases(s)
      BY <2>1, <2>4, Went DEF Fails, Record, Misses, Discard, Erases, Steps
    <2>5. CASE Locks(s)
      BY <2>1, <2>5, Went DEF Locks, Steps
    <2>6. CASE Stores(s) \/ Finds(s)
      <3>1. lock' = lock /\ lock[u] # NULL
        BY <1>4, <2>6, Typed DEF Stores, Finds
      <3>2. sess'[s].content = sess[s].content
        <4>1. CASE Stores(s)
          BY <4>1, Went DEF Stores, Steps
        <4>2. CASE Finds(s)
          <5>1. PICK p : sess' = [sess EXCEPT ![s] = [sess[s] EXCEPT !.at = "store", !.path = <<>>, !.parent = p]]
            BY <4>2 DEF Finds
          <5>2. sess'[s] = [sess[s] EXCEPT !.at = "store", !.path = <<>>, !.parent = p] /\ sess[s] \in Session
            BY <5>1, Typed DEF TypeOK
          <5> QED BY <5>2 DEF Session
        <4> QED BY <2>6, <4>1, <4>2
      <3> QED BY <1>4, <3>1, <3>2 DEF Reserved
    <2>7. CASE (\E v \in Users : Upload(s, v) \/ Mkdir(s, v)) \/ \E e \in Entries : Delete(s, e)
      <3>1. lock' = lock /\ sess[s].at = "idle"
        BY <2>7 DEF Upload, Mkdir, Delete
      <3> QED BY <1>1, <1>4, <3>1 DEF Shape
    <2> QED BY <2>3, <2>4, <2>5, <2>6, <2>7 DEF Move
  <1> QED BY <1>2, <1>3, <1>4

LEMMA QuotaStep ==
    ASSUME TypeOK, Shapes, OwnIds, WithinQuota, NEW s \in Sessions, Move(s)
    PROVE  WithinQuota'
  <1>0. Shape(s) /\ TypeOK' /\ Quota \in Nat
    BY MoveTypes, Typed DEF Shapes
  <1> DEFINE r == sess[s]
  <1>1. SUFFICES ASSUME NEW u \in Users PROVE used'[u] >= 0 /\ used'[u] + Reserved(u)' <= Quota
    BY DEF WithinQuota, QuotaHolds
  <1>2. used[u] \in Int /\ used[u] >= 0 /\ Reserved(u) \in Nat /\ used[u] + Reserved(u) <= Quota
    BY ReservedNat DEF WithinQuota, QuotaHolds
  <1>3. CASE Record(s) /\ r.user = u
    <2>1. lock[u] = s /\ lock'[u] = NULL /\ used'[u] = used[u] + Size[r.content] /\ r.content \in Contents
      BY <1>0, <1>3, Typed DEF Record, Shape, TypeOK, Session
    <2>2. Reserved(u) = Size[r.content] /\ Reserved(u)' = 0
      BY <2>1, Typed DEF Reserved
    <2> HIDE DEF r
    <2>3. Size[r.content] \in Nat
      BY <2>1, Typed
    <2> QED BY <1>0, <1>2, <2>1, <2>2, <2>3
  <1>4. CASE Refund(s) /\ r.user = u
    <2>1. Freed(s) \in Nat /\ used'[u] = IF Freed(s) = 0 THEN used[u] ELSE Refunded(u, Freed(s))
      BY <1>0, <1>4, FreedNat DEF Refund, TypeOK
    <2>2. used'[u] \in Int /\ 0 <= used'[u] /\ used'[u] <= used[u]
      BY <1>2, <2>1 DEF Refunded
    <2>3. Reserved(u)' = 0 \/ Reserved(u)' = Reserved(u)
      BY <1>4, ReservedMove DEF Locks, Refund
    <2> QED BY <1>0, <1>2, <2>2, <2>3
  <1>5. CASE ~(Record(s) /\ r.user = u) /\ ~(Refund(s) /\ r.user = u)
    <2>1. used'[u] = used[u]
      <3>1. CASE Record(s)
        BY <1>5, <3>1 DEF Record, TypeOK
      <3>2. CASE Refund(s)
        BY <1>5, <3>2 DEF Refund, TypeOK
      <3>3. CASE ~Record(s) /\ ~Refund(s)
        BY <3>3 DEF Move, Quits, Fails, Locks, Finds, Stores, StoreLost, Counts, Misses, Unpin, Makes,
               Discard, Erases, Upload, Mkdir, Delete
      <3> QED BY <3>1, <3>2, <3>3
    <2>2. CASE Locks(s) /\ r.user = u
      <3>1. lock'[u] = s /\ sess'[s].content = r.content /\ used[u] + Size[r.content] <= Quota
        BY <2>2, Went DEF Locks, Steps, TypeOK, Fits
      <3>2. Reserved(u)' = Size[r.content]
        BY <3>1, Typed DEF Reserved
      <3> QED BY <1>2, <2>1, <3>1, <3>2
    <2>3. CASE Reserved(u)' = 0 \/ Reserved(u)' = Reserved(u)
      BY <1>0, <1>2, <2>1, <2>3
    <2> QED BY <2>2, <2>3, ReservedMove
  <1> QED BY <1>3, <1>4, <1>5

-----------------------------------------------------------------------------
(***************************************************************************)
(* The counter is the sum.                                                 *)
(***************************************************************************)
LEMMA BytesTyped ==
    ASSUME TypeOK, OwnIds, NEW u \in Users
    PROVE  /\ IsFiniteSet(RowsOf(u)) /\ Bytes(RowsOf(u)) \in Nat
           /\ \A e \in Rows : BytesOf(e) \in Nat
           /\ [e \in RowsOf(u) |-> BytesOf(e)] \in [RowsOf(u) -> Int]
  <1>1. \A e \in Rows : BytesOf(e) \in Nat
    BY Typed DEF BytesOf, IsDir, File
  <1>2. IsFiniteSet(RowsOf(u))
    BY FS_Subset DEF OwnIds, Settled, RowsOf
  <1> DEFINE w == [e \in RowsOf(u) |-> BytesOf(e)]
  <1>3. w \in [RowsOf(u) -> Nat] /\ w \in [RowsOf(u) -> Int]
    BY <1>1 DEF RowsOf
  <1>4. SumFunction(w) \in Nat
    <2> HIDE DEF w
    <2> QED BY <1>2, <1>3, SumNat
  <1> QED BY <1>1, <1>2, <1>3, <1>4 DEF Bytes

\* What a deletion frees: nothing without victims, and a single file's bytes.
LEMMA FreedIs ==
    ASSUME TypeOK, NEW s \in Sessions
    PROVE  /\ sess[s].victims = {} => Freed(s) = 0
           /\ \A e \in Entries, c \in Contents : sess[s].victims = {<<e, c>>} => Freed(s) = Size[c]
  <1>1. ASSUME sess[s].victims = {} PROVE Freed(s) = 0
    <2> DEFINE w == [v \in sess[s].victims |-> Size[v[2]]]
    <2>1. w \in [{} -> Int]
      BY <1>1
    <2>2. SumFunction(w) = 0
      <3> HIDE DEF w
      <3> QED BY <2>1, SumEmpty
    <2> QED BY <2>2 DEF Freed
  <1>2. ASSUME NEW e \in Entries, NEW c \in Contents, sess[s].victims = {<<e, c>>} PROVE Freed(s) = Size[c]
    <2> DEFINE w == [v \in sess[s].victims |-> Size[v[2]]]
               x == <<e, c>>
    <2>1. w \in [{x} -> Int] /\ w[x] = Size[c]
      BY <1>2, Typed
    <2>2. SumFunction(w) = w[x]
      <3> HIDE DEF w, x
      <3> QED BY <2>1, SumOne
    <2> QED BY <2>1, <2>2 DEF Freed
  <1> QED BY <1>1, <1>2

LEMMA BytesMove ==
    ASSUME TypeOK, NEW s \in Sessions, Shape(s), OwnIds, TypeOK', OwnIds', NEW u \in Users
    PROVE  /\ Bytes(RowsOf(u))' \in Nat
           /\ RowsStay => Bytes(RowsOf(u))' = Bytes(RowsOf(u))
           /\ RowMade(s) => Bytes(RowsOf(u))' = Bytes(RowsOf(u)) +
                 IF sess[s].user = u /\ sess[s].content # NULL THEN Size[sess[s].content] ELSE 0
           /\ RowGone(s) => Bytes(RowsOf(u)) = Bytes(RowsOf(u))' +
                 IF sess[s].entry \in RowsOf(u) THEN BytesOf(sess[s].entry) ELSE 0
  <1>0. PICK x : x = sess[s].entry
    OBVIOUS
  <1> DEFINE S == RowsOf(u)
             T == RowsOf(u)'
             w == [e \in S |-> BytesOf(e)]
             v == [e \in T |-> BytesOf(e)']
  <1>1. /\ Bytes(RowsOf(u)) = SumFunction(w) /\ Bytes(RowsOf(u))' = SumFunction(v)
        /\ Bytes(RowsOf(u)) \in Nat /\ Bytes(RowsOf(u))' \in Nat
        /\ IsFiniteSet(S) /\ IsFiniteSet(T) /\ w \in [S -> Int] /\ v \in [T -> Int]
    <2>1. \A e \in T : BytesOf(e)' \in Nat
      <3>1. \A e \in T : file'[e] \in File
        BY DEF TypeOK, RowsOf, Rows
      <3> QED BY <3>1, Typed DEF BytesOf, IsDir, File
    <2>2. IsFiniteSet(T)
      BY FS_Subset DEF OwnIds, Settled, RowsOf
    <2>3. v \in [T -> Nat] /\ v \in [T -> Int]
      BY <2>1
    <2>4. SumFunction(v) \in Nat
      <3> HIDE DEF v, T
      <3> QED BY <2>2, <2>3, SumNat
    <2> QED BY <2>2, <2>3, <2>4, BytesTyped DEF Bytes
  <1>2. ASSUME RowsStay PROVE w = v
    <2>1. S = T /\ \A e \in S : BytesOf(e)' = BytesOf(e)
      BY <1>2 DEF RowsStay, RowsOf, Rows, BytesOf, IsDir
    <2> QED BY <2>1
  <1>3. ASSUME RowMade(s)
        PROVE  SumFunction(v) = SumFunction(w) +
                  IF sess[s].user = u /\ sess[s].content # NULL THEN Size[sess[s].content] ELSE 0
    <2>1. x \notin S /\ \A e \in S : BytesOf(e)' = BytesOf(e)
      BY <1>0, <1>3 DEF RowMade, RowsOf, BytesOf, IsDir
    <2>2. file'[x].owner = sess[s].user /\ file'[x].content = sess[s].content
      BY <1>0, <1>3 DEF RowMade
    <2>3. T = IF sess[s].user = u THEN S \cup {x} ELSE S
      BY <1>0, <1>3, <2>2 DEF RowMade, RowsOf
    <2>4. BytesOf(x)' = IF sess[s].content # NULL THEN Size[sess[s].content] ELSE 0
      BY <2>2 DEF BytesOf, IsDir
    <2>5. CASE sess[s].user = u
      <3>1. \A e \in S : v[e] = w[e]
        BY <2>1, <2>3, <2>5
      <3>2. v[x] = BytesOf(x)' /\ v \in [S \cup {x} -> Int]
        BY <1>1, <2>3, <2>5
      <3>3. SumFunction(v) = SumFunction(w) + v[x]
        <4> HIDE DEF v, w, S, T
        <4> QED BY <1>1, <2>1, <3>1, <3>2, SumMore
      <3> HIDE DEF v, w
      <3> QED BY <2>4, <2>5, <3>2, <3>3
    <2>6. CASE sess[s].user # u
      <3>1. v = w
        BY <2>1, <2>3, <2>6
      <3> HIDE DEF v, w
      <3> QED BY <1>1, <2>6, <3>1
    <2> QED BY <2>5, <2>6
  <1>4. ASSUME RowGone(s)
        PROVE  SumFunction(w) = SumFunction(v) + IF x \in S THEN BytesOf(x) ELSE 0
    <2>1. x \notin T /\ \A e \in T : BytesOf(e)' = BytesOf(e)
      BY <1>0, <1>4 DEF RowGone, RowsOf, BytesOf, IsDir
    <2>2. T = S \ {x}
      BY <1>0, <1>4 DEF RowGone, RowsOf
    <2>3. CASE x \in S
      <3>1. S = T \cup {x} /\ \A e \in T : w[e] = v[e]
        BY <2>1, <2>2, <2>3
      <3>2. w[x] = BytesOf(x) /\ w \in [T \cup {x} -> Int]
        BY <1>1, <2>3, <3>1
      <3>3. SumFunction(w) = SumFunction(v) + w[x]
        <4> HIDE DEF v, w, S, T
        <4> QED BY <1>1, <2>1, <3>1, <3>2, SumMore
      <3> HIDE DEF v, w
      <3> QED BY <2>3, <3>2, <3>3
    <2>4. CASE x \notin S
      <3>1. v = w
        BY <2>1, <2>2, <2>4
      <3> HIDE DEF v, w
      <3> QED BY <1>1, <2>4, <3>1
    <2> QED BY <2>3, <2>4
  <1> HIDE DEF v, w
  <1> QED BY <1>0, <1>1, <1>2, <1>3, <1>4

LEMMA SumStep ==
    ASSUME TypeOK, Shapes, OwnIds, UsedIsSum, NEW s \in Sessions, Move(s)
    PROVE  UsedIsSum'
  <1> DEFINE r == sess[s]
  <1>1. SUFFICES ASSUME NEW u \in Users \ miscounted' PROVE used'[u] = Bytes(RowsOf(u))'
    BY DEF UsedIsSum
  <1>2. Shape(s) /\ TypeOK' /\ OwnIds'
    BY MoveTypes, MoveIds DEF Shapes
  <1>3. miscounted \subseteq miscounted'
    BY DEF Move, Quits, Fails, Locks, Finds, Stores, StoreLost, Counts, Record, Misses, Unpin, Makes,
           Discard, Erases, Refund, Upload, Mkdir, Delete, ghosts
  <1>4. used[u] = Bytes(RowsOf(u)) /\ used[u] \in Int
    BY <1>3 DEF UsedIsSum, TypeOK
  <1>5. Bytes(RowsOf(u)) \in Nat /\ \A e \in Rows : BytesOf(e) \in Nat
    BY BytesTyped
  <1>6. /\ Bytes(RowsOf(u))' \in Nat
        /\ RowsStay => Bytes(RowsOf(u))' = Bytes(RowsOf(u))
        /\ RowMade(s) => Bytes(RowsOf(u))' = Bytes(RowsOf(u)) +
              IF sess[s].user = u /\ sess[s].content # NULL THEN Size[sess[s].content] ELSE 0
        /\ RowGone(s) => Bytes(RowsOf(u)) = Bytes(RowsOf(u))' +
              IF sess[s].entry \in RowsOf(u) THEN BytesOf(sess[s].entry) ELSE 0
    BY <1>2, BytesMove
  <1>7. CASE Record(s)
    <2>1. r.content \in Contents /\ r.content # NULL
      BY <1>2, <1>7, Typed DEF Record, Shape, Session
    <2>2. used'[u] = IF r.user = u THEN used[u] + Size[r.content] ELSE used[u]
      BY <1>7 DEF Record, TypeOK
    <2>3. RowMade(s) /\ Size[r.content] \in Nat
      BY <1>2, <1>7, <2>1, MoveRows, Typed
    <2> HIDE DEF r
    <2>4. r = sess[s]
      BY DEF r
    <2> QED BY <1>4, <1>5, <1>6, <2>1, <2>2, <2>3, <2>4
  <1>8. CASE Makes(s)
    <2>1. r.content = NULL /\ used' = used
      BY <1>2, <1>8 DEF Makes, Shape
    <2>2. RowMade(s)
      BY <1>2, <1>8, MoveRows
    <2> QED BY <1>4, <1>5, <1>6, <2>1, <2>2
  <1>9. CASE Refund(s)
    <2>1. RowGone(s) /\ r.at = "refund"
      BY <1>2, <1>9, MoveRows DEF Refund
    <2>2. r.entry \in RowsOf(u) => r.user = u
      BY <1>2, <2>1 DEF Shape, Deleting, RowsOf
    <2>3. CASE r.user # u
      <3>1. used'[u] = used[u]
        BY <1>9, <2>3 DEF Refund, TypeOK
      <3> QED BY <1>4, <1>5, <1>6, <2>1, <2>2, <2>3, <3>1
    <2>4. CASE r.user = u
      <3>1. used'[u] = IF Freed(s) = 0 THEN used[u] ELSE Refunded(u, Freed(s))
        BY <1>9, <2>4 DEF Refund, TypeOK
      <3>2. r.victims = {} \/ (r.entry \in Rows /\ ~IsDir(r.entry))
        BY <1>9, <2>4 DEF Refund
      <3>3. CASE r.entry \in Rows /\ ~IsDir(r.entry)
        <4>1. r.victims = {<<r.entry, file[r.entry].content>>} /\ r.entry \in RowsOf(u)
          BY <1>2, <2>1, <2>4, <3>3 DEF Shape, Deleting, RowsOf
        <4>2. file[r.entry].content \in Contents /\ r.entry \in Entries
          BY <3>3, Typed DEF IsDir, File, Rows
        <4>3. Freed(s) = Size[file[r.entry].content]
          BY <4>1, <4>2, FreedIs
        <4>4. Freed(s) = BytesOf(r.entry) /\ Freed(s) \in Nat /\ Freed(s) > 0
          BY <3>3, <4>2, <4>3, Typed DEF BytesOf
        <4>5. used[u] = Bytes(RowsOf(u))' + Freed(s)
          BY <1>4, <1>6, <2>1, <4>1, <4>4
        <4>6. used'[u] = used[u] - Freed(s)
          BY <1>6, <3>1, <4>4, <4>5 DEF Refunded
        <4> DEFINE B == Bytes(RowsOf(u))'
                   F == Freed(s)
        <4>7. B \in Nat /\ F \in Nat /\ used[u] = B + F /\ used'[u] = used[u] - F
          BY <1>6, <4>4, <4>5, <4>6
        <4> HIDE DEF B, F
        <4>8. used'[u] = B
          BY <1>4, <4>7
        <4> QED BY <4>8 DEF B
      <3>4. CASE ~(r.entry \in Rows /\ ~IsDir(r.entry))
        <4>1. Freed(s) = 0
          BY <3>2, <3>4, FreedIs
        <4>2. r.entry \in RowsOf(u) => BytesOf(r.entry) = 0
          BY <3>4 DEF RowsOf, BytesOf
        <4> QED BY <1>4, <1>5, <1>6, <2>1, <3>1, <4>1, <4>2
      <3> QED BY <3>3, <3>4
    <2> QED BY <2>3, <2>4
  <1>10. CASE ~(Record(s) \/ Makes(s) \/ Refund(s))
    <2>1. RowsStay
      BY <1>2, <1>10, MoveRows
    <2>2. used' = used
      BY <1>10 DEF Move, Quits, Fails, Locks, Finds, Stores, StoreLost, Counts, Misses, Unpin,
           Discard, Erases, Upload, Mkdir, Delete
    <2> QED BY <1>4, <1>6, <2>1, <2>2
  <1> QED BY <1>7, <1>8, <1>9, <1>10

-----------------------------------------------------------------------------
(***************************************************************************)
(* The tree, and the number of rows.                                       *)
(***************************************************************************)
LEMMA TreeStep ==
    ASSUME TypeOK, Shapes, OwnIds, TreeIsWhole, NEW s \in Sessions, Move(s)
    PROVE  TreeIsWhole'
  <1>1. Shape(s)
    BY DEF Shapes
  <1>2. SUFFICES ASSUME NEW e \in Rows', file'[e].parent # NULL
                 PROVE  /\ file'[e].parent \in Rows' /\ file'[file'[e].parent].content = NULL
                        /\ file'[file'[e].parent].owner = file'[e].owner
    BY DEF TreeIsWhole, IsDir
  <1>3. \A f \in Rows : file[f].parent # NULL =>
           /\ file[f].parent \in Rows /\ file[file[f].parent].content = NULL
           /\ file[file[f].parent].owner = file[f].owner
    BY DEF TreeIsWhole, IsDir
  <1>4. CASE RowsStay
    BY <1>2, <1>3, <1>4 DEF RowsStay, Rows
  <1>5. CASE RowMade(s)
    <2>1. CASE e \in Rows
      BY <1>2, <1>3, <1>5, <2>1 DEF RowMade
    <2>2. CASE e \notin Rows
      <3>1. e = sess[s].entry /\ file'[e].parent = sess[s].parent /\ file'[e].owner = sess[s].user
        BY <1>5, <2>2 DEF RowMade
      <3>2. sess[s].parent \in Rows
        BY <1>2, <1>5, <3>1 DEF RowMade, InsertValid
      <3>3. IsDir(sess[s].parent) /\ file[sess[s].parent].owner = sess[s].user
        BY <1>1, <1>2, <1>5, <3>1, <3>2 DEF RowMade, Shape, Maker, Making
      <3> QED BY <1>5, <3>1, <3>2, <3>3 DEF RowMade, IsDir
    <2> QED BY <2>1, <2>2
  <1>6. CASE RowGone(s)
    <2>1. e \in Rows /\ file'[e].parent = file[e].parent /\ file[e].parent # sess[s].entry
          /\ file'[e].owner = file[e].owner
      BY <1>2, <1>6 DEF RowGone
    <2>2. file[e].parent \in Rows'
      BY <1>2, <1>3, <1>6, <2>1 DEF RowGone
    <2> QED BY <1>2, <1>3, <1>6, <2>1, <2>2 DEF RowGone
  <1> QED BY <1>1, <1>4, <1>5, <1>6, MoveRows

\* A maker stops being one with its row.
LEMMA MadeOnce ==
    ASSUME TypeOK, NEW s \in Sessions, Record(s) \/ Makes(s)
    PROVE  Maker(s) /\ ~Maker(s)'
  <1>1. CASE Record(s)
    BY <1>1, Went DEF Record, Maker, Making, Steps
  <1>2. CASE Makes(s)
    BY <1>2, Ended DEF Makes, Maker, Making
  <1> QED BY <1>1, <1>2

LEMMA RoomStep ==
    ASSUME TypeOK, Shapes, OwnIds, RoomLeft, NEW s \in Sessions, Move(s)
    PROVE  RoomLeft'
  <1>1. Shape(s) /\ TypeOK' /\ OwnIds' /\ \A t \in Sessions \ {s} : sess'[t] = sess[t]
    BY MoveTypes, MoveIds DEF Shapes
  <1>2. SUFFICES ASSUME NEW u \in Users
                 PROVE  Cardinality(RowsOf(u)') + Cardinality(Makers(u)') < MaxFiles + Cardinality(Sessions)
    BY DEF RoomLeft
  <1> DEFINE R == RowsOf(u)
             Q == RowsOf(u)'
             M == Makers(u)
             N == Makers(u)'
  <1>3. IsFiniteSet(R) /\ IsFiniteSet(Q) /\ IsFiniteSet(M) /\ IsFiniteSet(N)
    <2>1. R \subseteq born /\ Q \subseteq born' /\ M \subseteq Sessions /\ N \subseteq Sessions
      BY <1>1 DEF OwnIds, Settled, RowsOf, Makers
    <2> HIDE DEF R, Q, M, N
    <2> QED BY <1>1, <2>1, FS_Subset, Typed DEF OwnIds
  <1>4. /\ Cardinality(R) \in Nat /\ Cardinality(Q) \in Nat /\ Cardinality(M) \in Nat /\ Cardinality(N) \in Nat
        /\ Cardinality(Sessions) \in Nat /\ MaxFiles \in Nat
        /\ Cardinality(M) <= Cardinality(Sessions) /\ Cardinality(N) <= Cardinality(Sessions)
    <2>1. M \subseteq Sessions /\ N \subseteq Sessions
      BY DEF Makers
    <2> HIDE DEF R, Q, M, N
    <2> QED BY <1>3, <2>1, FS_CardinalityType, FS_Subset, Typed
  <1>5. Cardinality(R) + Cardinality(M) < MaxFiles + Cardinality(Sessions)
    BY DEF RoomLeft
  <1>6. CASE Upload(s, u) \/ Mkdir(s, u)
    <2>1. Cardinality(R) < MaxFiles /\ file' = file
      BY <1>6 DEF Upload, Mkdir, HasRoom
    <2>2. Q = R
      BY <2>1 DEF RowsOf, Rows
    <2> HIDE DEF R, Q, M, N
    <2>3. Cardinality(Q) + Cardinality(N) < MaxFiles + Cardinality(Sessions)
      BY <1>4, <2>1, <2>2
    <2> QED BY <2>3 DEF Q, N
  <1>7. CASE ~(Upload(s, u) \/ Mkdir(s, u))
    <2>1. N \subseteq M
      <3>1. ASSUME NEW t \in N PROVE t \in M
        <4>1. CASE t = s
          BY <1>1, <1>7, <3>1, <4>1, MakersMove DEF Makers
        <4>2. CASE t # s
          BY <1>1, <3>1, <4>2 DEF Makers, Maker
        <4> QED BY <4>1, <4>2
      <3> QED BY <3>1
    <2>2. CASE RowMade(s) /\ sess[s].user = u
      <3>1. Record(s) \/ Makes(s)
        <4>1. ~RowsStay /\ ~RowGone(s)
          BY <2>2 DEF RowMade, RowsStay, RowGone, Rows
        <4> QED BY <1>1, <4>1, MoveRows
      <3>2. s \in M /\ s \notin N
        BY <2>2, <3>1, MadeOnce DEF Makers
      <3>3. Q = R \cup {sess[s].entry} /\ sess[s].entry \notin R
        BY <2>2 DEF RowMade, RowsOf
      <3> HIDE DEF R, Q, M, N
      <3>4. Cardinality(Q) = Cardinality(R) + 1
        BY <1>3, <3>3, FS_AddElement
      <3>5. Cardinality(N) <= Cardinality(M \ {s}) /\ Cardinality(M \ {s}) = Cardinality(M) - 1
        <4>1. N \in SUBSET (M \ {s}) /\ IsFiniteSet(M \ {s})
          BY <1>3, <2>1, <3>2, FS_RemoveElement
        <4> QED BY <1>3, <3>2, <4>1, FS_Subset, FS_RemoveElement
      <3>6. Cardinality(Q) + Cardinality(N) < MaxFiles + Cardinality(Sessions)
        BY <1>4, <1>5, <3>4, <3>5
      <3> QED BY <3>6 DEF Q, N
    <2>3. CASE ~(RowMade(s) /\ sess[s].user = u)
      <3>1. Q \subseteq R
        <4>1. CASE RowsStay
          BY <4>1 DEF RowsStay, RowsOf, Rows
        <4>2. CASE RowMade(s)
          BY <2>3, <4>2 DEF RowMade, RowsOf
        <4>3. CASE RowGone(s)
          BY <4>3 DEF RowGone, RowsOf
        <4> QED BY <1>1, <4>1, <4>2, <4>3, MoveRows
      <3> HIDE DEF R, Q, M, N
      <3>2. Cardinality(Q) <= Cardinality(R) /\ Cardinality(N) <= Cardinality(M)
        BY <1>3, <2>1, <3>1, FS_Subset
      <3>3. Cardinality(Q) + Cardinality(N) < MaxFiles + Cardinality(Sessions)
        BY <1>4, <1>5, <3>2
      <3> QED BY <3>3 DEF Q, N
    <2> QED BY <2>2, <2>3
  <1> QED BY <1>6, <1>7

-----------------------------------------------------------------------------
(***************************************************************************)
(* The objects.                                                            *)
(***************************************************************************)
\* The request's own upload and victims.
LEMMA OwnMove ==
    ASSUME TypeOK, NEW s \in Sessions, Shape(s), Move(s)
    PROVE  /\ sess'[s].at \in {"record", "refresh", "unpin"} =>
                 /\ sess'[s].entry = sess[s].entry /\ sess'[s].content = sess[s].content
                 /\ \/ Stores(s)
                    \/ sess[s].at \in {"record", "refresh"} /\ sess'[s].at # "record"
           /\ \/ sess'[s].victims \subseteq sess[s].victims
              \/ \E e \in Rows : sess'[s].victims = {<<f, file[f].content>> : f \in Doomed(e)}
  <1>1. CASE Quits(s) \/ StoreLost(s) \/ Unpin(s) \/ Makes(s) \/ Refund(s)
    BY <1>1, Ended DEF Quits, StoreLost, Unpin, Makes, Refund
  <1>2. CASE Fails(s) \/ Record(s) \/ Misses(s)
    BY <1>2, Went DEF Fails, Record, Misses, Steps
  <1>3. CASE Locks(s) \/ Discard(s) \/ Erases(s)
    BY <1>3, Went DEF Locks, Discard, Erases, Steps
  <1>4. CASE Stores(s)
    BY <1>4, Went DEF Stores, Steps
  <1>5. CASE Finds(s)
    <2>1. PICK p : sess' = [sess EXCEPT ![s] = [sess[s] EXCEPT !.at = "store", !.path = <<>>, !.parent = p]]
      BY <1>5 DEF Finds
    <2>2. sess'[s] = [sess[s] EXCEPT !.at = "store", !.path = <<>>, !.parent = p] /\ sess[s] \in Session
      BY <2>1, Typed DEF TypeOK
    <2>3. sess'[s].at = "store" /\ sess'[s].victims = sess[s].victims
      BY <2>2 DEF Session
    <2> QED BY <2>3
  <1>6. ASSUME NEW u \in Users, Upload(s, u) PROVE sess'[s].at = "reserve" /\ sess'[s].victims = {}
    <2>1. PICK e \in Entries \ born, path \in Paths, n \in Names, c \in Contents :
              Begins(s, NewUpload(u, e, path, n, c)) /\ born' = born \cup {e}
      BY <1>6, UploadStep
    <2> QED BY <2>1, Begun, NewUploadIs
  <1>7. ASSUME NEW u \in Users, Mkdir(s, u) PROVE sess'[s].at = "insertDir" /\ sess'[s].victims = {}
    <2>1. PICK e \in Entries \ born, path \in Paths, n \in Names, p \in Dirs(u) :
              Begins(s, NewDir(u, e, p, n)) /\ born' = born \cup {e}
      BY <1>7, MkdirStep
    <2> QED BY <2>1, Begun, NewDirIs
  <1>8. ASSUME NEW e \in Entries, Delete(s, e)
        PROVE  /\ sess'[s].at = "discard" /\ e \in Rows
               /\ sess'[s].victims = {<<f, file[f].content>> : f \in Doomed(e)}
    <2>1. Begins(s, NewDeletion(e)) /\ e \in Rows
      BY <1>8, DeleteStep
    <2> QED BY <2>1, Begun, NewDeletionIs
  <1>9. CASE \E e \in Entries : Delete(s, e)
    BY <1>8, <1>9
  <1>10. CASE \E u \in Users : Upload(s, u) \/ Mkdir(s, u)
    BY <1>6, <1>7, <1>10
  <1> QED BY <1>1, <1>2, <1>3, <1>4, <1>5, <1>9, <1>10 DEF Move

\* Only the store of an upload makes an id hold a key.
LEMMA HoldsMove ==
    ASSUME TypeOK, Shapes, OwnIds, NEW s \in Sessions, Move(s), NEW e \in Entries, NEW k \in Keys, Holds(e, k)'
    PROVE  Holds(e, k) \/ (Stores(s) /\ e = sess[s].entry /\ k = StoreKey(s))
  <1>1. Shape(s) /\ \A t \in Sessions \ {s} : sess'[t] = sess[t]
    BY MoveTypes DEF Shapes
  <1>2. CASE e \in Rows' /\ file'[e].content # NULL /\ KeyOf(e, file'[e].content) = k
    <2>1. CASE e \in Rows
      <3>1. file'[e].content = file[e].content
        BY <1>1, <1>2, <2>1, MoveRows DEF RowsStay, RowMade, RowGone
      <3> QED BY <1>2, <2>1, <3>1 DEF Holds, IsDir
    <2>2. CASE e \notin Rows
      <3>1. RowMade(s)
        BY <1>1, <1>2, <2>2, MoveRows DEF RowsStay, RowGone, Rows
      <3>2. e = sess[s].entry /\ file'[e].content = sess[s].content
        BY <1>2, <2>2, <3>1 DEF RowMade
      <3>3. sess[s].at = "record"
        BY <1>1, <1>2, <3>1, <3>2 DEF RowMade, Shape
      <3> QED BY <1>2, <3>2, <3>3 DEF Holds
    <2> QED BY <2>1, <2>2
  <1>3. ASSUME NEW t \in Sessions, sess'[t].at \in {"record", "refresh", "unpin"}, sess'[t].entry = e,
               KeyOf(e, sess'[t].content) = k
        PROVE  Holds(e, k) \/ (Stores(s) /\ e = sess[s].entry /\ k = StoreKey(s))
    <2>1. CASE t # s
      BY <1>1, <1>3, <2>1 DEF Holds
    <2>2. CASE t = s
      BY <1>1, <1>3, <2>2, OwnMove DEF Holds, StoreKey
    <2> QED BY <2>1, <2>2
  <1>4. ASSUME NEW t \in Sessions, NEW v \in sess'[t].victims, v[1] = e, KeyOf(e, v[2]) = k
        PROVE  Holds(e, k)
    <2>1. CASE v \in sess[t].victims
      BY <1>4, <2>1 DEF Holds
    <2>2. CASE t = s /\ v \notin sess[t].victims
      <3>1. PICK d \in Rows : sess'[s].victims = {<<f, file[f].content>> : f \in Doomed(d)}
        BY <1>1, <1>4, <2>2, OwnMove
      <3>2. PICK f \in Doomed(d) : v = <<f, file[f].content>>
        BY <1>4, <2>2, <3>1
      <3>3. f = e /\ e \in Rows /\ file[e].content \in Contents /\ KeyOf(e, file[e].content) = k
        BY <1>4, <3>2, DoomedTyped
      <3> QED BY <3>3, Typed DEF Holds, IsDir
    <2>3. CASE t # s
      BY <1>1, <1>4, <2>3 DEF Holds
    <2> QED BY <2>1, <2>2, <2>3
  <1> QED BY <1>2, <1>3, <1>4 DEF Holds, IsDir

\* How often a key was stored.
LEMMA StoresMove ==
    ASSUME TypeOK, NEW s \in Sessions, Shape(s), Move(s), NEW k \in Keys
    PROVE  /\ stores[k] \in 0 .. 2 /\ stores'[k] \in 0 .. 2 /\ stores'[k] >= stores[k]
           /\ Stores(s) /\ k = StoreKey(s) => stores'[k] = IF stores[k] = 2 THEN 2 ELSE stores[k] + 1
  <1>1. stores[k] \in 0 .. 2
    BY DEF TypeOK
  <1>2. CASE Counts(s)
    <2>1. stores' = [stores EXCEPT ![StoreKey(s)] = IF @ = 2 THEN 2 ELSE @ + 1]
      BY <1>2 DEF Counts
    <2>2. stores'[k] = IF k = StoreKey(s) THEN IF stores[k] = 2 THEN 2 ELSE stores[k] + 1 ELSE stores[k]
      BY <2>1 DEF TypeOK
    <2> QED BY <1>1, <2>2
  <1>3. CASE ~Counts(s)
    <2>1. stores' = stores
      BY <1>3 DEF Move, Quits, Fails, Locks, Finds, Stores, StoreLost, Record, Misses, Unpin, Makes,
               Discard, Erases, Refund, Upload, Mkdir, Delete, ghosts
    <2> QED BY <1>1, <1>3, <2>1 DEF Stores
  <1> QED BY <1>2, <1>3

LEMMA StoresCountedStep ==
    ASSUME TypeOK, Shapes, OwnIds, StoresCounted, NEW s \in Sessions, Move(s)
    PROVE  StoresCounted'
  <1>1. SUFFICES ASSUME NEW k \in Keys, NEW e \in Entries, Holds(e, k)'
                 PROVE  stores'[k] >= 1 /\ \A f \in Entries : f # e /\ Holds(f, k)' => stores'[k] = 2
    BY DEF StoresCounted
  <1>2. /\ stores[k] \in 0 .. 2 /\ stores'[k] \in 0 .. 2 /\ stores'[k] >= stores[k]
        /\ Stores(s) /\ k = StoreKey(s) => stores'[k] = IF stores[k] = 2 THEN 2 ELSE stores[k] + 1
    BY StoresMove DEF Shapes
  <1>3. \A f \in Entries : Holds(f, k) => stores[k] >= 1 /\ \A g \in Entries : g # f /\ Holds(g, k) => stores[k] = 2
    BY DEF StoresCounted
  <1>4. stores'[k] >= 1
    <2>1. CASE Holds(e, k)
      BY <1>2, <1>3, <2>1
    <2>2. CASE Stores(s) /\ e = sess[s].entry /\ k = StoreKey(s)
      BY <1>2, <2>2
    <2> QED BY <1>1, <2>1, <2>2, HoldsMove
  <1>5. ASSUME NEW f \in Entries, f # e, Holds(f, k)' PROVE stores'[k] = 2
    <2>1. Holds(e, k) \/ (Stores(s) /\ e = sess[s].entry /\ k = StoreKey(s))
      BY <1>1, HoldsMove
    <2>2. Holds(f, k) \/ (Stores(s) /\ f = sess[s].entry /\ k = StoreKey(s))
      BY <1>5, HoldsMove
    <2>3. CASE Holds(e, k) /\ Holds(f, k)
      BY <1>2, <1>3, <1>5, <2>3
    <2>4. CASE Stores(s) /\ k = StoreKey(s) /\ (Holds(e, k) \/ Holds(f, k))
      <3>1. stores[k] >= 1
        BY <1>3, <2>4
      <3> QED BY <1>2, <2>4, <3>1
    <2> QED BY <1>5, <2>1, <2>2, <2>3, <2>4
  <1> QED BY <1>4, <1>5

\* A key is removed for an id that is settled: no row's, or a condemned or disowned one's.
LEMMA RemovedFor ==
    ASSUME TypeOK, Shapes, OwnIds, NEW s \in Sessions, Move(s), NEW k \in stored, k \notin stored'
    PROVE  \E e \in Settled : e \in Entries /\ Holds(e, k) /\ e \notin Rows \ (condemned \cup disowned')
  <1>1. Shape(s) /\ sess[s] \in Session
    BY Typed DEF Shapes
  <1>2. CASE Unpin(s)
    <2>1. k = StoreKey(s) /\ sess[s].at = "unpin"
      BY <1>2 DEF Unpin, StoreKey
    <2>2. Holds(sess[s].entry, k)
      BY <2>1 DEF Holds, StoreKey
    <2>3. sess[s].entry \in Settled /\ sess[s].entry \in Entries
      BY <1>1, <2>1, Typed DEF Shape, Session
    <2>4. sess[s].entry \in Rows => sess[s].entry \in disowned'
      BY <1>2 DEF Unpin
    <2> QED BY <2>2, <2>3, <2>4
  <1>3. CASE Discard(s)
    <2>1. PICK gone \in SUBSET {KeyOf(v[1], v[2]) : v \in sess[s].victims} : stored' = stored \ gone
      BY <1>3 DEF Discard
    <2>2. PICK v \in sess[s].victims : k = KeyOf(v[1], v[2])
      BY <2>1
    <2>3. v[1] \in Entries /\ v[1] \in condemned /\ v[1] \in Settled
      BY <1>1 DEF Shape, Session
    <2>4. Holds(v[1], k)
      BY <2>2 DEF Holds
    <2> QED BY <2>3, <2>4
  <1>4. CASE ~Unpin(s) /\ ~Discard(s)
    BY <1>4 DEF Move, Quits, Fails, Locks, Finds, Stores, StoreLost, Record, Misses, Makes,
                Erases, Refund, Upload, Mkdir, Delete
  <1> QED BY <1>2, <1>3, <1>4

\* A key that one id holds alone is kept, unless that id gives it up.
LEMMA KeyKept ==
    ASSUME TypeOK, Shapes, OwnIds, StoresCounted, NEW s \in Sessions, Move(s), NEW e \in Entries, NEW k \in Keys,
           Holds(e, k), stores'[k] = 1, e \in Settled => e \in Rows \ (condemned \cup disowned')
    PROVE  stores[k] = 1 /\ (k \in stored => k \in stored')
  <1>1. stores[k] = 1
    BY StoresMove DEF Shapes, StoresCounted
  <1>2. ASSUME k \in stored, k \notin stored' PROVE FALSE
    <2>1. PICK f \in Settled : f \in Entries /\ Holds(f, k) /\ f \notin Rows \ (condemned \cup disowned')
      BY <1>2, RemovedFor
    <2>2. f # e
      BY <2>1
    <2> QED BY <1>1, <2>1, <2>2 DEF StoresCounted
  <1> QED BY <1>1, <1>2

LEMMA InFlightStep ==
    ASSUME TypeOK, Shapes, OwnIds, StoresCounted, KeptInFlight, NEW s \in Sessions, Move(s)
    PROVE  KeptInFlight'
  <1>1. SUFFICES ASSUME NEW t \in Sessions, sess'[t].at = "record",
                        stores'[KeyOf(sess'[t].entry, sess'[t].content)] = 1
                 PROVE  KeyOf(sess'[t].entry, sess'[t].content) \in stored'
    BY DEF KeptInFlight
  <1>2. CASE t = s
    <2>1. Stores(s) /\ sess'[s].entry = sess[s].entry /\ sess'[s].content = sess[s].content
      BY <1>1, <1>2, OwnMove DEF Shapes
    <2> QED BY <1>2, <2>1 DEF Stores, StoreKey
  <1>3. CASE t # s
    <2>1. sess'[t] = sess[t]
      BY <1>3, MoveTypes DEF Shapes
    <2>2. sess[t].entry \in Entries /\ sess[t].content \in Contents /\ sess[t].at = "record"
      BY <1>1, <2>1, Typed DEF Shapes, Shape, Session
    <2>3. sess[t].entry \notin Settled
      BY <2>2 DEF Settled, Pending, Maker, Making
    <2>4. PICK k \in Keys : k = KeyOf(sess[t].entry, sess[t].content)
      BY <2>2, KeyTyped
    <2>5. Holds(sess[t].entry, k)
      BY <2>2, <2>4 DEF Holds
    <2>6. stores[k] = 1 /\ (k \in stored => k \in stored')
      BY <1>1, <2>1, <2>2, <2>3, <2>4, <2>5, KeyKept
    <2> QED BY <2>1, <2>2, <2>4, <2>6 DEF KeptInFlight
  <1> QED BY <1>2, <1>3

LEMMA KeptStep ==
    ASSUME TypeOK, Shapes, OwnIds, StoresCounted, KeptInFlight, KeptUntilDeleted, NEW s \in Sessions, Move(s)
    PROVE  KeptUntilDeleted'
  <1>1. SUFFICES ASSUME NEW e \in Rows', file'[e].content # NULL, e \notin condemned' \cup disowned',
                        stores'[KeyOf(e, file'[e].content)] = 1
                 PROVE  KeyOf(e, file'[e].content) \in stored'
    BY DEF KeptUntilDeleted, IsDir
  <1>2. Shape(s) /\ condemned \subseteq condemned' /\ disowned \subseteq disowned'
    BY MoveTypes DEF Shapes
  <1>3. CASE e \in Rows
    <2>1. file'[e].content = file[e].content /\ e \in Entries
      BY <1>1, <1>2, <1>3, MoveRows DEF RowsStay, RowMade, RowGone, Rows
    <2>2. file[e].content \in Contents
      BY <1>1, <1>3, <2>1, Typed DEF File
    <2>3. PICK k \in Keys : k = KeyOf(e, file[e].content)
      BY <2>1, <2>2, KeyTyped
    <2>4. Holds(e, k)
      BY <1>1, <1>3, <2>1, <2>3 DEF Holds, IsDir
    <2>5. stores[k] = 1 /\ (k \in stored => k \in stored')
      BY <1>1, <1>2, <1>3, <2>1, <2>3, <2>4, KeyKept
    <2> QED BY <1>1, <1>2, <1>3, <2>1, <2>3, <2>5 DEF KeptUntilDeleted, IsDir
  <1>4. CASE e \notin Rows
    <2>1. RowMade(s) /\ (Record(s) \/ Makes(s))
      BY <1>1, <1>2, <1>4, MoveRows DEF RowsStay, RowGone, Rows
    <2>2. e = sess[s].entry /\ file'[e].content = sess[s].content
      BY <1>4, <2>1 DEF RowMade
    <2>3. Record(s)
      BY <1>1, <1>2, <2>1, <2>2 DEF Makes, Shape
    <2>4. sess[s].at = "record" /\ stores' = stores /\ stored' = stored
      BY <2>3 DEF Record, ghosts
    <2> QED BY <1>1, <2>2, <2>4 DEF KeptInFlight
  <1> QED BY <1>3, <1>4

-----------------------------------------------------------------------------
(***************************************************************************)
(* The invariant.                                                          *)
(***************************************************************************)
LEMMA InitIInv ==
    ASSUME Init
    PROVE  IInv
  <1>1. TypeOK
    BY IdleTyped DEF Init, TypeOK
  <1>2. \A s \in Sessions : sess[s] = Idle
    BY DEF Init
  <1>3. \A s \in Sessions : /\ sess[s].at = "idle" /\ sess[s].user = NULL /\ sess[s].entry = NULL
                            /\ sess[s].victims = {}
    BY <1>2 DEF Idle
  <1>4. Rows = {} /\ born = {} /\ stored = {} /\ \A u \in Users : used[u] = 0 /\ lock[u] = NULL
    BY DEF Init, Rows
  <1>5. Pending = {} /\ Settled = {}
    BY <1>3, <1>4 DEF Pending, Settled, Maker, Making
  <1>6. \A u \in Users : RowsOf(u) = {} /\ Makers(u) = {}
    BY <1>3, <1>4 DEF RowsOf, Makers, Maker, Making
  <1>7. Shapes
    <2>1. SUFFICES ASSUME NEW s \in Sessions PROVE Shape(s)
      BY DEF Shapes
    <2>2. \A u \in Users : lock[u] # s
      BY <1>1, <1>4, Typed
    <2>3. IsFiniteSet(sess[s].victims)
      BY <1>3, FS_EmptySet
    <2> QED BY <1>3, <2>2, <2>3 DEF Shape, Maker, Making, Deleting
  <1>8. OwnIds
    BY <1>3, <1>4, FS_EmptySet DEF OwnIds, Maker, Making
  <1>9. WithinQuota
    BY <1>1, <1>4, Typed DEF WithinQuota, QuotaHolds, Reserved
  <1>10. UsedIsSum
    <2>1. SUFFICES ASSUME NEW u \in Users PROVE Bytes(RowsOf(u)) = 0
      BY <1>4 DEF UsedIsSum
    <2> DEFINE w == [e \in RowsOf(u) |-> BytesOf(e)]
    <2>2. w \in [{} -> Int]
      BY <1>6
    <2>3. SumFunction(w) = 0
      <3> HIDE DEF w
      <3> QED BY <2>2, SumEmpty
    <2> QED BY <2>3 DEF Bytes
  <1>11. StoresCounted /\ KeptInFlight /\ KeptUntilDeleted /\ TreeIsWhole
    BY <1>3, <1>4 DEF StoresCounted, Holds, KeptInFlight, KeptUntilDeleted, TreeIsWhole
  <1>12. RoomLeft
    <2>1. Cardinality({}) = 0 /\ Cardinality(Sessions) \in Nat /\ Cardinality(Sessions) # 0
      BY <1>1, FS_EmptySet, FS_CardinalityType, Typed
    <2>2. Cardinality(Sessions) > 0 /\ MaxFiles \in Nat
      BY <1>1, <2>1, Typed
    <2>3. 0 + 0 < MaxFiles + Cardinality(Sessions)
      BY <2>1, <2>2
    <2> QED BY <1>6, <2>1, <2>3 DEF RoomLeft
  <1> QED BY <1>1, <1>7, <1>8, <1>9, <1>10, <1>11, <1>12 DEF IInv

LEMMA StepIInv ==
    ASSUME IInv, [Next]_vars
    PROVE  IInv'
  <1>1. CASE Next
    <2>1. PICK s \in Sessions : Move(s)
      BY <1>1, NextMoves DEF IInv
    <2>2. TypeOK' /\ OwnIds'
      BY <2>1, MoveTypes, MoveIds DEF IInv, Shapes
    <2>3. Shapes' /\ WithinQuota' /\ UsedIsSum'
      BY <2>1, ShapesStep, QuotaStep, SumStep DEF IInv
    <2>4. StoresCounted' /\ KeptInFlight' /\ KeptUntilDeleted'
      BY <2>1, StoresCountedStep, InFlightStep, KeptStep DEF IInv
    <2>5. TreeIsWhole' /\ RoomLeft'
      BY <2>1, TreeStep, RoomStep DEF IInv
    <2> QED BY <2>2, <2>3, <2>4, <2>5 DEF IInv
  <1>2. CASE UNCHANGED vars
    <2>1. /\ file' = file /\ used' = used /\ lock' = lock /\ sess' = sess /\ stored' = stored
          /\ born' = born /\ condemned' = condemned /\ disowned' = disowned
          /\ stores' = stores /\ miscounted' = miscounted
      BY <1>2 DEF vars, ghosts
    <2>2. TypeOK' /\ OwnIds' /\ Shapes'
      BY <2>1 DEF IInv, TypeOK, OwnIds, Shapes, Shape, Maker, Settled, Pending, Rows, IsDir
    <2>3. WithinQuota' /\ UsedIsSum'
      BY <2>1 DEF IInv, WithinQuota, QuotaHolds, Reserved, UsedIsSum, Bytes, BytesOf, RowsOf, Rows, IsDir
    <2>4. StoresCounted' /\ KeptInFlight' /\ KeptUntilDeleted'
      BY <2>1 DEF IInv, StoresCounted, Holds, KeptInFlight, KeptUntilDeleted, Rows, IsDir
    <2>5. TreeIsWhole' /\ RoomLeft'
      BY <2>1 DEF IInv, TreeIsWhole, RoomLeft, RowsOf, Makers, Maker, Rows, IsDir
    <2> QED BY <2>2, <2>3, <2>4, <2>5 DEF IInv
  <1> QED BY <1>1, <1>2

\* The inductive invariant holds of every behaviour.
THEOREM Invariant == Spec => []IInv
  <1>1. Init => IInv
    BY InitIInv
  <1>2. IInv /\ [Next]_vars => IInv'
    BY StepIInv
  <1> QED BY <1>1, <1>2, PTL DEF Spec

\* Rows, counters, locks and requests keep their types.
THEOREM TypeCorrect == Spec => []TypeOK
  <1>1. IInv => TypeOK
    BY DEF IInv
  <1> QED BY <1>1, Invariant, PTL

\* storage_used is the sum of the bytes of the user's files, whatever runs
\* concurrently, fails or is lost, until a request has upset the accounts.
THEOREM CounterIsTheSum == Spec => []UsedIsSum
  <1>1. IInv => UsedIsSum
    BY DEF IInv
  <1> QED BY <1>1, Invariant, PTL

\* What is used and what an upload has reserved stay within the quota.
THEOREM QuotaIsKept == Spec => []QuotaHolds
  <1>1. IInv => QuotaHolds
    BY DEF IInv, WithinQuota
  <1> QED BY <1>1, Invariant, PTL

\* The count of files exceeds its limit by less than the number of requests.
THEOREM CountStaysNearLimit == Spec => []CountNearLimit
  <1>1. ASSUME IInv PROVE CountNearLimit
    <2>1. SUFFICES ASSUME NEW u \in Users
                   PROVE  Cardinality(RowsOf(u)) < MaxFiles + Cardinality(Sessions)
      BY DEF CountNearLimit
    <2>2. IsFiniteSet(RowsOf(u)) /\ IsFiniteSet(Makers(u)) /\ IsFiniteSet(Sessions) /\ MaxFiles \in Nat
      <3>1. RowsOf(u) \subseteq born /\ IsFiniteSet(born) /\ Makers(u) \subseteq Sessions
        BY <1>1 DEF IInv, OwnIds, Settled, RowsOf, Makers
      <3>2. IsFiniteSet(Sessions) /\ MaxFiles \in Nat
        BY ConstantsAssumption
      <3> QED BY <3>1, <3>2, FS_Subset
    <2>3. /\ Cardinality(RowsOf(u)) \in Nat /\ Cardinality(Makers(u)) \in Nat
          /\ Cardinality(Sessions) \in Nat
      BY <2>2, FS_CardinalityType
    <2>4. Cardinality(RowsOf(u)) + Cardinality(Makers(u)) < MaxFiles + Cardinality(Sessions)
      BY <1>1 DEF IInv, RoomLeft
    <2> QED BY <2>2, <2>3, <2>4
  <1> QED BY <1>1, Invariant, PTL

\* The object of a row stays with the provider until the deletion of the row is
\* requested or the row's own upload fails after its commit and takes it back,
\* unless another upload stored the same key: no other request removes it.
THEOREM ObjectsAreKept == Spec => []KeptUntilDeleted
  <1>1. IInv => KeptUntilDeleted
    BY DEF IInv
  <1> QED BY <1>1, Invariant, PTL

\* Every row is reached by a path: an insertion that races with the deletion of
\* its directory leaves none behind.
THEOREM TreeStaysWhole == Spec => []TreeIsWhole
  <1>1. IInv => TreeIsWhole
    BY DEF IInv
  <1> QED BY <1>1, Invariant, PTL

-----------------------------------------------------------------------------
(***************************************************************************)
(* FileSpace.                                                              *)
(***************************************************************************)
\* The files of FileSpace.
FileOf(e) == [id |-> e, owner |-> file[e].owner, bytes |-> BytesOf(e)]
Files     == {FileOf(e) : e \in Rows}

\* A row that is inserted with the bytes n is a file added.
LEMMA RowAdded ==
    ASSUME IInv, NEW s \in Sessions, RowMade(s), NEW n \in 0 .. Quota, used[sess[s].user] + n <= Quota,
           n = IF sess[s].content # NULL THEN Size[sess[s].content] ELSE 0,
           used' = [used EXCEPT ![sess[s].user] = @ + n]
    PROVE  Space!Next
  <1>1. PICK x, u : x = sess[s].entry /\ u = sess[s].user
    OBVIOUS
  <1>2. x \in Entries /\ u \in Users
    BY <1>1, Typed DEF IInv, Shapes, Shape, RowMade, Session
  <1>3. FileOf(x)' = [id |-> x, owner |-> u, bytes |-> n] /\ \A e \in Rows : FileOf(e)' = FileOf(e)
    BY <1>1 DEF RowMade, FileOf, BytesOf, IsDir
  <1>4. Files' = Files \cup {[id |-> x, owner |-> u, bytes |-> n]}
    BY <1>1, <1>3 DEF RowMade, Files
  <1>5. \A f \in Files : f.id # x
    BY <1>1 DEF RowMade, Files, FileOf
  <1>6. Space!Add(x, u, n)
    BY <1>1, <1>4, <1>5 DEF Space!Add, Files, FileOf
  <1> QED BY <1>2, <1>6 DEF Space!Next

\* A row that is deleted is a file removed, if the counter falls by its bytes.
LEMMA RowRemoved ==
    ASSUME IInv, NEW s \in Sessions, RowGone(s), sess[s].entry \in Rows,
           used' = [used EXCEPT ![file[sess[s].entry].owner] = @ - BytesOf(sess[s].entry)]
    PROVE  Space!Next
  <1>1. PICK x \in Rows : x = sess[s].entry
    OBVIOUS
  <1>2. \A e \in Rows' : FileOf(e)' = FileOf(e)
    BY DEF RowGone, FileOf, BytesOf, IsDir
  <1>3. Files' = Files \ {FileOf(x)}
    <2>1. \A e \in Rows : FileOf(e).id = e
      BY DEF FileOf
    <2> HIDE DEF FileOf
    <2> QED BY <1>1, <1>2, <2>1 DEF RowGone, Files
  <1>4. FileOf(x) \in Files /\ FileOf(x).owner = file[x].owner /\ FileOf(x).bytes = BytesOf(x)
    BY DEF Files, FileOf
  <1>5. PICK f : f = FileOf(x)
    OBVIOUS
  <1>6. Space!Remove(f) /\ f \in Files
    <2>1. Files' = Files \ {f} /\ used' = [used EXCEPT ![f.owner] = @ - f.bytes]
      BY <1>1, <1>3, <1>4, <1>5
    <2> QED BY <1>4, <1>5, <2>1 DEF Space!Remove, Files, FileOf
  <1> QED BY <1>6 DEF Space!Next, Files, FileOf

LEMMA SpaceStep ==
    ASSUME IInv, [Next]_vars
    PROVE  [InOneStep]_<<file, used>>
  <1>1. CASE UNCHANGED vars
    BY <1>1 DEF vars
  <1>2. CASE Next
    <2>0. TypeOK /\ Shapes /\ OwnIds /\ UsedIsSum /\ WithinQuota /\ TreeIsWhole
      BY DEF IInv
    <2>1. PICK s \in Sessions : Move(s)
      BY <1>2, <2>0, NextMoves
    <2> DEFINE r == sess[s]
    <2>2. Shape(s)
      BY <2>0 DEF Shapes
    <2>3. CASE Record(s)
      <3>1. /\ r.user \in Users /\ r.content \in Contents /\ r.content # NULL /\ lock[r.user] = s
            /\ used' = [used EXCEPT ![r.user] = @ + Size[r.content]]
        BY <2>0, <2>2, <2>3, Typed DEF Record, Shape, Session
      <3>2. Size[r.content] \in Nat /\ used[r.user] \in Int /\ used[r.user] >= 0 /\ Quota \in Nat
        BY <2>0, <3>1, Typed DEF WithinQuota, TypeOK
      <3>3. used[r.user] + Size[r.content] <= Quota
        BY <2>0, <3>1, Typed DEF WithinQuota, QuotaHolds, Reserved
      <3>4. Size[r.content] \in 0 .. Quota
        <4> HIDE DEF r
        <4> QED BY <3>2, <3>3
      <3>5. RowMade(s)
        BY <2>0, <2>1, <2>2, <2>3, MoveRows
      <3>6. Space!Next
        BY <3>1, <3>3, <3>4, <3>5, RowAdded
      <3> QED BY <3>6 DEF InOneStep
    <2>4. CASE Makes(s)
      <3>1. r.user \in Users /\ r.content = NULL /\ used' = used
        BY <2>0, <2>2, <2>4, Typed DEF Makes, Shape, Session
      <3>2. used[r.user] \in Int /\ used[r.user] >= 0 /\ Quota \in Nat /\ used[r.user] <= Quota
        <4>1. used[r.user] + Reserved(r.user) <= Quota /\ Reserved(r.user) \in Nat
          BY <2>0, <3>1, ReservedNat DEF WithinQuota, QuotaHolds
        <4> QED BY <2>0, <3>1, <4>1, Typed DEF WithinQuota, TypeOK
      <3>3. used' = [used EXCEPT ![r.user] = @ + 0] /\ 0 \in 0 .. Quota /\ used[r.user] + 0 <= Quota
        BY <2>0, <3>1, <3>2 DEF TypeOK
      <3>4. RowMade(s)
        BY <2>0, <2>1, <2>2, <2>4, MoveRows
      <3>5. Space!Next
        BY <3>1, <3>3, <3>4, RowAdded
      <3> QED BY <3>5 DEF InOneStep
    <2>5. CASE Refund(s)
      <3>1. SUFFICES ASSUME miscounted' = {} PROVE [Space!Next]_<<file, used>>
        BY DEF InOneStep
      <3>2. /\ r.at = "refund" /\ miscounted = {} /\ file' = Orphaned(r.entry)
            /\ r.victims = {} \/ (r.entry \in Rows /\ ~IsDir(r.entry))
            /\ used' = [used EXCEPT ![r.user] = IF Freed(s) = 0 THEN @ ELSE Refunded(r.user, Freed(s))]
        BY <2>5, <3>1 DEF Refund
      <3>3. r.user \in Users
        BY <2>0, <2>2, <3>2, Typed DEF Shape, Session
      <3>4. RowGone(s)
        BY <2>0, <2>1, <2>2, <2>5, MoveRows
      <3>5. CASE r.entry \notin Rows
        <4>1. Freed(s) = 0
          BY <2>0, <3>2, <3>5, FreedIs
        <4>2. used' = used
          BY <2>0, <3>2, <4>1 DEF TypeOK
        <4>3. \A e \in Rows : file[e].parent # r.entry
          BY <2>0, <2>2, <3>2, <3>5, Typed DEF TreeIsWhole, Shape
        <4>4. file' = file
          BY <2>0, <3>2, <3>5, <4>3 DEF Orphaned, Rows, TypeOK
        <4> QED BY <4>2, <4>4
      <3>6. CASE r.entry \in Rows
        <4>1. file[r.entry].owner = r.user
          BY <2>2, <3>2, <3>6 DEF Shape, Deleting
        <4>2. (IF Freed(s) = 0 THEN used[r.user] ELSE Refunded(r.user, Freed(s))) = used[r.user] - BytesOf(r.entry)
          <5>1. used[r.user] = Bytes(RowsOf(r.user)) /\ used[r.user] \in Int
            BY <2>0, <3>2, <3>3 DEF UsedIsSum, TypeOK
          <5>2. CASE IsDir(r.entry)
            <6>1. Freed(s) = 0 /\ BytesOf(r.entry) = 0
              BY <2>0, <3>2, <5>2, FreedIs DEF BytesOf
            <6> HIDE DEF r
            <6> QED BY <5>1, <6>1
          <5>3. CASE ~IsDir(r.entry)
            <6>1. r.victims = {<<r.entry, file[r.entry].content>>}
              BY <2>2, <3>2, <3>6, <5>3 DEF Shape, Deleting
            <6>2. file[r.entry].content \in Contents /\ r.entry \in Entries
              BY <2>0, <3>6, <5>3, Typed DEF IsDir, File, Rows
            <6>3. Freed(s) = BytesOf(r.entry) /\ Freed(s) \in Nat /\ Freed(s) > 0
              BY <2>0, <5>3, <6>1, <6>2, FreedIs, Typed DEF BytesOf
            <6>4. used[r.user] >= Freed(s)
              <7>1. TypeOK' /\ OwnIds'
                BY <2>0, <2>1, <2>2, MoveTypes, MoveIds
              <7>2. PICK u \in Users : u = r.user
                BY <3>3
              <7>3. r.entry \in RowsOf(u)
                BY <3>6, <4>1, <7>2 DEF RowsOf
              <7>4. Bytes(RowsOf(u))' \in Nat /\ Bytes(RowsOf(u)) = Bytes(RowsOf(u))' + BytesOf(r.entry)
                BY <2>0, <2>2, <3>4, <7>1, <7>3, BytesMove
              <7> HIDE DEF r
              <7> QED BY <5>1, <6>3, <7>2, <7>4
            <6> HIDE DEF r
            <6> QED BY <6>3, <6>4 DEF Refunded
          <5> QED BY <5>2, <5>3
        <4>3. used' = [used EXCEPT ![r.user] = @ - BytesOf(r.entry)]
          BY <3>2, <4>2
        <4>4. Space!Next
          BY <3>4, <3>6, <4>1, <4>3, RowRemoved
        <4> QED BY <4>4
      <3> QED BY <3>5, <3>6
    <2>6. CASE ~(Record(s) \/ Makes(s) \/ Refund(s))
      <3>1. RowsStay
        BY <2>0, <2>1, <2>2, <2>6, MoveRows
      <3>2. used' = used
        BY <2>1, <2>6 DEF Move, Quits, Fails, Locks, Finds, Stores, StoreLost, Counts, Misses, Unpin,
             Discard, Erases, Upload, Mkdir, Delete
      <3> QED BY <3>1, <3>2 DEF RowsStay
    <2> QED BY <2>3, <2>4, <2>5, <2>6
  <1> QED BY <1>1, <1>2

\* The requests implement FileSpace: every step adds one file, removes one or
\* changes nothing, until a request has upset the accounts.
THEOREM ImplementsTheSpace == Spec => ImplementsFileSpace
  <1>1. Init => Space!Init
    BY DEF Init, Space!Init, Rows
  <1>2. IInv /\ [Next]_vars => [InOneStep]_<<file, used>>
    BY SpaceStep
  <1> QED BY <1>1, <1>2, Invariant, PTL DEF Spec, ImplementsFileSpace

=============================================================================
