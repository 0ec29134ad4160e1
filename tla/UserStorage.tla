----------------------------- MODULE UserStorage -----------------------------
(***************************************************************************)
(* The files of the users (app/api/v1/storage.py): the rows of user_files, *)
(* the quota counter ai_users.storage_used, and the objects of the storage *)
(* provider (services/storage_provider.py).                                *)
(*                                                                         *)
(* An upload reserves its size by an UPDATE, whose row lock it holds while *)
(* the provider stores the object, and then inserts its row; a deletion    *)
(* removes the objects first and the row afterwards.  Requests interleave  *)
(* at every await.  PostgreSQL runs at READ COMMITTED: a statement sees    *)
(* what is committed, a session's own writes are implied by its step.      *)
(***************************************************************************)
EXTENDS Integers, Sequences, FiniteSets, FiniteSetsExt

CONSTANTS
    Users, Names, Contents,
    Entries,            \* ids of rows; none is used twice
    Sessions,           \* slots for requests
    Paths,              \* the paths that requests name: sequences of names
    Size,               \* the bytes of each content
    Quota,              \* storage_quota of every user
    MaxFiles,           \* MAX_FILE_COUNT
    ContentAddressed,   \* the provider is IPFS: equal contents have one key
    NULL

File == [owner : Users, parent : Entries \cup {NULL}, name : Names,
         content : Contents \cup {NULL}]          \* NULL: a directory

ASSUME ConstantsAssumption ==
    /\ Size \in [Contents -> Nat \ {0}]
    /\ Quota \in Nat /\ MaxFiles \in Nat
    /\ ContentAddressed \in BOOLEAN
    /\ Paths \subseteq Seq(Names)
    /\ Contents \cap Entries = {}
    /\ IsFiniteSet(Sessions) /\ Sessions # {}
    /\ NULL \notin Users \cup Names \cup Contents \cup Entries \cup Sessions \cup File

VARIABLES
    file,        \* the committed rows of user_files, by id
    used,        \* the committed storage_used of each user
    lock,        \* which session has updated the user's row and not committed
    sess,        \* what each request is doing
    stored,      \* the keys that the provider keeps (IPFS: pinned)
    born,        \* auxiliary: the ids that requests have taken
    condemned,   \* auxiliary: the files whose deletion was requested
    disowned,    \* auxiliary: the files whose own upload took their object back
    stores,      \* auxiliary: how often each key was stored, up to 2
    miscounted   \* auxiliary: users of a request whose accounts went wrong

ghosts == <<born, condemned, disowned, stores, miscounted>>
vars   == <<file, used, lock, sess, stored, ghosts>>

Keys == IF ContentAddressed THEN Contents ELSE Entries

Steps == {"idle", "reserve", "resolve", "store", "record", "refresh", "unpin",
          "insertDir", "discard", "erase", "refund"}

Session == [at      : Steps,
            user    : Users \cup {NULL},
            entry   : Entries \cup {NULL},         \* the row made, or deleted
            path    : Paths \cup {<<>>},
            parent  : Entries \cup {NULL},
            name    : Names \cup {NULL},
            content : Contents \cup {NULL},
            victims : SUBSET (Entries \X Contents)] \* the files to be deleted

Idle == [at |-> "idle", user |-> NULL, entry |-> NULL, path |-> <<>>, parent |-> NULL,
         name |-> NULL, content |-> NULL, victims |-> {}]

Rows       == {e \in Entries : file[e] # NULL}
RowsOf(u)  == {e \in Rows : file[e].owner = u}
IsDir(e)   == file[e].content = NULL
Children(e) == {c \in Rows : file[c].parent = e}

BytesOf(e) == IF IsDir(e) THEN 0 ELSE Size[file[e].content]
Bytes(S)   == SumFunction([e \in S |-> BytesOf(e)])

KeyOf(e, content) == IF ContentAddressed THEN content ELSE e

-----------------------------------------------------------------------------
Init ==
    /\ file = [e \in Entries |-> NULL]
    /\ used = [u \in Users |-> 0]
    /\ lock = [u \in Users |-> NULL]
    /\ sess = [s \in Sessions |-> Idle]
    /\ stored = {}
    /\ born = {} /\ condemned = {} /\ disowned = {} /\ miscounted = {}
    /\ stores = [k \in Keys |-> 0]

\* The directories of u; NULL is the root.
Dirs(u) == {NULL} \cup {e \in RowsOf(u) : IsDir(e)}

\* _resolve_parent: the directory of u at the path, in a set that is empty if
\* there is none.
Resolved(u, path) ==
    LET at[i \in 0 .. Len(path)] ==
            IF i = 0 THEN {NULL}
            ELSE {e \in RowsOf(u) : file[e].name = path[i] /\ file[e].parent \in at[i - 1] \cap Dirs(u)}
    IN  Dirs(u) \cap at[Len(path)]

\* The unique constraints of user_files.
Taken(u, parent, name) == \E e \in RowsOf(u) : file[e].parent = parent /\ file[e].name = name

Goto(s, step) == sess' = [sess EXCEPT ![s].at = step]

\* The transaction ends, and with it the request.
Finish(s) ==
    /\ sess' = [sess EXCEPT ![s] = Idle]
    /\ lock' = [u \in Users |-> IF lock[u] = s THEN NULL ELSE lock[u]]

\* An UPDATE of the user's row can take its lock.
CanLock(s) == lock[sess[s].user] \in {NULL, s}

\* The rows that s has deleted or moved and not committed yet.
Erased(s) == IF sess[s].at = "refund" THEN {sess[s].entry} \cup Children(sess[s].entry) ELSE {}

\* An INSERT by s waits for a deletion by t, of the parent or into its name.
InsertWaits(s, t) ==
    /\ sess[s].at \in {"record", "insertDir"} /\ sess[t].at = "refund"
    /\ \/ sess[s].parent \in Erased(t)
       \/ sess[s].parent = NULL /\ \E e \in Children(sess[t].entry) : file[e].name = sess[s].name

InsertFree(s) == \A t \in Sessions : ~InsertWaits(s, t)

InsertValid(s) ==
    LET r == sess[s] IN
    /\ ~Taken(r.user, r.parent, r.name)
    /\ r.parent = NULL \/ r.parent \in Rows

Insert(s) ==
    LET r == sess[s] IN
    file' = [file EXCEPT ![r.entry] = [owner |-> r.user, parent |-> r.parent, name |-> r.name,
                                       content |-> r.content]]

-----------------------------------------------------------------------------
\* Variant of HasRoom: counts files only.
HasRoomForFile(u) == Cardinality({e \in RowsOf(u) : ~IsDir(e)}) < MaxFiles

\* _check_file_count, and the limit.
HasRoom(u) == Cardinality(RowsOf(u)) < MaxFiles

(***************************************************************************)
(* POST /storage/upload                                                    *)
(***************************************************************************)
Upload(s, u) ==
    /\ sess[s].at = "idle"
    /\ HasRoom(u)
    /\ \E e \in Entries \ born, path \in Paths, n \in Names, c \in Contents :
          /\ sess' = [sess EXCEPT ![s] = [Idle EXCEPT !.at = "reserve", !.user = u, !.entry = e,
                                                     !.path = path, !.name = n, !.content = c]]
          /\ born' = born \cup {e}
    /\ UNCHANGED <<file, used, lock, stored, condemned, disowned, stores, miscounted>>

\* Variant of Fits: without what is used already.
FitsAlone(s) == Size[sess[s].content] <= Quota

Fits(s) == used[sess[s].user] + Size[sess[s].content] <= Quota

\* The conditional UPDATE of the counter; without a row it is refused.
Reserve(s) ==
    /\ sess[s].at = "reserve" /\ CanLock(s)
    /\ IF Fits(s)
       THEN Goto(s, "resolve") /\ lock' = [lock EXCEPT ![sess[s].user] = s]
       ELSE Finish(s)
    /\ UNCHANGED <<file, used, stored, ghosts>>

\* Without a directory the size is subtracted again, which restores the counter.
ResolveParent(s) ==
    LET found == Resolved(sess[s].user, sess[s].path) IN
    /\ sess[s].at = "resolve"
    /\ IF found = {} THEN Finish(s)
       ELSE /\ \E p \in found : sess' = [sess EXCEPT ![s].at = "store", ![s].path = <<>>, ![s].parent = p]
            /\ UNCHANGED lock
    /\ UNCHANGED <<file, used, stored, ghosts>>

\* Variant of Store: a failed upload keeps its reservation.
StoreUncompensated(s) ==
    LET key == KeyOf(sess[s].entry, sess[s].content) IN
    /\ sess[s].at = "store"
    /\ \/ stored' = stored \cup {key} /\ Goto(s, "record") /\ UNCHANGED <<lock, used>>
       \/ /\ stored' \in {stored, stored \cup {key}} /\ Finish(s)
          /\ used' = [used EXCEPT ![sess[s].user] = @ + Size[sess[s].content]]
    /\ stores' = [stores EXCEPT ![key] = IF @ = 2 THEN 2 ELSE @ + 1]
    /\ UNCHANGED <<file, born, condemned, disowned, miscounted>>

\* provider.upload; when it raises, the object may be there all the same.
Store(s) ==
    LET key == KeyOf(sess[s].entry, sess[s].content) IN
    /\ sess[s].at = "store"
    /\ \/ stored' = stored \cup {key} /\ Goto(s, "record") /\ UNCHANGED lock
       \/ stored' \in {stored, stored \cup {key}} /\ Finish(s)
    /\ stores' = [stores EXCEPT ![key] = IF @ = 2 THEN 2 ELSE @ + 1]
    /\ UNCHANGED <<file, used, born, condemned, disowned, miscounted>>

\* The INSERT, and the commit of row and counter together.  The commit may raise
\* although it took effect: the connection is lost before its answer comes.
Record(s) ==
    LET r == sess[s] IN
    /\ r.at = "record" /\ InsertFree(s) /\ InsertValid(s)
    /\ Insert(s)
    /\ used' = [used EXCEPT ![r.user] = @ + Size[r.content]]
    /\ \E step \in {"refresh", "unpin"} : Goto(s, step)
    /\ lock' = [lock EXCEPT ![r.user] = NULL]
    /\ UNCHANGED <<stored, ghosts>>

\* The INSERT or the commit fails, and with it the transaction, reservation
\* included: a constraint, a deadlock with a deletion, a lost connection.
RecordFails(s) ==
    /\ sess[s].at = "record"
    /\ Goto(s, "unpin")
    /\ lock' = [lock EXCEPT ![sess[s].user] = NULL]
    /\ UNCHANGED <<file, used, stored, ghosts>>

\* The row is read back, if it has not been deleted meanwhile; when that fails,
\* for whatever reason, the upload fails, though its row is committed.
Refresh(s) ==
    /\ sess[s].at = "refresh"
    /\ \/ sess[s].entry \in Rows /\ Finish(s)
       \/ Goto(s, "unpin") /\ UNCHANGED lock
    /\ UNCHANGED <<file, used, stored, ghosts>>

\* Variant of Unpin: it takes the object of the file that has the name.
UnpinByName(s) ==
    /\ sess[s].at = "unpin"
    /\ \E e \in RowsOf(sess[s].user) :
          /\ file[e].parent = sess[s].parent /\ file[e].name = sess[s].name
          /\ stored' = stored \ {KeyOf(e, file[e].content)}
    /\ Finish(s)
    /\ UNCHANGED <<file, used, ghosts>>

\* The failed upload takes its object back; provider.delete answers False when
\* it cannot.  The handler would subtract the reservation once more, but the
\* rollback has expired current_user, and reading its id outside the engine's
\* greenlet raises MissingGreenlet: the request ends before that UPDATE.
Unpin(s) ==
    /\ sess[s].at = "unpin"
    /\ stored' \in {stored, stored \ {KeyOf(sess[s].entry, sess[s].content)}}
    /\ disowned' = disowned \cup ({sess[s].entry} \cap Rows)
    /\ Finish(s)
    /\ UNCHANGED <<file, used, born, condemned, stores, miscounted>>

-----------------------------------------------------------------------------
\* POST /storage/mkdir: count, parent and name are read first.
Mkdir(s, u) ==
    /\ sess[s].at = "idle"
    /\ HasRoom(u)
    /\ \E e \in Entries \ born, path \in Paths, n \in Names : \E p \in Resolved(u, path) :
          /\ ~Taken(u, p, n)
          /\ sess' = [sess EXCEPT ![s] = [Idle EXCEPT !.at = "insertDir", !.user = u, !.entry = e,
                                                     !.parent = p, !.name = n]]
          /\ born' = born \cup {e}
    /\ UNCHANGED <<file, used, lock, stored, condemned, disowned, stores, miscounted>>

InsertDir(s) ==
    /\ sess[s].at = "insertDir" /\ InsertFree(s)
    /\ IF InsertValid(s) THEN Insert(s) ELSE UNCHANGED file
    /\ Finish(s)
    /\ UNCHANGED <<used, stored, ghosts>>

-----------------------------------------------------------------------------
(***************************************************************************)
(* DELETE /storage/files/{file_id}                                         *)
(***************************************************************************)
\* _collect_subtree_files: the files below e.
Below(e) ==
    LET down[n \in 0 .. Cardinality(Rows)] ==
            IF n = 0 THEN {e} ELSE UNION {Children(d) : d \in down[n - 1]}
    IN  {f \in Rows : ~IsDir(f) /\ \E n \in 1 .. Cardinality(Rows) : f \in down[n]}

Doomed(e) == IF IsDir(e) THEN Below(e) ELSE {e}

Freed(s) == SumFunction([v \in sess[s].victims |-> Size[v[2]]])

Delete(s, e) ==
    /\ sess[s].at = "idle" /\ e \in Rows
    /\ sess' = [sess EXCEPT ![s] = [Idle EXCEPT !.at = "discard", !.user = file[e].owner, !.entry = e,
                                               !.victims = {<<f, file[f].content>> : f \in Doomed(e)}]]
    /\ condemned' = condemned \cup Doomed(e)
    /\ UNCHANGED <<file, used, lock, stored, born, disowned, stores, miscounted>>

\* The objects go first, one after the other; failures are logged.
Discard(s) ==
    /\ sess[s].at = "discard"
    /\ \E gone \in SUBSET {KeyOf(v[1], v[2]) : v \in sess[s].victims} : stored' = stored \ gone
    /\ Goto(s, "erase")
    /\ UNCHANGED <<file, used, lock, ghosts>>

\* The flush of the deletion: the session sets parent_id of the children to
\* NULL before it deletes the row, whatever the foreign key would cascade.
EraseWaits(s, t) ==
    LET mine == Children(sess[s].entry) IN
    /\ sess[t].at = "refund"
    /\ \/ (mine \cup {sess[s].entry}) \cap Erased(t) # {}
       \/ \E c \in mine, d \in Children(sess[t].entry) : file[c].name = file[d].name

Clashes(s) == \E c \in Children(sess[s].entry) : Taken(sess[s].user, NULL, file[c].name)

Erase(s) ==
    /\ sess[s].at = "erase"
    /\ \A t \in Sessions : ~EraseWaits(s, t)
    /\ IF Clashes(s) THEN Finish(s) ELSE Goto(s, "refund") /\ UNCHANGED lock
    /\ UNCHANGED <<file, used, stored, ghosts>>

\* A child was deleted while the flush waited for it.
EraseFails(s) ==
    /\ sess[s].at = "erase"
    /\ \E t \in Sessions : EraseWaits(s, t)
    /\ Finish(s)
    /\ UNCHANGED <<file, used, stored, ghosts>>

\* Variant of Refunded: without the limit at 0, and twice.
RefundedTwice(u, bytes) == used[u] - 2 * bytes

Refunded(u, bytes) == IF used[u] >= bytes THEN used[u] - bytes ELSE 0

\* Variant of Orphaned: the rows below stay where they were.
OrphanedNot(e) == [f \in Entries |-> IF f = e THEN NULL ELSE file[f]]

\* The rows after e is deleted.
Orphaned(e) == [f \in Entries |-> IF f = e THEN NULL
                                  ELSE IF file[f] # NULL /\ file[f].parent = e
                                  THEN [file[f] EXCEPT !.parent = NULL] ELSE file[f]]

\* The counter is reduced, if there is anything to reduce, and all is committed.
Refund(s) ==
    LET r == sess[s] IN
    /\ r.at = "refund" /\ (Freed(s) = 0 \/ CanLock(s))
    /\ file' = Orphaned(r.entry)
    /\ used' = [used EXCEPT ![r.user] = IF Freed(s) = 0 THEN @ ELSE Refunded(r.user, Freed(s))]
    /\ miscounted' = IF r.victims # {} /\ (r.entry \notin Rows \/ IsDir(r.entry))
                     THEN miscounted \cup {r.user} ELSE miscounted
    /\ Finish(s)
    /\ UNCHANGED <<stored, born, condemned, disowned, stores>>

-----------------------------------------------------------------------------
\* A request is lost: cancelled, its transaction failed (also as the victim of a
\* deadlock), or its process ends; the database rolls back.
Lose(s) ==
    /\ sess[s].at # "idle"
    /\ Finish(s)
    /\ UNCHANGED <<file, used, stored, ghosts>>

Serve(s) ==
    \/ Reserve(s) \/ ResolveParent(s) \/ Store(s) \/ Record(s) \/ Refresh(s) \/ RecordFails(s)
    \/ Unpin(s)
    \/ InsertDir(s) \/ Discard(s) \/ Erase(s) \/ EraseFails(s) \/ Refund(s)

Next ==
    \E s \in Sessions :
        \/ \E u \in Users : Upload(s, u) \/ Mkdir(s, u)
        \/ \E e \in Entries : Delete(s, e)
        \/ Serve(s) \/ Lose(s)

Spec == Init /\ [][Next]_vars

-----------------------------------------------------------------------------
TypeOK ==
    /\ file \in [Entries -> File \cup {NULL}]
    /\ used \in [Users -> Int]
    /\ lock \in [Users -> Sessions \cup {NULL}]
    /\ sess \in [Sessions -> Session]
    /\ stored \subseteq Keys
    /\ born \subseteq Entries /\ condemned \subseteq Entries /\ disowned \subseteq Entries
    /\ stores \in [Keys -> 0 .. 2]
    /\ miscounted \subseteq Users

\* storage_used is the sum of the sizes of the user's rows, whatever runs
\* concurrently, fails or is lost; until two requests delete one file, or a
\* directory with files is deleted (their bytes are refunded, their rows stay).
UsedIsSum == \A u \in Users \ miscounted : used[u] = Bytes(RowsOf(u))

\* Concurrent uploads never exceed the quota: what is used and what an upload
\* has reserved fit together.
Reserved(u) == IF lock[u] = NULL THEN 0 ELSE Size[sess[lock[u]].content]

QuotaHolds == \A u \in Users : used[u] + Reserved(u) <= Quota

\* The count of files is read long before the row is inserted: it can exceed
\* the limit, by one for each further concurrent request and no more.
CountNearLimit == \A u \in Users : Cardinality(RowsOf(u)) < MaxFiles + Cardinality(Sessions)

\* A row's object is kept until the deletion of the row is requested, unless
\* another upload stored the same key, or the row's own upload failed after its
\* commit and took the object back (FilesHaveObjects): the compensation of
\* another upload, or the deletion of something else, never removes it.
KeptUntilDeleted ==
    \A e \in Rows :
        ~IsDir(e) /\ e \notin condemned \cup disowned /\ stores[KeyOf(e, file[e].content)] = 1
            => KeyOf(e, file[e].content) \in stored

\* upload_file takes an object back when "the writing of the database failed": a
\* row that was written, whose deletion nobody asked for, keeps its object.
FilesHaveObjects ==
    \A e \in Rows : ~IsDir(e) /\ e \notin condemned /\ stores[KeyOf(e, file[e].content)] = 1
                        => KeyOf(e, file[e].content) \in stored

\* The rows form a tree under the root: an upload or a mkdir that races with
\* the deletion of its directory leaves no row behind that no path reaches.
TreeIsWhole ==
    \A e \in Rows : LET p == file[e].parent IN
        p = NULL \/ (p \in Rows /\ IsDir(p) /\ file[p].owner = file[e].owner)

\* delete_file promises to delete what is below a directory and to recover the
\* quota: the counter stays the sum of the files.
CounterIsSum == \A u \in Users : used[u] = Bytes(RowsOf(u))

\* Users' spaces as FileSpace describes them: files come and go, each with its
\* bytes, in one step.
Space == INSTANCE FileSpace WITH
            files <- {[id |-> e, owner |-> file[e].owner,
                       bytes |-> BytesOf(e)] : e \in Rows}

\* Until a request has upset the accounts, the requests in their many steps
\* do what FileSpace does in one.
InOneStep == Space!Next \/ miscounted' # {}

ImplementsFileSpace == Space!Init /\ [][InOneStep]_<<file, used>>

=============================================================================
