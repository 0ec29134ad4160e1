---------------------------- MODULE Services_proofs ----------------------------
(***************************************************************************)
(* The proofs of WorkerBoot and Terminals, and the types of LogStream and  *)
(* GatewayMonitor, alone and beside each other in MCAppServices.           *)
(***************************************************************************)
EXTENDS MCAppServices, FiniteSetTheorems, SequenceTheorems, TLAPS

-----------------------------------------------------------------------------
(***************************************************************************)
(* WorkerBoot: while nothing has happened that the lock does not guard     *)
(* against, the lock of a worker that lives, or of a process that is about *)
(* to start one, is still held, which is why no second one is started.     *)
(* A job that runs is marked while no start clears marks, which is why no  *)
(* second worker takes it.                                                 *)
(***************************************************************************)
\* Of a set with one element at most, no matter whose.
Alone(S) == \A v \in S, w \in S : v = w

RunnersLive == runners \subseteq Boot!Living

\* One worker, or one process that is about to start one, and its lock.
LockedAlone ==
    ~excused =>
        /\ Alone(Boot!Living) /\ Alone(Boot!Starting)
        /\ Boot!Living = {} \/ Boot!Starting = {}
        /\ Boot!Living # {} \/ Boot!Starting # {} => lock # NULL

MarkedAlone == ~cleared => Alone(runners) /\ (runners # {} => marked)

BootInv == Boot!TypeOK /\ RunnersLive /\ LockedAlone /\ MarkedAlone

-----------------------------------------------------------------------------
LEMMA BootTypeStep == Boot!TypeOK /\ [Boot!Next]_Boot!vars => Boot!TypeOK'
  <1> SUFFICES ASSUME Boot!TypeOK, [Boot!Next]_Boot!vars PROVE Boot!TypeOK'
    OBVIOUS
  <1> USE DEF Boot!TypeOK
  <1>1. ASSUME NEW p \in Processes, Boot!Boot(p) PROVE Boot!TypeOK'
    BY <1>1 DEF Boot!Boot, Boot!Acquired
  <1>2. ASSUME NEW p \in Processes, Boot!Start(p) PROVE Boot!TypeOK'
    BY <1>2 DEF Boot!Start, Boot!Fresh
  <1>3. ASSUME NEW p \in Processes, Boot!Shut(p) PROVE Boot!TypeOK'
    <2>1. marked' \in BOOLEAN
      BY <1>3 DEF Boot!Shut, Boot!Unmarked
    <2> QED BY <1>3, <2>1 DEF Boot!Shut, Boot!Gone
  <1>4. ASSUME NEW p \in Processes, Boot!Release(p) PROVE Boot!TypeOK'
    BY <1>4 DEF Boot!Release, Boot!Unguarded
  <1>5. ASSUME NEW p \in Processes, Boot!Kill(p) PROVE Boot!TypeOK'
    BY <1>5 DEF Boot!Kill
  <1>6. ASSUME NEW w \in Workers, Boot!Load(w) PROVE Boot!TypeOK'
    BY <1>6 DEF Boot!Load
  <1>7. ASSUME NEW w \in Workers, Boot!Take(w) PROVE Boot!TypeOK'
    BY <1>7 DEF Boot!Take
  <1>8. ASSUME NEW w \in Workers, Boot!End(w) PROVE Boot!TypeOK'
    BY <1>8 DEF Boot!End
  <1>9. ASSUME NEW w \in Workers, Boot!Die(w) PROVE Boot!TypeOK'
    BY <1>9 DEF Boot!Die, Boot!Gone
  <1>10. CASE Boot!LockExpires
    BY <1>10 DEF Boot!LockExpires, Boot!Unguarded
  <1>11. CASE Boot!Enqueue
    BY <1>11 DEF Boot!Enqueue
  <1>12. CASE Boot!MarkExpires
    BY <1>12 DEF Boot!MarkExpires
  <1>13. CASE UNCHANGED Boot!vars
    BY <1>13 DEF Boot!vars
  <1> QED BY <1>1, <1>2, <1>3, <1>4, <1>5, <1>6, <1>7, <1>8, <1>9, <1>10, <1>11, <1>12, <1>13
          DEF Boot!Next

LEMMA RunnersStep == Boot!TypeOK /\ RunnersLive /\ [Boot!Next]_Boot!vars => RunnersLive'
  <1> SUFFICES ASSUME Boot!TypeOK, RunnersLive, [Boot!Next]_Boot!vars PROVE RunnersLive'
    OBVIOUS
  <1> USE DEF Boot!TypeOK, RunnersLive, Boot!Living
  <1>1. ASSUME NEW p \in Processes, Boot!Start(p) PROVE RunnersLive'
    BY <1>1 DEF Boot!Start, Boot!Fresh
  <1>2. ASSUME NEW p \in Processes, Boot!Shut(p) PROVE RunnersLive'
    BY <1>2 DEF Boot!Shut, Boot!Gone
  <1>3. ASSUME NEW w \in Workers, Boot!Die(w) PROVE RunnersLive'
    BY <1>3 DEF Boot!Die, Boot!Gone
  <1>4. ASSUME NEW w \in Workers, Boot!Load(w) PROVE RunnersLive'
    BY <1>4 DEF Boot!Load
  <1>5. ASSUME NEW w \in Workers, Boot!Take(w) \/ Boot!End(w) PROVE RunnersLive'
    BY <1>5 DEF Boot!Take, Boot!End
  <1>6. CASE UNCHANGED <<worker, runners>>
    BY <1>6
  <1>7. \/ \E p \in Processes : Boot!Boot(p) \/ Boot!Release(p) \/ Boot!Kill(p)
        \/ Boot!LockExpires \/ Boot!Enqueue \/ Boot!MarkExpires \/ UNCHANGED Boot!vars
        => UNCHANGED <<worker, runners>>
    BY DEF Boot!Boot, Boot!Release, Boot!Kill, Boot!LockExpires, Boot!Enqueue, Boot!MarkExpires,
           Boot!vars
  <1> QED BY <1>1, <1>2, <1>3, <1>4, <1>5, <1>6, <1>7 DEF Boot!Next

-----------------------------------------------------------------------------
\* No worker comes to life, no process is about to start one that was not, and
\* the lock stays unless that is excused.
LEMMA Fewer ==
  ASSUME LockedAlone, excused \in BOOLEAN, excused' \in BOOLEAN,
         excused => excused',
         Boot!Living' \subseteq Boot!Living, Boot!Starting' \subseteq Boot!Starting,
         ~excused' /\ (Boot!Living' # {} \/ Boot!Starting' # {}) => lock' = lock
  PROVE  LockedAlone'
  <1> SUFFICES ASSUME ~excused'
               PROVE  /\ Alone(Boot!Living)' /\ Alone(Boot!Starting)'
                      /\ Boot!Living' = {} \/ Boot!Starting' = {}
                      /\ Boot!Living' # {} \/ Boot!Starting' # {} => lock' # NULL
    BY DEF LockedAlone
  <1>1. /\ Alone(Boot!Living) /\ Alone(Boot!Starting)
        /\ Boot!Living = {} \/ Boot!Starting = {}
        /\ Boot!Living # {} \/ Boot!Starting # {} => lock # NULL
    BY DEF LockedAlone
  <1>2. Alone(Boot!Living)' /\ Alone(Boot!Starting)'
    BY <1>1 DEF Alone
  <1> QED BY <1>1, <1>2

LEMMA LockedStep ==
  ASSUME NULL \notin Processes, Boot!TypeOK, Boot!TypeOK', LockedAlone, [Boot!Next]_Boot!vars
  PROVE  LockedAlone'
  <1>0. excused \in BOOLEAN /\ excused' \in BOOLEAN
    BY DEF Boot!TypeOK
  <1>1. ASSUME NEW p \in Processes, Boot!Boot(p) PROVE LockedAlone'
    <2>0. Boot!Living' = Boot!Living
      BY <1>1 DEF Boot!Boot, Boot!Living
    <2>1. CASE excused'
      BY <2>1 DEF LockedAlone
    <2>2. CASE ~excused' /\ UNCHANGED <<lock, excused>> /\ phase' = [phase EXCEPT ![p] = "serving"]
      <3>1. Boot!Starting' \subseteq Boot!Starting
        BY <2>2 DEF Boot!Starting, Boot!TypeOK
      <3> QED BY <1>0, <2>0, <2>2, <3>1, Fewer
    <2>3. CASE ~excused' /\ Boot!Acquired(p) /\ phase' = [phase EXCEPT ![p] = "starting"] /\ ~excused
      <3>1. Boot!Living = {} /\ Boot!Starting = {}
        BY <2>3 DEF LockedAlone, Boot!Acquired
      <3>2. Boot!Starting' \subseteq {p}
        BY <2>3, <3>1 DEF Boot!Starting, Boot!TypeOK
      <3>3. lock' # NULL
        BY <2>3 DEF Boot!Acquired
      <3> QED BY <2>0, <3>1, <3>2, <3>3 DEF LockedAlone, Alone
    <2> QED BY <1>0, <1>1, <2>1, <2>2, <2>3 DEF Boot!Boot
  <1>2. ASSUME NEW p \in Processes, Boot!Start(p) PROVE LockedAlone'
    <2>1. Boot!Starting' = Boot!Starting \ {p} /\ p \in Boot!Starting
      BY <1>2 DEF Boot!Start, Boot!Starting, Boot!TypeOK
    <2>2. UNCHANGED <<lock, excused>>
      BY <1>2 DEF Boot!Start
    <2>3. CASE UNCHANGED worker
      <3>1. Boot!Living' = Boot!Living
        BY <2>3 DEF Boot!Living
      <3> QED BY <1>0, <2>1, <2>2, <3>1, Fewer
    <2>4. ASSUME NEW w \in Boot!Fresh, worker' = [worker EXCEPT ![w] = "loading"]
          PROVE  LockedAlone'
      <3> SUFFICES ASSUME ~excused PROVE LockedAlone'
        BY <2>2 DEF LockedAlone
      <3>1. Boot!Living = {} /\ Boot!Starting' = {} /\ lock # NULL
        BY <2>1 DEF LockedAlone, Alone
      <3>2. Boot!Living' \subseteq {w}
        BY <2>4, <3>1 DEF Boot!Living, Boot!TypeOK
      <3> QED BY <2>2, <3>1, <3>2 DEF LockedAlone, Alone
    <2> QED BY <1>2, <2>3, <2>4 DEF Boot!Start
  <1>3. ASSUME NEW p \in Processes, Boot!Shut(p) PROVE LockedAlone'
    <2>1. Boot!Living' \subseteq Boot!Living
      BY <1>3 DEF Boot!Shut, Boot!Gone, Boot!Living, Boot!TypeOK
    <2>2. Boot!Starting' \subseteq Boot!Starting
      BY <1>3 DEF Boot!Shut, Boot!Starting, Boot!TypeOK
    <2>3. UNCHANGED <<lock, excused>>
      BY <1>3 DEF Boot!Shut
    <2> QED BY <1>0, <2>1, <2>2, <2>3, Fewer
  <1>4. ASSUME NEW p \in Processes, Boot!Release(p) PROVE LockedAlone'
    <2>1. Boot!Living' = Boot!Living
      BY <1>4 DEF Boot!Release, Boot!Living
    <2>2. Boot!Starting' \subseteq Boot!Starting
      BY <1>4 DEF Boot!Release, Boot!Starting, Boot!TypeOK
    <2>3. (lock' = NULL /\ Boot!Unguarded) \/ UNCHANGED <<lock, excused>>
      BY <1>4 DEF Boot!Release
    <2>4. excused => excused'
      BY <2>3 DEF Boot!Unguarded
    <2>5. ~excused' /\ (Boot!Living' # {} \/ Boot!Starting' # {}) => lock' = lock
      BY <2>1, <2>2, <2>3 DEF Boot!Unguarded
    <2> QED BY <1>0, <2>1, <2>2, <2>4, <2>5, Fewer
  <1>5. ASSUME NEW p \in Processes, Boot!Kill(p) PROVE LockedAlone'
    <2>1. Boot!Living' = Boot!Living /\ UNCHANGED <<lock, excused>>
      BY <1>5 DEF Boot!Kill, Boot!Living
    <2>2. Boot!Starting' \subseteq Boot!Starting
      BY <1>5 DEF Boot!Kill, Boot!Starting, Boot!TypeOK
    <2> QED BY <1>0, <2>1, <2>2, Fewer
  <1>6. ASSUME NEW w \in Workers, Boot!Die(w) PROVE LockedAlone'
    <2>1. Boot!Living' \subseteq Boot!Living /\ UNCHANGED <<lock, excused>>
      BY <1>6 DEF Boot!Die, Boot!Gone, Boot!Living, Boot!TypeOK
    <2>2. Boot!Starting' = Boot!Starting
      BY <1>6 DEF Boot!Die, Boot!Starting
    <2> QED BY <1>0, <2>1, <2>2, Fewer
  <1>7. ASSUME NEW w \in Workers, Boot!Load(w) PROVE LockedAlone'
    <2>1. Boot!Living' \subseteq Boot!Living /\ UNCHANGED <<lock, excused>>
      BY <1>7 DEF Boot!Load, Boot!Living, Boot!TypeOK
    <2>2. Boot!Starting' = Boot!Starting
      BY <1>7 DEF Boot!Load, Boot!Starting
    <2> QED BY <1>0, <2>1, <2>2, Fewer
  <1>8. CASE Boot!LockExpires
    <2>1. Boot!Living' = Boot!Living /\ Boot!Starting' = Boot!Starting
      BY <1>8 DEF Boot!LockExpires, Boot!Living, Boot!Starting
    <2>2. excused' = (excused \/ Boot!Living # {} \/ Boot!Starting # {})
      BY <1>8 DEF Boot!LockExpires, Boot!Unguarded
    <2> QED BY <1>0, <2>1, <2>2, Fewer
  <1>9. CASE UNCHANGED <<phase, worker, lock, excused>>
    <2>1. Boot!Living' = Boot!Living /\ Boot!Starting' = Boot!Starting
      BY <1>9 DEF Boot!Living, Boot!Starting
    <2> QED BY <1>0, <1>9, <2>1, Fewer
  <1>10. \/ \E w \in Workers : Boot!Take(w) \/ Boot!End(w)
         \/ Boot!Enqueue \/ Boot!MarkExpires \/ UNCHANGED Boot!vars
         => UNCHANGED <<phase, worker, lock, excused>>
    BY DEF Boot!Take, Boot!End, Boot!Enqueue, Boot!MarkExpires, Boot!vars
  <1> QED BY <1>1, <1>2, <1>3, <1>4, <1>5, <1>6, <1>7, <1>8, <1>9, <1>10 DEF Boot!Next

-----------------------------------------------------------------------------
\* The mark stays while the job has a runner, and no other worker becomes one.
LEMMA FewerRun ==
  ASSUME MarkedAlone, cleared' \in BOOLEAN, cleared \in BOOLEAN, cleared => cleared',
         runners' \subseteq runners, ~cleared' /\ runners' # {} => marked' = marked
  PROVE  MarkedAlone'
  <1>1. ~cleared' => Alone(runners) /\ (runners # {} => marked)
    BY DEF MarkedAlone
  <1>2. ~cleared' => Alone(runners)'
    BY <1>1 DEF Alone
  <1> QED BY <1>1, <1>2 DEF MarkedAlone

LEMMA MarkedStep ==
  ASSUME Boot!TypeOK, Boot!TypeOK', MarkedAlone, [Boot!Next]_Boot!vars
  PROVE  MarkedAlone'
  <1>0. cleared \in BOOLEAN /\ cleared' \in BOOLEAN /\ marked \in BOOLEAN
    BY DEF Boot!TypeOK
  <1>1. ASSUME NEW p \in Processes, Boot!Shut(p) PROVE MarkedAlone'
    <2>1. runners' = runners \ {child[p]} /\ UNCHANGED cleared
      BY <1>1 DEF Boot!Shut, Boot!Gone
    <2>2. marked' \in Boot!Unmarked(child[p])
      BY <1>1 DEF Boot!Shut
    <2>3. ~cleared /\ runners' # {} => marked' = marked
      BY <2>1, <2>2 DEF Boot!Unmarked, MarkedAlone, Alone
    <2> QED BY <1>0, <2>1, <2>3, FewerRun
  <1>2. ASSUME NEW w \in Workers, Boot!Die(w) PROVE MarkedAlone'
    <2>1. runners' \subseteq runners /\ UNCHANGED <<marked, cleared>>
      BY <1>2 DEF Boot!Die, Boot!Gone
    <2> QED BY <1>0, <2>1, FewerRun
  <1>3. ASSUME NEW w \in Workers, Boot!Load(w) PROVE MarkedAlone'
    <2>1. runners' = runners
      BY <1>3 DEF Boot!Load
    <2>2. \/ UNCHANGED <<marked, cleared>>
          \/ ~marked' /\ cleared' = (cleared \/ (marked /\ runners # {}))
      BY <1>3 DEF Boot!Load
    <2>3. cleared => cleared'
      BY <1>0, <2>2
    <2>4. ~cleared' /\ runners' # {} => marked' = marked
      BY <1>0, <2>1, <2>2 DEF MarkedAlone
    <2> QED BY <1>0, <2>1, <2>3, <2>4, FewerRun
  <1>4. ASSUME NEW w \in Workers, Boot!Take(w) PROVE MarkedAlone'
    <2>1. ~marked /\ marked' /\ runners' = runners \cup {w} /\ UNCHANGED cleared
      BY <1>4 DEF Boot!Take
    <2>2. ~cleared => runners = {}
      BY <2>1 DEF MarkedAlone
    <2> QED BY <2>1, <2>2 DEF MarkedAlone, Alone
  <1>5. ASSUME NEW w \in Workers, Boot!End(w) PROVE MarkedAlone'
    <2>1. w \in runners /\ runners' = runners \ {w} /\ UNCHANGED cleared
      BY <1>5 DEF Boot!End
    <2>2. ~cleared => runners' = {}
      BY <2>1 DEF MarkedAlone, Alone
    <2> QED BY <2>1, <2>2 DEF MarkedAlone, Alone
  <1>6. CASE Boot!MarkExpires
    <2>1. runners = {} /\ UNCHANGED <<runners, cleared>>
      BY <1>6 DEF Boot!MarkExpires
    <2> QED BY <2>1 DEF MarkedAlone, Alone
  <1>7. CASE UNCHANGED <<marked, runners, cleared>>
    BY <1>7 DEF MarkedAlone, Alone
  <1>8. \/ \E p \in Processes :
              Boot!Boot(p) \/ Boot!Start(p) \/ Boot!Release(p) \/ Boot!Kill(p)
        \/ Boot!LockExpires \/ Boot!Enqueue \/ UNCHANGED Boot!vars
        => UNCHANGED <<marked, runners, cleared>>
    BY DEF Boot!Boot, Boot!Start, Boot!Release, Boot!Kill, Boot!LockExpires, Boot!Enqueue,
           Boot!vars
  <1> QED BY <1>1, <1>2, <1>3, <1>4, <1>5, <1>6, <1>7, <1>8 DEF Boot!Next

-----------------------------------------------------------------------------
LEMMA BootInvInit == Boot!Init => BootInv
  BY DEF Boot!Init, BootInv, Boot!TypeOK, RunnersLive, LockedAlone, MarkedAlone, Alone,
         Boot!Living, Boot!Starting

LEMMA BootInvStep == BootInv /\ [Boot!Next]_Boot!vars => BootInv'
  BY ServicesAssumption, BootTypeStep, RunnersStep, LockedStep, MarkedStep DEF BootInv

LEMMA OneOfEach == BootInv => OneWorker /\ OneRunner
  BY DEF BootInv, LockedAlone, MarkedAlone, Alone,
         OneWorker, OneRunner, Boot!OneWorker, Boot!OneRunner

-----------------------------------------------------------------------------
(***************************************************************************)
(* Sequences of calls.  A reader's own call is never the one that a        *)
(* handler waits for; the others, the calls that are due, occur once.      *)
(***************************************************************************)
Calls == {"find", "open", "read", "write", "disconnect", "close"}

Due(q) == {q[i] : i \in {k \in 1..Len(q) : q[k][2] # "read"}}

Apart(q) == \A i \in 1..Len(q) : \A j \in 1..Len(q) : q[i] = q[j] /\ q[i][2] # "read" => i = j

\* The calls D that are due, and the call e, unless it is a reader's.
Plus(D, e) == D \cup (IF e[2] = "read" THEN {} ELSE {e})

Grown(S, q, e, r) == r \in Seq(S) /\ Due(r) = Plus(Due(q), e) /\ Apart(r)

LEMMA CallAppended ==
  ASSUME NEW S, NEW q \in Seq(S), NEW e \in S, Apart(q), e \notin Due(q)
  PROVE  Grown(S, q, e, Append(q, e))
  <1> DEFINE r == Append(q, e)
  <1>2. /\ r \in Seq(S) /\ Len(r) = Len(q) + 1 /\ Len(q) \in Nat
        /\ r[Len(q) + 1] = e /\ \A i \in 1..Len(q) : r[i] = q[i]
    OBVIOUS
  <1> HIDE DEF r
  <1>3. ASSUME NEW x PROVE x \in Due(r) <=> x \in Due(q) \/ (e[2] # "read" /\ x = e)
    <2>1. ASSUME x \in Due(r) PROVE x \in Due(q) \/ (e[2] # "read" /\ x = e)
      <3>1. PICK i \in 1..Len(r) : r[i][2] # "read" /\ x = r[i]
        BY <2>1 DEF Due
      <3>2. CASE i \in 1..Len(q)
        BY <1>2, <3>1, <3>2 DEF Due
      <3>3. CASE i = Len(q) + 1
        BY <1>2, <3>1, <3>3
      <3> QED BY <1>2, <3>2, <3>3
    <2>2. ASSUME x \in Due(q) PROVE x \in Due(r)
      <3>1. PICK i \in 1..Len(q) : q[i][2] # "read" /\ x = q[i]
        BY <2>2 DEF Due
      <3>2. i \in 1..Len(r) /\ r[i] = x
        BY <1>2, <3>1
      <3> QED BY <3>1, <3>2 DEF Due
    <2>3. ASSUME e[2] # "read" PROVE e \in Due(r)
      <3>1. Len(q) + 1 \in 1..Len(r) /\ r[Len(q) + 1][2] # "read"
        BY <1>2, <2>3
      <3> QED BY <1>2, <3>1 DEF Due
    <2> QED BY <2>1, <2>2, <2>3
  <1>4. Due(r) = Plus(Due(q), e)
    BY <1>3 DEF Plus
  <1>5. Apart(r)
    <2> SUFFICES ASSUME NEW i \in 1..Len(r), NEW j \in 1..Len(r), r[i] = r[j], r[i][2] # "read"
                 PROVE  i = j
      BY DEF Apart
    <2>1. CASE i \in 1..Len(q) /\ j \in 1..Len(q)
      BY <1>2, <2>1 DEF Apart
    <2>2. CASE i = Len(q) + 1 /\ j \in 1..Len(q)
      BY <1>2, <2>2 DEF Due
    <2>3. CASE j = Len(q) + 1 /\ i \in 1..Len(q)
      BY <1>2, <2>3 DEF Due
    <2> QED BY <1>2, <2>1, <2>2, <2>3
  <1> QED BY <1>2, <1>4, <1>5 DEF r, Grown

LEMMA CallRemoved ==
  ASSUME NEW S, NEW q \in Seq(S \X Calls), NEW k \in 1..Len(q), Apart(q)
  PROVE  /\ Term!RemoveAt(q, k) \in Seq(S \X Calls)
         /\ Due(Term!RemoveAt(q, k)) = Due(q) \ {q[k]}
         /\ Apart(Term!RemoveAt(q, k))
  <1> DEFINE before == SubSeq(q, 1, k - 1)
             after == SubSeq(q, k + 1, Len(q))
             r == Term!RemoveAt(q, k)
             From(i) == IF i < k THEN i ELSE i + 1
  <1>1. /\ before \in Seq(S \X Calls) /\ Len(before) = k - 1
        /\ \A i \in 1..(k - 1) : before[i] = q[i]
    OBVIOUS
  <1>2. /\ after \in Seq(S \X Calls) /\ Len(after) = Len(q) - k
        /\ \A i \in 1..(Len(q) - k) : after[i] = q[k + i]
    OBVIOUS
  <1>0. r = before \o after
    BY DEF Term!RemoveAt
  <1> HIDE DEF before, after, r
  <1>a. /\ r \in Seq(S \X Calls) /\ Len(r) = Len(before) + Len(after)
        /\ \A i \in 1 .. Len(before) + Len(after) :
              r[i] = IF i <= Len(before) THEN before[i] ELSE after[i - Len(before)]
    BY <1>0, <1>1, <1>2, ConcatProperties
  <1>3. /\ r \in Seq(S \X Calls) /\ Len(r) = Len(q) - 1 /\ Len(q) \in Nat
        /\ \A i \in 1..Len(r) : r[i] = q[From(i)]
    <2>1. Len(r) = Len(q) - 1 /\ Len(q) \in Nat
      BY <1>a, <1>1, <1>2
    <2>2. ASSUME NEW i \in 1..Len(r), i < k PROVE r[i] = q[i]
      BY <1>a, <1>1, <1>2, <2>1, <2>2
    <2>3. ASSUME NEW i \in 1..Len(r), ~(i < k) PROVE r[i] = q[i + 1]
      <3>1. i - (k - 1) \in 1..(Len(q) - k) /\ k + (i - (k - 1)) = i + 1
        BY <2>1, <2>3
      <3>2. r[i] = after[i - (k - 1)]
        BY <1>a, <1>1, <1>2, <2>1, <2>3, <3>1
      <3> QED BY <1>2, <3>1, <3>2
    <2> QED BY <1>a, <2>1, <2>2, <2>3
  <1>4. \A i \in 1..Len(r) : From(i) \in 1..Len(q) /\ From(i) # k
    BY <1>3
  <1>5. \A i \in 1..Len(q) : i # k => \E j \in 1..Len(r) : From(j) = i
    <2> SUFFICES ASSUME NEW i \in 1..Len(q), i # k PROVE \E j \in 1..Len(r) : From(j) = i
      OBVIOUS
    <2>1. CASE i < k
      <3>1. i \in 1..Len(r) /\ From(i) = i
        BY <1>3, <2>1
      <3> QED BY <3>1
    <2>2. CASE i > k
      <3>1. i - 1 \in 1..Len(r) /\ From(i - 1) = i
        BY <1>3, <2>2
      <3> QED BY <3>1
    <2> QED BY <2>1, <2>2
  <1>6. \A i \in 1..Len(r) : \A j \in 1..Len(r) : From(i) = From(j) => i = j
    BY <1>3
  <1> HIDE DEF From
  <1>7. Due(r) = Due(q) \ {q[k]}
    <2>1. ASSUME NEW x \in Due(r) PROVE x \in Due(q) \ {q[k]}
      <3>1. PICK i \in 1..Len(r) : r[i][2] # "read" /\ x = r[i]
        BY DEF Due
      <3>2. From(i) \in 1..Len(q) /\ From(i) # k /\ x = q[From(i)] /\ x[2] # "read"
        BY <1>3, <1>4, <3>1
      <3>3. x # q[k]
        BY <3>2 DEF Apart
      <3> QED BY <3>2, <3>3 DEF Due
    <2>2. ASSUME NEW x \in Due(q) \ {q[k]} PROVE x \in Due(r)
      <3>1. PICK i \in 1..Len(q) : q[i][2] # "read" /\ x = q[i]
        BY DEF Due
      <3>2. PICK j \in 1..Len(r) : From(j) = i
        BY <1>5, <3>1
      <3>3. r[j] = x
        BY <1>3, <3>1, <3>2
      <3> QED BY <3>1, <3>3 DEF Due
    <2> QED BY <2>1, <2>2
  <1>8. Apart(r)
    <2> SUFFICES ASSUME NEW i \in 1..Len(r), NEW j \in 1..Len(r), r[i] = r[j], r[i][2] # "read"
                 PROVE  i = j
      BY DEF Apart
    <2>1. From(i) \in 1..Len(q) /\ From(j) \in 1..Len(q)
      BY <1>4
    <2>2. q[From(i)] = q[From(j)] /\ q[From(i)][2] # "read"
      BY <1>3
    <2>3. From(i) = From(j)
      BY <2>1, <2>2 DEF Apart
    <2> QED BY <1>6, <2>3
  <1> QED BY <1>3, <1>7, <1>8 DEF r

Exchanged(S, q, s, c, d, r) ==
    r \in Seq(S \X Calls) /\ Due(r) = (Due(q) \ {<<s, c>>}) \cup {<<s, d>>} /\ Apart(r)

LEMMA CallReplaced ==
  ASSUME NEW S, NEW q \in Seq(S \X Calls), NEW s \in S, NEW c \in Calls \ {"read"}, NEW d \in Calls \ {"read"},
         c # d, Apart(q), <<s, d>> \notin Due(q), <<s, c>> \in Due(q),
         NEW r \in Seq(S \X Calls), Len(r) = Len(q),
         \A i \in 1..Len(q) : r[i] = IF q[i] = <<s, c>> THEN <<s, d>> ELSE q[i]
  PROVE  Exchanged(S, q, s, c, d, r)
  <1> DEFINE e == <<s, c>>
             f == <<s, d>>
  <1>1. e # f /\ e[2] = c /\ f[2] = d /\ f \in S \X Calls
    OBVIOUS
  <1> HIDE DEF e, f
  <1>2. /\ r \in Seq(S \X Calls) /\ Len(r) = Len(q)
        /\ \A i \in 1..Len(q) : r[i] = IF q[i] = e THEN f ELSE q[i]
    BY <1>1 DEF e, f
  <1>3. Due(r) = (Due(q) \ {e}) \cup {f}
    <2>0. PICK k \in 1..Len(q) : q[k] = e
      BY DEF Due, e
    <2>a. \A i \in 1..Len(q) : q[i] # e => r[i] = q[i]
      BY <1>2
    <2>1. ASSUME NEW x \in Due(r) PROVE x \in (Due(q) \ {e}) \cup {f}
      <3>1. PICK i \in 1..Len(q) : r[i][2] # "read" /\ x = r[i]
        BY <1>2 DEF Due
      <3>2. q[i] # e => q[i][2] # "read" /\ x = q[i]
        BY <1>2, <3>1
      <3> QED BY <1>2, <3>1, <3>2 DEF Due
    <2>2. ASSUME NEW x \in Due(q) \ {e} PROVE x \in Due(r)
      <3>1. PICK i \in 1..Len(q) : q[i][2] # "read" /\ x = q[i]
        BY DEF Due
      <3>2. r[i] = x
        BY <1>2, <2>2, <3>1
      <3> QED BY <1>2, <3>1, <3>2 DEF Due
    <2>3. f \in Due(r)
      <3>1. r[k] = f /\ f[2] # "read"
        BY <1>1, <1>2, <2>0
      <3> QED BY <1>2, <3>1 DEF Due
    <2> QED BY <2>1, <2>2, <2>3
  <1>4. \A i \in 1..Len(q) : q[i] # f
    BY <1>1 DEF Due, f
  <1>5. Apart(r)
    <2> SUFFICES ASSUME NEW i \in 1..Len(r), NEW j \in 1..Len(r), r[i] = r[j], r[i][2] # "read"
                 PROVE  i = j
      BY DEF Apart
    <2>1. CASE q[i] = e
      <3>1. q[j] = e
        BY <1>2, <1>4, <2>1
      <3>2. q[i][2] # "read" /\ q[i] = q[j]
        BY <1>1, <2>1, <3>1
      <3> QED BY <1>2, <3>2 DEF Apart
    <2>2. CASE q[i] # e
      <3>1. q[j] # e /\ q[i] = q[j] /\ q[i][2] # "read"
        BY <1>2, <1>4, <2>2
      <3> QED BY <1>2, <3>1 DEF Apart
    <2> QED BY <2>1, <2>2
  <1> QED BY <1>2, <1>3, <1>5 DEF e, f, Exchanged

-----------------------------------------------------------------------------
(***************************************************************************)
(* Terminals.  A session has one call that is due at most, and that says   *)
(* how far its handler has come.                                           *)
(***************************************************************************)
Owed == Due(pool)
Owes(s, c) == <<s, c>> \in Owed

Listed == active \cup exec_streams \cup last_resize

OneCall == \A s \in Term!All : \A c, d \in Calls : Owes(s, c) /\ Owes(s, d) => c = d

\* What the due call and the handler of s say of its dictionaries and stream.
Handled(s) ==
    /\ handler[s] = "new" => s \notin Listed /\ shell[s] = "none"
    /\ handler[s] \in {"new", "talking"} => \A c \in Calls : ~Owes(s, c)
    /\ handler[s] = "ended" => \A c \in Calls : Owes(s, c) => c = "open" /\ s \in Consoles
    /\ Owes(s, "find") \/ Owes(s, "open") => shell[s] = "none" /\ s \notin exec_streams \cup last_resize
    /\ Owes(s, "disconnect") => s \notin Consoles
    /\ Owes(s, "close") => s \notin Listed

\* Nobody forgets a stream that is not closed, nor lists a console.
Kept(s) ==
    /\ s \in Consoles => s \notin Listed
    /\ s \notin Consoles /\ shell[s] \in {"running", "over"} => s \in exec_streams \/ Owes(s, "close")
    /\ handler[s] = "ended" => s \notin Listed /\ (s \in abandoned \/ shell[s] \in {"none", "closed"})

TermInv ==
    /\ Term!TypeOK
    /\ Apart(pool)
    /\ OneCall
    /\ \A s \in Term!All : Handled(s) /\ Kept(s)

-----------------------------------------------------------------------------
LEMMA RunsADue ==
  ASSUME Term!TypeOK, NEW s \in Term!All, NEW c \in Calls, Term!Runs(s, c)
  PROVE  /\ \E i \in 1..Len(pool) : pool[i] = <<s, c>>
         /\ c # "read" => Owes(s, c)
  <1>1. PICK i \in 1..PoolSize : i <= Len(pool) /\ pool[i] = <<s, c>>
    BY DEF Term!Runs
  <1>2. i \in 1..Len(pool)
    BY <1>1 DEF Term!TypeOK
  <1> QED BY <1>1, <1>2 DEF Owes, Owed, Due

\* A call of the pool goes.
LEMMA WithoutIt ==
  ASSUME Term!TypeOK, Apart(pool), NEW s \in Term!All, NEW c \in Calls,
         \E i \in 1..Len(pool) : pool[i] = <<s, c>>
  PROVE  /\ Term!Without(s, c) \in Seq(Term!All \X Calls)
         /\ Due(Term!Without(s, c)) = Owed \ {<<s, c>>}
         /\ Apart(Term!Without(s, c))
  <1> DEFINE k == CHOOSE i \in 1..Len(pool) : pool[i] = <<s, c>>
  <1>1. k \in 1..Len(pool) /\ pool[k] = <<s, c>>
    OBVIOUS
  <1>2. Term!Without(s, c) = Term!RemoveAt(pool, k)
    BY DEF Term!Without
  <1>3. pool \in Seq(Term!All \X Calls)
    BY DEF Term!TypeOK, Calls
  <1> HIDE DEF k
  <1>4. /\ Term!RemoveAt(pool, k) \in Seq(Term!All \X Calls)
        /\ Due(Term!RemoveAt(pool, k)) = Due(pool) \ {pool[k]}
        /\ Apart(Term!RemoveAt(pool, k))
    BY <1>1, <1>3, CallRemoved
  <1> QED BY <1>1, <1>2, <1>4 DEF Owed

LEMMA Ends ==
  ASSUME Term!TypeOK, Apart(pool), NEW s \in Term!All, NEW c \in Calls,
         \E i \in 1..Len(pool) : pool[i] = <<s, c>>, Term!Returns(s, c, <<>>)
  PROVE  pool' \in Seq(Term!All \X Calls) /\ Apart(pool') /\ Owed' = Owed \ {<<s, c>>}
  <1>1. [i \in 1..Len(<<>>) |-> <<s, <<>>[i]>>] = <<>>
    OBVIOUS
  <1>2. pool' = Term!Without(s, c) \o <<>>
    BY <1>1 DEF Term!Returns
  <1>3. pool' = Term!Without(s, c)
    BY <1>2, WithoutIt, ConcatEmptySeq
  <1>4. Owed' = Due(pool')
    BY DEF Owed
  <1> QED BY <1>3, <1>4, WithoutIt

\* Another call of the session takes the place of a call.
LEMMA GoesOn ==
  ASSUME Term!TypeOK, Apart(pool), NEW s \in Term!All, NEW c \in Calls, NEW d \in Calls, ~Owes(s, d),
         \E i \in 1..Len(pool) : pool[i] = <<s, c>>, Term!Returns(s, c, <<d>>)
  PROVE  /\ pool' \in Seq(Term!All \X Calls) /\ Apart(pool')
         /\ Owed' = (Owed \ {<<s, c>>}) \cup (IF d = "read" THEN {} ELSE {<<s, d>>})
  <1> DEFINE w == Term!Without(s, c)
  <1>1. [i \in 1..Len(<<d>>) |-> <<s, <<d>>[i]>>] = << <<s, d>> >>
    OBVIOUS
  <1>2. w \in Seq(Term!All \X Calls) /\ Due(w) = Owed \ {<<s, c>>} /\ Apart(w)
    BY WithoutIt
  <1>3. pool' = w \o << <<s, d>> >>
    BY <1>1 DEF Term!Returns
  <1> HIDE DEF w
  <1>4. pool' = Append(w, <<s, d>>)
    BY <1>2, <1>3, AppendIsConcat
  <1>5. <<s, d>> \notin Due(w)
    BY <1>2 DEF Owes
  <1>6. Owed' = Due(pool')
    BY DEF Owed
  <1>7. /\ pool' \in Seq(Term!All \X Calls)
        /\ Due(pool') = Due(w) \cup (IF d = "read" THEN {} ELSE {<<s, d>>})
        /\ Apart(pool')
    <2> DEFINE e == <<s, d>>
               S == Term!All \X Calls
    <2>1. e \in S /\ e[2] = d
      OBVIOUS
    <2>2. w \in Seq(S) /\ Apart(w) /\ e \notin Due(w) /\ pool' = Append(w, e)
      BY <1>2, <1>4, <1>5
    <2> HIDE DEF e, S
    <2>3. Grown(S, w, e, pool')
      BY <2>1, <2>2, CallAppended
    <2> QED BY <2>1, <2>3 DEF e, S, Plus, Grown
  <1> QED BY <1>2, <1>6, <1>7

LEMMA IsCalled ==
  ASSUME Term!TypeOK, Apart(pool), NEW s \in Term!All, NEW d \in Calls, ~Owes(s, d),
         pool' = Append(pool, <<s, d>>)
  PROVE  /\ pool' \in Seq(Term!All \X Calls) /\ Apart(pool')
         /\ Owed' = Owed \cup (IF d = "read" THEN {} ELSE {<<s, d>>})
  <1>1. pool \in Seq(Term!All \X Calls)
    BY DEF Term!TypeOK, Calls
  <1>2. Owed' = Due(pool')
    BY DEF Owed
  <1>3. /\ pool' \in Seq(Term!All \X Calls)
        /\ Due(pool') = Due(pool) \cup (IF d = "read" THEN {} ELSE {<<s, d>>})
        /\ Apart(pool')
    <2> DEFINE e == <<s, d>>
               S == Term!All \X Calls
    <2>1. e \in S /\ e[2] = d
      OBVIOUS
    <2>2. pool \in Seq(S) /\ Apart(pool) /\ e \notin Due(pool) /\ pool' = Append(pool, e)
      BY <1>1 DEF Owes, Owed
    <2> HIDE DEF e, S
    <2>3. Grown(S, pool, e, pool')
      BY <2>1, <2>2, CallAppended
    <2> QED BY <2>1, <2>3 DEF e, S, Plus, Grown
  <1> QED BY <1>2, <1>3 DEF Owed

\* What is not of s is as it was.
Untouched(s) ==
    \A t \in Term!All \ {s} :
        /\ handler'[t] = handler[t] /\ shell'[t] = shell[t]
        /\ (t \in active') = (t \in active)
        /\ (t \in exec_streams') = (t \in exec_streams)
        /\ (t \in last_resize') = (t \in last_resize)
        /\ t \in abandoned => t \in abandoned'
        /\ \A c \in Calls : (<<t, c>> \in Owed') = (<<t, c>> \in Owed)

Sole(s) == \A c \in Calls : \A d \in Calls : Owes(s, c) /\ Owes(s, d) => c = d

LEMMA TermMoved ==
  ASSUME TermInv, NEW s \in Term!All, Term!TypeOK', Apart(pool'), Untouched(s),
         Sole(s)', Handled(s)', Kept(s)'
  PROVE  TermInv'
  <1>1. Apart(pool)'
    BY DEF Apart
  <1>2. ASSUME NEW t \in Term!All \ {s} PROVE Sole(t)' /\ Handled(t)' /\ Kept(t)'
    <2>1. Sole(t) /\ Handled(t) /\ Kept(t)
      BY DEF TermInv, OneCall, Sole
    <2>2. Sole(t)'
      BY <2>1 DEF Untouched, Sole, Owes
    <2>3. \A c \in Calls : Owes(t, c)' = Owes(t, c)
      BY DEF Untouched, Owes
    <2>4. Handled(t)'
      BY <2>1, <2>3 DEF Untouched, Handled, Listed, Calls
    <2>5. Kept(t)'
      BY <2>1, <2>3 DEF Untouched, Kept, Listed, Calls
    <2> QED BY <2>2, <2>4, <2>5
  <1>3. \A t \in Term!All : Sole(t)' /\ Handled(t)' /\ Kept(t)'
    BY <1>2
  <1>4. OneCall'
    BY <1>3 DEF OneCall, Sole
  <1> QED BY <1>1, <1>3, <1>4 DEF TermInv

\* The pool after s was given the calls of new, and the call gone has returned.
Turned(gone, new) ==
    pool' \in Seq(Term!All \X Calls) /\ Apart(pool') /\ Owed' = (Owed \ gone) \cup new

LEMMA AdmitStep == ASSUME TermInv, NEW s \in Term!All, Term!Admit(s) PROVE TermInv'
  <1>1. Turned({}, {<<s, "find">>})
    <2>1. ~Owes(s, "find") /\ pool' = Append(pool, <<s, "find">>)
      BY DEF TermInv, Handled, Calls, Owes, Owed, Due, Term!Admit, Term!Becomes
    <2> QED BY <2>1, IsCalled DEF TermInv, Turned, Calls
  <1>a. Term!TypeOK'
    BY <1>1 DEF TermInv, Term!TypeOK, Calls, Turned, Term!Admit, Term!Becomes
  <1>b. Untouched(s)
    BY <1>1 DEF TermInv, Term!TypeOK, Untouched, Turned, Term!Admit, Term!Becomes
  <1>c. Sole(s)' /\ Handled(s)' /\ Kept(s)'
    BY <1>1, ServicesAssumption DEF TermInv, Term!TypeOK, OneCall, Sole, Handled, Kept, Listed, Owes, Calls,
       Turned, Term!All, Term!Managed, Term!Admit, Term!Becomes
  <1> QED BY <1>1, <1>a, <1>b, <1>c, TermMoved DEF Turned

LEMMA InputStep == ASSUME TermInv, NEW s \in Term!All, Term!Input(s) PROVE TermInv'
  <1>1. Turned({}, {<<s, "write">>})
    <2>1. ~Owes(s, "write") /\ pool' = Append(pool, <<s, "write">>)
      BY DEF TermInv, Handled, Calls, Owes, Owed, Due, Term!Input, Term!Becomes
    <2> QED BY <2>1, IsCalled DEF TermInv, Turned, Calls
  <1>a. Term!TypeOK'
    BY <1>1 DEF TermInv, Term!TypeOK, Calls, Turned, Term!Input, Term!Becomes
  <1>b. Untouched(s)
    BY <1>1 DEF TermInv, Term!TypeOK, Untouched, Turned, Term!Input, Term!Becomes
  <1>c. Sole(s)' /\ Handled(s)' /\ Kept(s)'
    BY <1>1, ServicesAssumption DEF TermInv, Term!TypeOK, OneCall, Sole, Handled, Kept, Listed, Owes, Calls,
       Turned, Term!All, Term!Managed, Term!Input, Term!Becomes
  <1> QED BY <1>1, <1>a, <1>b, <1>c, TermMoved DEF Turned

LEMMA LeaveStep == ASSUME TermInv, NEW s \in Term!All, Term!Leave(s) PROVE TermInv'
  <1>1. CASE s \in Consoles
    <2>1. Turned({}, {<<s, "close">>})
      <3>1. ~Owes(s, "close") /\ pool' = Append(pool, <<s, "close">>)
        BY <1>1 DEF TermInv, Handled, Calls, Owes, Owed, Due, Term!Leave, Term!Becomes
      <3> QED BY <3>1, IsCalled DEF TermInv, Turned, Calls
    <2>a. Term!TypeOK'
      BY <1>1, <2>1 DEF TermInv, Term!TypeOK, Calls, Turned, Term!Leave, Term!Becomes
    <2>b. Untouched(s)
      BY <1>1, <2>1 DEF TermInv, Term!TypeOK, Untouched, Turned, Term!Leave, Term!Becomes
    <2>c. Sole(s)' /\ Handled(s)' /\ Kept(s)'
      BY <1>1, <2>1, ServicesAssumption DEF TermInv, Term!TypeOK, OneCall, Sole, Handled, Kept, Listed, Owes, Calls,
         Turned, Term!All, Term!Managed, Term!Leave, Term!Becomes
    <2> QED BY <1>1, <2>1, <2>a, <2>b, <2>c, TermMoved DEF Turned
  <1>2. CASE s \notin Consoles
    <2>1. Turned({}, {<<s, "disconnect">>})
      <3>1. ~Owes(s, "disconnect") /\ pool' = Append(pool, <<s, "disconnect">>)
        BY <1>2 DEF TermInv, Handled, Calls, Owes, Owed, Due, Term!Leave, Term!Becomes
      <3> QED BY <3>1, IsCalled DEF TermInv, Turned, Calls
    <2>a. Term!TypeOK'
      BY <1>2, <2>1 DEF TermInv, Term!TypeOK, Calls, Turned, Term!Leave, Term!Becomes
    <2>b. Untouched(s)
      BY <1>2, <2>1 DEF TermInv, Term!TypeOK, Untouched, Turned, Term!Leave, Term!Becomes
    <2>c. Sole(s)' /\ Handled(s)' /\ Kept(s)'
      BY <1>2, <2>1, ServicesAssumption DEF TermInv, Term!TypeOK, OneCall, Sole, Handled, Kept, Listed, Owes, Calls,
         Turned, Term!All, Term!Managed, Term!Leave, Term!Becomes
    <2> QED BY <1>2, <2>1, <2>a, <2>b, <2>c, TermMoved DEF Turned
  <1> QED BY <1>1, <1>2

LEMMA ResizeStep == ASSUME TermInv, NEW s \in Term!All, Term!Resize(s) PROVE TermInv'
  <1>1. Turned({}, {})
    BY DEF TermInv, Turned, Owed, Due, Apart, Term!TypeOK, Calls, Term!Resize
  <1>a. Term!TypeOK'
    BY <1>1 DEF TermInv, Term!TypeOK, Calls, Turned, Term!Resize
  <1>b. Untouched(s)
    BY <1>1 DEF TermInv, Term!TypeOK, Untouched, Turned, Term!Resize
  <1>c. Sole(s)' /\ Handled(s)' /\ Kept(s)'
    BY <1>1, ServicesAssumption DEF TermInv, Term!TypeOK, OneCall, Sole, Handled, Kept, Listed, Owes, Calls,
       Turned, Term!All, Term!Managed, Term!Resize
  <1> QED BY <1>1, <1>a, <1>b, <1>c, TermMoved DEF Turned

LEMMA ClientGoesStep == ASSUME TermInv, NEW s \in Term!All, Term!ClientGoes(s) PROVE TermInv'
  <1>1. Turned({}, {})
    BY DEF TermInv, Turned, Owed, Due, Apart, Term!TypeOK, Calls, Term!ClientGoes
  <1>a. Term!TypeOK'
    BY <1>1 DEF TermInv, Term!TypeOK, Calls, Turned, Term!ClientGoes
  <1>b. Untouched(s)
    BY <1>1 DEF TermInv, Term!TypeOK, Untouched, Turned, Term!ClientGoes
  <1>c. Sole(s)' /\ Handled(s)' /\ Kept(s)'
    BY <1>1, ServicesAssumption DEF TermInv, Term!TypeOK, OneCall, Sole, Handled, Kept, Listed, Owes, Calls,
       Turned, Term!All, Term!Managed, Term!ClientGoes
  <1> QED BY <1>1, <1>a, <1>b, <1>c, TermMoved DEF Turned

LEMMA ShellExitsStep == ASSUME TermInv, NEW s \in Term!All, Term!ShellExits(s) PROVE TermInv'
  <1>1. Turned({}, {})
    BY DEF TermInv, Turned, Owed, Due, Apart, Term!TypeOK, Calls, Term!ShellExits
  <1>a. Term!TypeOK'
    BY <1>1 DEF TermInv, Term!TypeOK, Calls, Turned, Term!ShellExits
  <1>b. Untouched(s)
    BY <1>1 DEF TermInv, Term!TypeOK, Untouched, Turned, Term!ShellExits
  <1>c. Sole(s)' /\ Handled(s)' /\ Kept(s)'
    BY <1>1, ServicesAssumption DEF TermInv, Term!TypeOK, OneCall, Sole, Handled, Kept, Listed, Owes, Calls,
       Turned, Term!All, Term!Managed, Term!ShellExits
  <1> QED BY <1>1, <1>a, <1>b, <1>c, TermMoved DEF Turned

LEMMA FindStep == ASSUME TermInv, NEW s \in Term!All, Term!Find(s) PROVE TermInv'
  <1>0. Owes(s, "find") /\ (\E i \in 1..Len(pool) : pool[i] = <<s, "find">>)
    BY RunsADue DEF TermInv, Calls, Term!Find
  <1>1. CASE Term!Returns(s, "find", <<"open">>)
    <2>1. Turned({<<s, "find">>}, {<<s, "open">>})
      <3>1. Owes(s, "find") /\ (\E i \in 1..Len(pool) : pool[i] = <<s, "find">>)
        BY <1>1, RunsADue DEF TermInv, Calls, Term!Find
      <3>2. ~Owes(s, "open")
        BY <3>1 DEF TermInv, OneCall, Calls, Owes, Owed, Due
      <3>3. Term!Returns(s, "find", <<"open">>)
        BY <1>1 DEF Term!Find
      <3> QED BY <3>1, <3>2, <3>3, GoesOn DEF TermInv, Turned, Calls
    <2>a. Term!TypeOK'
      BY <1>0, <2>1 DEF TermInv, Term!TypeOK, Calls, Turned, Term!Find
    <2>b. Untouched(s)
      BY <1>0, <2>1 DEF TermInv, Term!TypeOK, Untouched, Turned, Term!Find
    <2>c. Sole(s)' /\ Handled(s)' /\ Kept(s)'
      BY <1>0, <2>1, ServicesAssumption DEF TermInv, Term!TypeOK, OneCall, Sole, Handled, Kept, Listed, Owes, Calls,
         Turned, Term!All, Term!Managed, Term!Find
    <2> QED BY <1>0, <2>1, <2>a, <2>b, <2>c, TermMoved DEF Turned
  <1>2. CASE Term!Returns(s, "find", <<"disconnect">>)
    <2>1. Turned({<<s, "find">>}, {<<s, "disconnect">>})
      <3>1. Owes(s, "find") /\ (\E i \in 1..Len(pool) : pool[i] = <<s, "find">>)
        BY <1>2, RunsADue DEF TermInv, Calls, Term!Find
      <3>2. ~Owes(s, "disconnect")
        BY <3>1 DEF TermInv, OneCall, Calls, Owes, Owed, Due
      <3>3. Term!Returns(s, "find", <<"disconnect">>)
        BY <1>2 DEF Term!Find
      <3> QED BY <3>1, <3>2, <3>3, GoesOn DEF TermInv, Turned, Calls
    <2>a. Term!TypeOK'
      BY <1>0, <2>1 DEF TermInv, Term!TypeOK, Calls, Turned, Term!Find
    <2>b. Untouched(s)
      BY <1>0, <2>1 DEF TermInv, Term!TypeOK, Untouched, Turned, Term!Find
    <2>c. Sole(s)' /\ Handled(s)' /\ Kept(s)'
      BY <1>0, <2>1, ServicesAssumption DEF TermInv, Term!TypeOK, OneCall, Sole, Handled, Kept, Listed, Owes, Calls,
         Turned, Term!All, Term!Managed, Term!Find
    <2> QED BY <1>0, <2>1, <2>a, <2>b, <2>c, TermMoved DEF Turned
  <1> QED BY <1>1, <1>2 DEF Term!Find

LEMMA AdmitAdminStep == ASSUME TermInv, NEW s \in Term!All, Term!AdmitAdmin(s) PROVE TermInv'
  <1>1. CASE handler'[s] = "talking"
    <2>1. Turned({}, {})
      <3>1. ~Owes(s, "read") /\ pool' = Append(pool, <<s, "read">>)
        BY <1>1 DEF TermInv, Handled, Calls, Owes, Owed, Due, Term!AdmitAdmin, Term!Becomes, Term!Opened, Term!TypeOK
      <3> QED BY <3>1, IsCalled DEF TermInv, Turned, Calls
    <2>2. /\ handler' = [handler EXCEPT ![s] = "talking"] /\ shell' = [shell EXCEPT ![s] = "running"]
         /\ reader' = [reader EXCEPT ![s] = "on"] /\ exec_streams' = exec_streams \cup {s} /\ active' = active \cup {s}
         /\ UNCHANGED <<socket, last_resize, abandoned>>
      BY <1>1 DEF Term!AdmitAdmin, Term!Becomes, Term!Opened, TermInv, Term!TypeOK
    <2>a. Term!TypeOK'
      BY <2>1, <2>2 DEF TermInv, Term!TypeOK, Calls, Turned
    <2>b. Untouched(s)
      BY <2>1, <2>2 DEF TermInv, Term!TypeOK, Untouched, Turned
    <2>c. Sole(s)' /\ Handled(s)' /\ Kept(s)'
      BY <2>1, <2>2, ServicesAssumption DEF TermInv, Term!TypeOK, OneCall, Sole, Handled, Kept, Listed, Owes, Calls,
         Turned, Term!All, Term!Managed, Term!AdmitAdmin, Term!Becomes, Term!Opened
    <2> QED BY <2>1, <2>2, <2>a, <2>b, <2>c, TermMoved DEF Turned
  <1>2. CASE handler'[s] = "waiting"
    <2>1. Turned({}, {<<s, "disconnect">>})
      <3>1. ~Owes(s, "disconnect") /\ pool' = Append(pool, <<s, "disconnect">>)
        BY <1>2 DEF TermInv, Handled, Calls, Owes, Owed, Due, Term!AdmitAdmin, Term!Becomes, Term!Opened, Term!TypeOK
      <3> QED BY <3>1, IsCalled DEF TermInv, Turned, Calls
    <2>a. Term!TypeOK'
      BY <1>2, <2>1 DEF TermInv, Term!TypeOK, Calls, Turned, Term!AdmitAdmin, Term!Becomes, Term!Opened
    <2>b. Untouched(s)
      BY <1>2, <2>1 DEF TermInv, Term!TypeOK, Untouched, Turned, Term!AdmitAdmin, Term!Becomes, Term!Opened
    <2>c. Sole(s)' /\ Handled(s)' /\ Kept(s)'
      BY <1>2, <2>1, ServicesAssumption DEF TermInv, Term!TypeOK, OneCall, Sole, Handled, Kept, Listed, Owes, Calls,
         Turned, Term!All, Term!Managed, Term!AdmitAdmin, Term!Becomes, Term!Opened
    <2> QED BY <1>2, <2>1, <2>a, <2>b, <2>c, TermMoved DEF Turned
  <1> QED BY <1>1, <1>2 DEF Term!AdmitAdmin, Term!Becomes, TermInv, Term!TypeOK

LEMMA OpenStep == ASSUME TermInv, NEW s \in Term!All, Term!Open(s) PROVE TermInv'
  <1>0. Owes(s, "open") /\ (\E i \in 1..Len(pool) : pool[i] = <<s, "open">>)
    BY RunsADue DEF TermInv, Calls, Term!Open
  <1>h. handler[s] \notin {"new", "talking"} /\ (s \notin Consoles => handler[s] = "waiting")
    BY <1>0 DEF TermInv, Handled, Calls, Term!TypeOK
  <1>m. s \notin Consoles
    BY ServicesAssumption DEF Term!Open, Term!Managed
  <1>1. CASE handler'[s] = "talking"
    <2>1. Turned({<<s, "open">>}, {})
      <3>1. Owes(s, "open") /\ (\E i \in 1..Len(pool) : pool[i] = <<s, "open">>)
        BY <1>1, <1>0, <1>h, <1>m, RunsADue DEF TermInv, Calls, Term!Open, Term!Becomes, Term!Opened, TermInv, Term!TypeOK
      <3>2. ~Owes(s, "read")
        BY <3>1 DEF TermInv, OneCall, Calls, Owes, Owed, Due
      <3>3. Term!Returns(s, "open", <<"read">>)
        BY <1>1, <1>0, <1>h, <1>m DEF Term!Open, Term!Becomes, Term!Opened, TermInv, Term!TypeOK
      <3> QED BY <3>1, <3>2, <3>3, GoesOn DEF TermInv, Turned, Calls
    <2>2. /\ handler' = [handler EXCEPT ![s] = "talking"] /\ shell' = [shell EXCEPT ![s] = "running"]
         /\ reader' = [reader EXCEPT ![s] = "on"] /\ exec_streams' = exec_streams \cup {s} /\ active' = active
         /\ UNCHANGED <<socket, last_resize, abandoned>>
      BY <1>1, <1>h, <1>m DEF Term!Open, Term!Becomes, Term!Opened, TermInv, Term!TypeOK
    <2>a. Term!TypeOK'
      BY <1>0, <1>h, <1>m, <2>1, <2>2 DEF TermInv, Term!TypeOK, Calls, Turned
    <2>b. Untouched(s)
      BY <1>0, <1>h, <1>m, <2>1, <2>2 DEF TermInv, Term!TypeOK, Untouched, Turned
    <2>c. Sole(s)' /\ Handled(s)' /\ Kept(s)'
      BY <1>0, <1>h, <1>m, <2>1, <2>2, ServicesAssumption DEF TermInv, Term!TypeOK, OneCall, Sole, Handled, Kept, Listed, Owes, Calls,
         Turned, Term!All, Term!Managed, Term!Open, Term!Becomes, Term!Opened
    <2> QED BY <1>0, <1>h, <1>m, <2>1, <2>2, <2>a, <2>b, <2>c, TermMoved DEF Turned
  <1>2. CASE UNCHANGED handler
    <2>1. Turned({<<s, "open">>}, {<<s, "disconnect">>})
      <3>1. Owes(s, "open") /\ (\E i \in 1..Len(pool) : pool[i] = <<s, "open">>)
        BY <1>2, <1>0, <1>h, <1>m, RunsADue DEF TermInv, Calls, Term!Open, Term!Becomes, Term!Opened, TermInv, Term!TypeOK
      <3>2. ~Owes(s, "disconnect")
        BY <3>1 DEF TermInv, OneCall, Calls, Owes, Owed, Due
      <3>3. Term!Returns(s, "open", <<"disconnect">>)
        BY <1>2, <1>0, <1>h, <1>m DEF Term!Open, Term!Becomes, Term!Opened, TermInv, Term!TypeOK
      <3> QED BY <3>1, <3>2, <3>3, GoesOn DEF TermInv, Turned, Calls
    <2>a. Term!TypeOK'
      BY <1>0, <1>h, <1>m, <1>2, <2>1 DEF TermInv, Term!TypeOK, Calls, Turned, Term!Open, Term!Becomes, Term!Opened
    <2>b. Untouched(s)
      BY <1>0, <1>h, <1>m, <1>2, <2>1 DEF TermInv, Term!TypeOK, Untouched, Turned, Term!Open, Term!Becomes, Term!Opened
    <2>c. Sole(s)' /\ Handled(s)' /\ Kept(s)'
      BY <1>0, <1>h, <1>m, <1>2, <2>1, ServicesAssumption DEF TermInv, Term!TypeOK, OneCall, Sole, Handled, Kept, Listed, Owes, Calls,
         Turned, Term!All, Term!Managed, Term!Open, Term!Becomes, Term!Opened
    <2> QED BY <1>0, <1>h, <1>m, <1>2, <2>1, <2>a, <2>b, <2>c, TermMoved DEF Turned
  <1> QED BY <1>1, <1>2 DEF Term!Open, Term!Becomes, TermInv, Term!TypeOK

LEMMA FindPodStep == ASSUME TermInv, NEW s \in Term!All, Term!FindPod(s) PROVE TermInv'
  <1>0. Owes(s, "find") /\ (\E i \in 1..Len(pool) : pool[i] = <<s, "find">>)
    BY RunsADue DEF TermInv, Calls, Term!FindPod
  <1>h. handler[s] = "waiting"
    BY <1>0 DEF TermInv, Handled, Calls, Term!TypeOK
  <1>1. CASE UNCHANGED handler
    <2>1. Turned({<<s, "find">>}, {<<s, "open">>})
      <3>1. Owes(s, "find") /\ (\E i \in 1..Len(pool) : pool[i] = <<s, "find">>)
        BY <1>1, <1>h, RunsADue DEF TermInv, Calls, Term!FindPod, Term!Becomes, Term!HangUp, TermInv, Term!TypeOK
      <3>2. ~Owes(s, "open")
        BY <3>1 DEF TermInv, OneCall, Calls, Owes, Owed, Due
      <3>3. Term!Returns(s, "find", <<"open">>)
        BY <1>1, <1>h DEF Term!FindPod, Term!Becomes, Term!HangUp, TermInv, Term!TypeOK
      <3> QED BY <3>1, <3>2, <3>3, GoesOn DEF TermInv, Turned, Calls
    <2>a. Term!TypeOK'
      BY <1>0, <1>h, <1>1, <2>1 DEF TermInv, Term!TypeOK, Calls, Turned, Term!FindPod, Term!Becomes, Term!HangUp
    <2>b. Untouched(s)
      BY <1>0, <1>h, <1>1, <2>1 DEF TermInv, Term!TypeOK, Untouched, Turned, Term!FindPod, Term!Becomes, Term!HangUp
    <2>c. Sole(s)' /\ Handled(s)' /\ Kept(s)'
      BY <1>0, <1>h, <1>1, <2>1, ServicesAssumption DEF TermInv, Term!TypeOK, OneCall, Sole, Handled, Kept, Listed, Owes, Calls,
         Turned, Term!All, Term!Managed, Term!FindPod, Term!Becomes, Term!HangUp
    <2> QED BY <1>0, <1>h, <1>1, <2>1, <2>a, <2>b, <2>c, TermMoved DEF Turned
  <1>2. CASE handler'[s] = "ended"
    <2>1. Turned({<<s, "find">>}, {})
      BY <1>2, <1>0, <1>h, RunsADue, Ends DEF TermInv, Turned, Calls, Term!FindPod, Term!Becomes, Term!HangUp, Term!TypeOK
    <2>a. Term!TypeOK'
      BY <1>0, <1>h, <1>2, <2>1 DEF TermInv, Term!TypeOK, Calls, Turned, Term!FindPod, Term!Becomes, Term!HangUp
    <2>b. Untouched(s)
      BY <1>0, <1>h, <1>2, <2>1 DEF TermInv, Term!TypeOK, Untouched, Turned, Term!FindPod, Term!Becomes, Term!HangUp
    <2>c. Sole(s)' /\ Handled(s)' /\ Kept(s)'
      BY <1>0, <1>h, <1>2, <2>1, ServicesAssumption DEF TermInv, Term!TypeOK, OneCall, Sole, Handled, Kept, Listed, Owes, Calls,
         Turned, Term!All, Term!Managed, Term!FindPod, Term!Becomes, Term!HangUp
    <2> QED BY <1>0, <1>h, <1>2, <2>1, <2>a, <2>b, <2>c, TermMoved DEF Turned
  <1> QED BY <1>1, <1>2 DEF Term!FindPod, Term!Becomes, TermInv, Term!TypeOK

LEMMA OpenConsoleStep == ASSUME TermInv, NEW s \in Term!All, Term!OpenConsole(s) PROVE TermInv'
  <1>0. Owes(s, "open") /\ (\E i \in 1..Len(pool) : pool[i] = <<s, "open">>)
    BY RunsADue DEF TermInv, Calls, Term!OpenConsole
  <1>1. CASE handler'[s] = "talking"
    <2>1. Turned({<<s, "open">>}, {})
      <3>1. Owes(s, "open") /\ (\E i \in 1..Len(pool) : pool[i] = <<s, "open">>)
        BY <1>1, RunsADue DEF TermInv, Calls, Term!OpenConsole, Term!Becomes, Term!HangUp, TermInv, Term!TypeOK
      <3>2. ~Owes(s, "read")
        BY <3>1 DEF TermInv, OneCall, Calls, Owes, Owed, Due
      <3>3. Term!Returns(s, "open", <<"read">>)
        BY <1>1 DEF Term!OpenConsole, Term!Becomes, Term!HangUp, TermInv, Term!TypeOK
      <3> QED BY <3>1, <3>2, <3>3, GoesOn DEF TermInv, Turned, Calls
    <2>2. /\ handler' = [handler EXCEPT ![s] = "talking"] /\ shell' = [shell EXCEPT ![s] = "running"]
         /\ reader' = [reader EXCEPT ![s] = "on"] /\ exec_streams' = exec_streams /\ active' = active
         /\ UNCHANGED <<socket, last_resize, abandoned>>
      BY <1>1 DEF Term!OpenConsole, Term!Becomes, Term!HangUp, TermInv, Term!TypeOK
    <2>a. Term!TypeOK'
      BY <1>0, <2>1, <2>2 DEF TermInv, Term!TypeOK, Calls, Turned
    <2>b. Untouched(s)
      BY <1>0, <2>1, <2>2 DEF TermInv, Term!TypeOK, Untouched, Turned
    <2>c. Sole(s)' /\ Handled(s)' /\ Kept(s)'
      BY <1>0, <2>1, <2>2, ServicesAssumption DEF TermInv, Term!TypeOK, OneCall, Sole, Handled, Kept, Listed, Owes, Calls,
         Turned, Term!All, Term!Managed, Term!OpenConsole, Term!Becomes, Term!HangUp
    <2> QED BY <1>0, <2>1, <2>2, <2>a, <2>b, <2>c, TermMoved DEF Turned
  <1>2. CASE handler'[s] = "ended"
    <2>1. Turned({<<s, "open">>}, {})
      BY <1>2, <1>0, RunsADue, Ends DEF TermInv, Turned, Calls, Term!OpenConsole, Term!Becomes, Term!HangUp, Term!TypeOK
    <2>a. Term!TypeOK'
      BY <1>0, <1>2, <2>1 DEF TermInv, Term!TypeOK, Calls, Turned, Term!OpenConsole, Term!Becomes, Term!HangUp
    <2>b. Untouched(s)
      BY <1>0, <1>2, <2>1 DEF TermInv, Term!TypeOK, Untouched, Turned, Term!OpenConsole, Term!Becomes, Term!HangUp
    <2>c. Sole(s)' /\ Handled(s)' /\ Kept(s)'
      BY <1>0, <1>2, <2>1, ServicesAssumption DEF TermInv, Term!TypeOK, OneCall, Sole, Handled, Kept, Listed, Owes, Calls,
         Turned, Term!All, Term!Managed, Term!OpenConsole, Term!Becomes, Term!HangUp
    <2> QED BY <1>0, <1>2, <2>1, <2>a, <2>b, <2>c, TermMoved DEF Turned
  <1> QED BY <1>1, <1>2 DEF Term!OpenConsole, Term!Becomes, TermInv, Term!TypeOK

LEMMA GiveUpStep == ASSUME TermInv, NEW s \in Term!All, Term!GiveUp(s) PROVE TermInv'
  <1>0. \E i \in 1..Len(pool) : pool[i] = <<s, "open">>
    BY DEF Term!GiveUp, Term!Range, TermInv, Term!TypeOK
  <1>1. Owes(s, "open")
    BY <1>0 DEF Owes, Owed, Due
  <1>2. Turned({}, {}) \/ Turned({<<s, "open">>}, {})
    <2>1. CASE Term!Runs(s, "open")
      BY <2>1 DEF TermInv, Turned, Owed, Due, Apart, Term!TypeOK, Calls, Term!GiveUp
    <2>2. CASE ~Term!Runs(s, "open")
      <3>1. pool' = Term!Without(s, "open")
        BY <2>2 DEF Term!GiveUp
      <3>2. Owed' = Due(pool')
        BY DEF Owed
      <3> QED BY <1>0, <3>1, <3>2, WithoutIt DEF TermInv, Turned, Calls
    <2> QED BY <2>1, <2>2
  <1>a. Term!TypeOK'
    BY <1>1, <1>2 DEF TermInv, Term!TypeOK, Calls, Turned, Term!GiveUp, Term!Becomes, Term!HangUp
  <1>b. Untouched(s)
    BY <1>1, <1>2 DEF TermInv, Term!TypeOK, Untouched, Turned, Term!GiveUp, Term!Becomes, Term!HangUp
  <1>c. Sole(s)' /\ Handled(s)' /\ Kept(s)'
    BY <1>1, <1>2, ServicesAssumption DEF TermInv, Term!TypeOK, OneCall, Sole, Handled, Kept, Listed, Owes, Calls,
       Turned, Term!All, Term!Managed, Term!GiveUp, Term!Becomes, Term!HangUp
  <1> QED BY <1>1, <1>2, <1>a, <1>b, <1>c, TermMoved DEF Turned

LEMMA OpenLateStep == ASSUME TermInv, NEW s \in Term!All, Term!OpenLate(s) PROVE TermInv'
  <1>0. Owes(s, "open") /\ (\E i \in 1..Len(pool) : pool[i] = <<s, "open">>)
    BY RunsADue DEF TermInv, Calls, Term!OpenLate
  <1>1. Turned({<<s, "open">>}, {})
    BY <1>0, RunsADue, Ends DEF TermInv, Turned, Calls, Term!OpenLate
  <1>h. s \in Consoles
    BY <1>0 DEF TermInv, Handled, Calls, Term!OpenLate
  <1>a. Term!TypeOK'
    BY <1>0, <1>1, <1>h DEF TermInv, Term!TypeOK, Calls, Turned, Term!OpenLate
  <1>b. Untouched(s)
    BY <1>0, <1>1, <1>h DEF TermInv, Term!TypeOK, Untouched, Turned, Term!OpenLate
  <1>c. Sole(s)' /\ Handled(s)' /\ Kept(s)'
    BY <1>0, <1>1, <1>h, ServicesAssumption DEF TermInv, Term!TypeOK, OneCall, Sole, Handled, Kept, Listed, Owes, Calls,
       Turned, Term!All, Term!Managed, Term!OpenLate
  <1> QED BY <1>0, <1>1, <1>h, <1>a, <1>b, <1>c, TermMoved DEF Turned

LEMMA ReadStep == ASSUME TermInv, NEW s \in Term!All, Term!Read(s) PROVE TermInv'
  <1>0. \E i \in 1..Len(pool) : pool[i] = <<s, "read">>
    BY RunsADue DEF TermInv, Calls, Term!Read
  <1>1. CASE Term!Returns(s, "read", <<>>)
    <2>1. Turned({<<s, "read">>}, {})
      BY <1>0, <1>1, Ends DEF TermInv, Turned, Calls
    <2>a. Term!TypeOK'
      BY <2>1 DEF TermInv, Term!TypeOK, Calls, Turned, Term!Read, Term!ShellExited, Term!HangUp
    <2>b. Untouched(s)
      BY <2>1 DEF TermInv, Term!TypeOK, Untouched, Turned, Term!Read, Term!ShellExited, Term!HangUp
    <2>c. Sole(s)' /\ Handled(s)' /\ Kept(s)'
      BY <2>1, ServicesAssumption DEF TermInv, Term!TypeOK, OneCall, Sole, Handled, Kept, Listed, Owes, Calls,
         Turned, Term!All, Term!Managed, Term!Read, Term!ShellExited, Term!HangUp
    <2> QED BY <2>1, <2>a, <2>b, <2>c, TermMoved DEF Turned
  <1>2. CASE Term!Returns(s, "read", <<"read">>)
    <2>1. Turned({<<s, "read">>}, {})
      <3>1. ~Owes(s, "read")
        BY DEF Owes, Owed, Due
      <3> QED BY <1>0, <1>2, <3>1, GoesOn DEF TermInv, Turned, Calls
    <2>a. Term!TypeOK'
      BY <2>1 DEF TermInv, Term!TypeOK, Calls, Turned, Term!Read, Term!ShellExited, Term!HangUp
    <2>b. Untouched(s)
      BY <2>1 DEF TermInv, Term!TypeOK, Untouched, Turned, Term!Read, Term!ShellExited, Term!HangUp
    <2>c. Sole(s)' /\ Handled(s)' /\ Kept(s)'
      BY <2>1, ServicesAssumption DEF TermInv, Term!TypeOK, OneCall, Sole, Handled, Kept, Listed, Owes, Calls,
         Turned, Term!All, Term!Managed, Term!Read, Term!ShellExited, Term!HangUp
    <2> QED BY <2>1, <2>a, <2>b, <2>c, TermMoved DEF Turned
  <1> QED BY <1>1, <1>2 DEF Term!Read

LEMMA WriteStep == ASSUME TermInv, NEW s \in Term!All, Term!Write(s) PROVE TermInv'
  <1>0. Owes(s, "write") /\ (\E i \in 1..Len(pool) : pool[i] = <<s, "write">>)
    BY RunsADue DEF TermInv, Calls, Term!Write
  <1>h. handler[s] \notin {"new", "talking"} /\ (s \notin Consoles => handler[s] = "waiting")
    BY <1>0 DEF TermInv, Handled, Calls, Term!TypeOK
  <1>v. handler[s] = "waiting"
    BY <1>0, <1>h DEF TermInv, Handled, Calls, Term!TypeOK
  <1>1. CASE handler'[s] = "talking"
    <2>1. Turned({<<s, "write">>}, {})
      BY <1>1, <1>0, <1>v, RunsADue, Ends DEF TermInv, Turned, Calls, Term!Write, Term!Becomes, Term!TypeOK
    <2>a. Term!TypeOK'
      BY <1>0, <1>v, <1>1, <2>1 DEF TermInv, Term!TypeOK, Calls, Turned, Term!Write, Term!Becomes
    <2>b. Untouched(s)
      BY <1>0, <1>v, <1>1, <2>1 DEF TermInv, Term!TypeOK, Untouched, Turned, Term!Write, Term!Becomes
    <2>c. Sole(s)' /\ Handled(s)' /\ Kept(s)'
      BY <1>0, <1>v, <1>1, <2>1, ServicesAssumption DEF TermInv, Term!TypeOK, OneCall, Sole, Handled, Kept, Listed, Owes, Calls,
         Turned, Term!All, Term!Managed, Term!Write, Term!Becomes
    <2> QED BY <1>0, <1>v, <1>1, <2>1, <2>a, <2>b, <2>c, TermMoved DEF Turned
  <1>2. CASE UNCHANGED handler
    <2>1. Turned({<<s, "write">>}, {<<s, "close">>})
      <3>1. Owes(s, "write") /\ (\E i \in 1..Len(pool) : pool[i] = <<s, "write">>)
        BY <1>2, <1>0, <1>v, RunsADue DEF TermInv, Calls, Term!Write, Term!Becomes, TermInv, Term!TypeOK
      <3>2. ~Owes(s, "close")
        BY <3>1 DEF TermInv, OneCall, Calls, Owes, Owed, Due
      <3>3. Term!Returns(s, "write", <<"close">>)
        BY <1>2, <1>0, <1>v DEF Term!Write, Term!Becomes, TermInv, Term!TypeOK
      <3> QED BY <3>1, <3>2, <3>3, GoesOn DEF TermInv, Turned, Calls
    <2>2. s \in Consoles
      BY <1>2, <1>v DEF Term!Write, Term!Becomes, TermInv, Term!TypeOK
    <2>a. Term!TypeOK'
      BY <1>0, <1>v, <1>2, <2>1, <2>2 DEF TermInv, Term!TypeOK, Calls, Turned, Term!Write, Term!Becomes
    <2>b. Untouched(s)
      BY <1>0, <1>v, <1>2, <2>1, <2>2 DEF TermInv, Term!TypeOK, Untouched, Turned, Term!Write, Term!Becomes
    <2>c. Sole(s)' /\ Handled(s)' /\ Kept(s)'
      BY <1>0, <1>v, <1>2, <2>1, <2>2, ServicesAssumption DEF TermInv, Term!TypeOK, OneCall, Sole, Handled, Kept, Listed, Owes, Calls,
         Turned, Term!All, Term!Managed, Term!Write, Term!Becomes
    <2> QED BY <1>0, <1>v, <1>2, <2>1, <2>2, <2>a, <2>b, <2>c, TermMoved DEF Turned
  <1> QED BY <1>1, <1>2 DEF Term!Write, Term!Becomes, TermInv, Term!TypeOK

LEMMA DisconnectStep == ASSUME TermInv, NEW s \in Term!All, Term!Disconnect(s) PROVE TermInv'
  <1>0. Owes(s, "disconnect") /\ (\E i \in 1..Len(pool) : pool[i] = <<s, "disconnect">>)
    BY RunsADue DEF TermInv, Calls, Term!Disconnect
  <1>h. handler[s] = "waiting" /\ s \notin Consoles /\ ~Owes(s, "close")
    BY <1>0 DEF TermInv, Handled, OneCall, Calls, Term!TypeOK
  <1>1. CASE s \in exec_streams
    <2>1. Turned({<<s, "disconnect">>}, {<<s, "close">>})
      <3>1. pool' = [i \in 1..Len(pool) |-> IF pool[i] = <<s, "disconnect">> THEN <<s, "close">> ELSE pool[i]]
        BY <1>1 DEF Term!Disconnect, Term!Forgotten
      <3>2. pool \in Seq(Term!All \X Calls) /\ Apart(pool)
        BY DEF TermInv, Term!TypeOK, Calls
      <3>3. <<s, "disconnect">> \in Due(pool) /\ <<s, "close">> \notin Due(pool)
        BY <1>0, <1>h DEF Owes, Owed
      <3>4. Owed' = Due(pool') /\ Owed = Due(pool)
        BY DEF Owed
      <3>5. /\ pool' \in Seq(Term!All \X Calls) /\ Len(pool') = Len(pool)
            /\ \A i \in 1..Len(pool) :
                  pool'[i] = IF pool[i] = <<s, "disconnect">> THEN <<s, "close">> ELSE pool[i]
        BY <3>1, <3>2 DEF Calls
      <3>6. Exchanged(Term!All, pool, s, "disconnect", "close", pool')
        BY <3>2, <3>3, <3>5, CallReplaced DEF Calls
      <3> QED BY <3>4, <3>6 DEF Turned, Exchanged
    <2>a. Term!TypeOK'
      BY <1>0, <1>h, <1>1, <2>1 DEF TermInv, Term!TypeOK, Calls, Turned, Term!Disconnect, Term!Forgotten, Term!Becomes
    <2>b. Untouched(s)
      BY <1>0, <1>h, <1>1, <2>1 DEF TermInv, Term!TypeOK, Untouched, Turned, Term!Disconnect, Term!Forgotten, Term!Becomes
    <2>c. Sole(s)' /\ Handled(s)' /\ Kept(s)'
      BY <1>0, <1>h, <1>1, <2>1, ServicesAssumption DEF TermInv, Term!TypeOK, OneCall, Sole, Handled, Kept, Listed, Owes, Calls,
         Turned, Term!All, Term!Managed, Term!Disconnect, Term!Forgotten, Term!Becomes
    <2> QED BY <1>0, <1>h, <1>1, <2>1, <2>a, <2>b, <2>c, TermMoved DEF Turned
  <1>2. CASE s \notin exec_streams
    <2>1. Turned({<<s, "disconnect">>}, {})
      BY <1>2, <1>0, RunsADue, Ends DEF TermInv, Turned, Calls, Term!Disconnect, Term!Forgotten, Term!Becomes
    <2>a. Term!TypeOK'
      BY <1>0, <1>h, <1>2, <2>1 DEF TermInv, Term!TypeOK, Calls, Turned, Term!Disconnect, Term!Forgotten, Term!Becomes
    <2>b. Untouched(s)
      BY <1>0, <1>h, <1>2, <2>1 DEF TermInv, Term!TypeOK, Untouched, Turned, Term!Disconnect, Term!Forgotten, Term!Becomes
    <2>c. Sole(s)' /\ Handled(s)' /\ Kept(s)'
      BY <1>0, <1>h, <1>2, <2>1, ServicesAssumption DEF TermInv, Term!TypeOK, OneCall, Sole, Handled, Kept, Listed, Owes, Calls,
         Turned, Term!All, Term!Managed, Term!Disconnect, Term!Forgotten, Term!Becomes
    <2> QED BY <1>0, <1>h, <1>2, <2>1, <2>a, <2>b, <2>c, TermMoved DEF Turned
  <1> QED BY <1>1, <1>2

LEMMA CloseStep == ASSUME TermInv, NEW s \in Term!All, Term!Close(s) PROVE TermInv'
  <1>0. Owes(s, "close") /\ (\E i \in 1..Len(pool) : pool[i] = <<s, "close">>)
    BY RunsADue DEF TermInv, Calls, Term!Close
  <1>1. Turned({<<s, "close">>}, {})
    BY <1>0, RunsADue, Ends DEF TermInv, Turned, Calls, Term!Close, Term!Becomes
  <1>a. Term!TypeOK'
    BY <1>0, <1>1 DEF TermInv, Term!TypeOK, Calls, Turned, Term!Close, Term!Becomes
  <1>b. Untouched(s)
    BY <1>0, <1>1 DEF TermInv, Term!TypeOK, Untouched, Turned, Term!Close, Term!Becomes
  <1>c. Sole(s)' /\ Handled(s)' /\ Kept(s)'
    BY <1>0, <1>1, ServicesAssumption DEF TermInv, Term!TypeOK, OneCall, Sole, Handled, Kept, Listed, Owes, Calls,
       Turned, Term!All, Term!Managed, Term!Close, Term!Becomes
  <1> QED BY <1>0, <1>1, <1>a, <1>b, <1>c, TermMoved DEF Turned

LEMMA TermStep == TermInv /\ [Term!Next]_Term!vars => TermInv'
  <1> SUFFICES ASSUME TermInv, [Term!Next]_Term!vars PROVE TermInv'
    OBVIOUS
  <1>1. ASSUME NEW s \in Term!All, Term!Thread(s) \/ Term!Read(s) PROVE TermInv'
    BY <1>1, FindStep, OpenStep, FindPodStep, OpenConsoleStep, OpenLateStep, WriteStep, DisconnectStep,
       CloseStep, ReadStep DEF Term!Thread
  <1>2. ASSUME NEW s \in Term!All,
               \/ Term!Admit(s) \/ Term!AdmitAdmin(s) \/ Term!GiveUp(s) \/ Term!Input(s) \/ Term!Resize(s)
               \/ Term!Leave(s) \/ Term!ClientGoes(s) \/ Term!ShellExits(s)
        PROVE  TermInv'
    BY <1>2, AdmitStep, AdmitAdminStep, GiveUpStep, InputStep, ResizeStep, LeaveStep, ClientGoesStep,
       ShellExitsStep
  <1>3. CASE UNCHANGED Term!vars
    BY <1>3 DEF Term!vars, TermInv, Term!TypeOK, Apart, OneCall, Handled, Kept, Owes, Owed, Due, Listed
  <1> QED BY <1>1, <1>2, <1>3 DEF Term!Next

\* Initially nothing is in the pool, and who is not to come has come and gone.
LEMMA TermInit == ASSUME NEW some, Term!InitWith(some) PROVE TermInv
  <1>1. pool = <<>> /\ Len(pool) = 0
    BY DEF Term!InitWith
  <1>2. Owed = {} /\ Apart(pool)
    BY <1>1 DEF Owed, Due, Apart
  <1>3. Term!TypeOK
    BY <1>1 DEF Term!InitWith, Term!TypeOK
  <1>4. OneCall
    BY <1>2 DEF OneCall, Owes
  <1>5. ASSUME NEW s \in Term!All PROVE Handled(s) /\ Kept(s)
    BY <1>2 DEF Term!InitWith, Handled, Kept, Owes, Listed
  <1> QED BY <1>2, <1>3, <1>4, <1>5 DEF TermInv

LEMMA TermKept == TermInv => Term!LeavesNothing
  BY DEF TermInv, Kept, Listed, Term!LeavesNothing

-----------------------------------------------------------------------------
(***************************************************************************)
(* LogStream and GatewayMonitor.                                           *)
(***************************************************************************)
LEMMA LogsStep == Logs!TypeOK /\ [Logs!Next]_Logs!vars => Logs!TypeOK'
  <1> SUFFICES ASSUME Logs!TypeOK, [Logs!Next]_Logs!vars PROVE Logs!TypeOK'
    OBVIOUS
  <1> USE DEF Logs!TypeOK
  <1>0. ASSUME NEW name PROVE Logs!Read(name) \subseteq Logs!Texts \cup {NULL}
    <2>1. log > 0 => log \in 1 .. MaxLog
      BY ServicesAssumption
    <2>2. ASSUME name # NULL, name = pod, log > 0 PROVE [pod |-> pod, length |-> log] \in Logs!Texts
      BY <2>1, <2>2 DEF Logs!Texts
    <2> QED BY <2>2 DEF Logs!Read
  <1>1. CASE Logs!Connect
    BY <1>0, <1>1 DEF Logs!Connect, Logs!Found
  <1>2. CASE Logs!Turn
    <2>1. pod_name' \in Pods \cup {NULL}
      BY <1>2 DEF Logs!Turn, Logs!Refreshed, Logs!Found
    <2>2. last' \in Logs!Texts \cup {NULL}
      BY <1>0, <1>2 DEF Logs!Turn
    <2> QED BY <1>2, <2>1, <2>2 DEF Logs!Turn
  <1>3. CASE Logs!End
    BY <1>3 DEF Logs!End
  <1>4. CASE Logs!Write
    BY <1>4, ServicesAssumption DEF Logs!Write
  <1>5. CASE Logs!Replace
    BY <1>5, ServicesAssumption DEF Logs!Replace
  <1>6. CASE Logs!Leave
    BY <1>6 DEF Logs!Leave
  <1>7. CASE UNCHANGED Logs!vars
    BY <1>7 DEF Logs!vars
  <1> QED BY <1>1, <1>2, <1>3, <1>4, <1>5, <1>6, <1>7 DEF Logs!Next

LEMMA GateInit == ASSUME NEW some, Gate!InitWith(some) PROVE Gate!TypeOK
  <1>1. <<>> \in [{} -> Gate!Activity]
    OBVIOUS
  <1>2. Gate!Idle \in Gate!Monitor
    BY <1>1 DEF Gate!Idle, Gate!Monitor
  <1> QED BY <1>2 DEF Gate!InitWith, Gate!TypeOK, Gate!Activity, Gate!Statuses

LEMMA GateStep == Gate!TypeOK /\ [Gate!Next]_Gate!vars => Gate!TypeOK'
  <1> SUFFICES ASSUME Gate!TypeOK, [Gate!Next]_Gate!vars PROVE Gate!TypeOK'
    OBVIOUS
  <1> USE DEF Gate!TypeOK
  <1>0. Gate!Idle \in Gate!Monitor
    <2>1. <<>> \in [{} -> Gate!Activity]
      OBVIOUS
    <2> QED BY <2>1 DEF Gate!Idle, Gate!Monitor
  <1>1. CASE Gate!Change
    BY <1>1 DEF Gate!Change, Gate!Activity
  <1>2. CASE Gate!Switch
    BY <1>2 DEF Gate!Switch
  <1>3. CASE Gate!Flip
    BY <1>3 DEF Gate!Flip
  <1>4. ASSUME NEW t \in Gate!Tables, Gate!List(t) PROVE Gate!TypeOK'
    BY <1>4 DEF Gate!List, Gate!Monitor
  <1>5. ASSUME NEW t \in Gate!Tables, Gate!Read(t) PROVE Gate!TypeOK'
    <2>1. Gate!Attended(t) \subseteq Gate!Items
      BY DEF Gate!Attended, Gate!Tables, Gate!Items
    <2>2. [i \in Gate!Attended(t) |-> row[i]] \in [Gate!Attended(t) -> Gate!Activity]
      BY <2>1
    <2>3. [at |-> "ask", seen |-> [i \in Gate!Attended(t) |-> row[i]], up |-> FALSE] \in Gate!Monitor
      BY <2>1, <2>2 DEF Gate!Monitor
    <2> QED BY <1>0, <1>5, <2>3 DEF Gate!Read
  <1>6. ASSUME NEW t \in Gate!Tables, Gate!Ask(t) PROVE Gate!TypeOK'
    BY <1>6 DEF Gate!Ask, Gate!Monitor
  <1>7. ASSUME NEW t \in Gate!Tables, Gate!Commit(t) PROVE Gate!TypeOK'
    <2>1. \A i \in Gate!Items : \A a \in Gate!Activity : \A u \in BOOLEAN :
              Gate!Concluded(i, a, u) \in Gate!Statuses
      BY DEF Gate!Items, Gate!Concluded, Gate!Statuses
    <2>2. PICK s \in SUBSET Gate!Items : monitor[t].seen \in [s -> Gate!Activity]
      BY DEF Gate!Monitor
    <2>3. monitor[t].up \in BOOLEAN
      BY DEF Gate!Monitor
    <2>4. \A i \in DOMAIN monitor[t].seen :
              Gate!Concluded(i, monitor[t].seen[i], monitor[t].up) \in Gate!Statuses
      BY <2>1, <2>2, <2>3
    <2>5. monitor' \in [Gate!Tables -> Gate!Monitor]
      BY <1>0, <1>7 DEF Gate!Commit
    <2>6. shown' \in [Gate!Items -> Gate!Statuses]
      BY <1>7, <2>4 DEF Gate!Commit
    <2> QED BY <1>7, <2>5, <2>6 DEF Gate!Commit
  <1>8. ASSUME NEW t \in Gate!Tables, Gate!Abort(t) PROVE Gate!TypeOK'
    BY <1>0, <1>8 DEF Gate!Abort
  <1>9. CASE UNCHANGED Gate!vars
    BY <1>9 DEF Gate!vars
  <1> QED BY <1>1, <1>2, <1>3, <1>4, <1>5, <1>6, <1>7, <1>8, <1>9 DEF Gate!Next

-----------------------------------------------------------------------------
(***************************************************************************)
(* The services beside each other.                                         *)
(***************************************************************************)
LEMMA ServicesStep ==
  [ServicesNext]_<<running, vars, bootVars, termVars, logVars, gateVars>> =>
      [Boot!Next]_Boot!vars /\ [Term!Next]_Term!vars /\ [Logs!Next]_Logs!vars /\ [Gate!Next]_Gate!vars
  BY DEF ServicesNext, bootVars, termVars, logVars, gateVars,
         Boot!vars, Term!vars, Logs!vars, Gate!vars

ServicesInv == BootInv /\ TermInv /\ Logs!TypeOK /\ Gate!TypeOK

\* The inductive invariant of all services.
THEOREM ServicesInvariant == ServicesSpec => []ServicesInv
  <1>1. ServicesInit => ServicesInv
    <2> SUFFICES ASSUME ServicesInit PROVE ServicesInv
      OBVIOUS
    <2>1. BootInv
      BY BootInvInit DEF ServicesInit
    <2>2. TermInv
      BY TermInit DEF ServicesInit
    <2>3. Logs!TypeOK
      BY ServicesAssumption DEF ServicesInit, Logs!Init, Logs!TypeOK
    <2>4. Gate!TypeOK
      BY GateInit DEF ServicesInit
    <2> QED BY <2>1, <2>2, <2>3, <2>4 DEF ServicesInv
  <1>2. ServicesInv /\ [ServicesNext]_<<running, vars, bootVars, termVars, logVars, gateVars>> => ServicesInv'
    BY ServicesStep, BootInvStep, TermStep, LogsStep, GateStep DEF ServicesInv
  <1> QED BY <1>1, <1>2, PTL DEF ServicesSpec

\* Processes and workers, handlers and their streams, log pages and the rows of
\* the monitors keep their types, whatever starts, ends, answers or does not.
THEOREM TypesStay ==
  ServicesSpec => [](Boot!TypeOK /\ Term!TypeOK /\ Logs!TypeOK /\ Gate!TypeOK)
  <1>1. ServicesInv => Boot!TypeOK /\ Term!TypeOK /\ Logs!TypeOK /\ Gate!TypeOK
    BY DEF ServicesInv, BootInv, TermInv
  <1> QED BY <1>1, ServicesInvariant, PTL

\* One worker of _start_arq_worker lives, for any number of processes, unless
\* the lock expired or was released while a worker lived or was about to, or
\* Redis could not be asked.
THEOREM OneWorkerLives == (Boot!Spec => []Boot!OneWorker) /\ (ServicesSpec => []OneWorker)
  <1>1. Boot!Spec => []BootInv
    BY BootInvInit, BootInvStep, PTL DEF Boot!Spec
  <1>2. ServicesInv => BootInv
    BY DEF ServicesInv
  <1>3. BootInv => Boot!OneWorker /\ OneWorker
    BY OneOfEach DEF OneWorker
  <1> QED BY <1>1, <1>2, <1>3, ServicesInvariant, PTL

\* A job of the worker has one runner, for any number of processes and workers
\* and though more than one may live, unless a worker that started cleared the
\* mark of a job that ran (startup in app/tasks.py).
THEOREM OneRunnerRuns == (Boot!Spec => []Boot!OneRunner) /\ (ServicesSpec => []OneRunner)
  <1>1. Boot!Spec => []BootInv
    BY BootInvInit, BootInvStep, PTL DEF Boot!Spec
  <1>2. ServicesInv => BootInv
    BY DEF ServicesInv
  <1>3. BootInv => Boot!OneRunner /\ OneRunner
    BY OneOfEach DEF OneRunner
  <1> QED BY <1>1, <1>2, <1>3, ServicesInvariant, PTL

\* A terminal's handler that has ended is in no dictionary of TerminalManager
\* and has left no stream open, for any number of connections and threads,
\* unless a console ended without a hold of its stream.
THEOREM NothingIsLeft ==
  (Term!Spec => []Term!LeavesNothing) /\ (ServicesSpec => []LeavesNothing)
  <1>1. Term!Init => TermInv
    BY TermInit DEF Term!Init
  <1>2. Term!Spec => []TermInv
    BY <1>1, TermStep, PTL DEF Term!Spec
  <1>3. ServicesInv => TermInv
    BY DEF ServicesInv
  <1>4. TermInv => LeavesNothing
    BY TermKept DEF LeavesNothing
  <1> QED BY <1>2, <1>3, <1>4, TermKept, ServicesInvariant, PTL

=============================================================================
