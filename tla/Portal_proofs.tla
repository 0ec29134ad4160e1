---------------------------- MODULE Portal_proofs -----------------------------
(***************************************************************************)
(* The proofs of Verification, Tickets, Accounts and StatusPush, and of    *)
(* their composition MCPortal: one inductive invariant for each part, and  *)
(* what follows from it for the part alone and beside the others.          *)
(***************************************************************************)
EXTENDS MCPortal, SumTheorems

-----------------------------------------------------------------------------
(***************************************************************************)
(* Captchas, codes and the rate of logins: the inductive invariant CheckInv. *)
(***************************************************************************)
\* The request s is about to store a code.
Storing(s) == sess[s].at = "set"

CaptchasFresh == \A c \in Captchas : compared[c] <= IF captcha[c] = "gone" THEN 1 ELSE 0

CodesFresh ==
    /\ code # NULL => code \in mailed /\ compared[code] = 0
    /\ \A c \in Codes : compared[c] <= IF c \in mailed THEN 1 ELSE 0

\* A code in the hands of a request is nobody else's and not yet stored.
CodesOwned ==
    \A s \in Sessions : Storing(s) =>
        /\ sess[s].item \in mailed /\ sess[s].item # code /\ compared[sess[s].item] = 0
        /\ \A r \in Sessions \ {s} : Storing(r) => sess[r].item # sess[s].item

\* The attempts that count from now on are those that were let through, and none
\* is of a time to come.
AttemptsTrue ==
    /\ \A k \in Kinds : \A t \in Times : now - t < Window => attempts[k][t] = admitted[k][t]
    /\ \A k \in Kinds : \A t \in Times : t > now => admitted[k][t] = 0
    /\ \A s \in Sessions : sess[s].when <= now

\* The requests that have counted and are about to add.
Counting(k) == {s \in Sessions : sess[s].at = Adding(k)}

Excess == IF redis THEN Cardinality(Sessions) - 1 ELSE 0

\* There is room for the attempts that are about to be added; in memory there
\* are none.
RoomToAdd ==
    \A k \in Kinds : /\ SumFunction(Recent(k)) + Cardinality(Counting(k)) <= Limit(k) + Excess
                     /\ ~redis => Counting(k) = {}

CheckInv ==
    /\ TypeOK
    /\ CaptchasFresh
    /\ CodesFresh
    /\ CodesOwned
    /\ AttemptsTrue
    /\ RoomToAdd

-----------------------------------------------------------------------------
LEMMA InitInv ==
  ASSUME Init
  PROVE  TypeOK /\ CaptchasFresh /\ CodesFresh /\ CodesOwned
  <1>1. 0 \in Times /\ Idle \in Session
    BY ConstantsAssumption DEF Times, Idle, Session, Steps
  <1>2. TypeOK
    BY <1>1 DEF Init, TypeOK
  <1>3. CaptchasFresh /\ CodesFresh
    BY ConstantsAssumption DEF Init, CaptchasFresh, CodesFresh
  <1>4. CodesOwned
    BY DEF Init, CodesOwned, Storing, Idle
  <1> QED BY <1>2, <1>3, <1>4

LEMMA AddTypes ==
  ASSUME NEW k \in Kinds, NEW t \in Times, NEW times \in [Times -> Nat],
         attempts \in [Kinds -> [Times -> Nat]], admitted \in [Kinds -> [Times -> Nat]],
         Add(k, times, t)
  PROVE  attempts' \in [Kinds -> [Times -> Nat]] /\ admitted' \in [Kinds -> [Times -> Nat]]
  <1>1. [times EXCEPT ![t] = @ + 1] \in [Times -> Nat]
    OBVIOUS
  <1>2. [admitted[k] EXCEPT ![t] = @ + 1] \in [Times -> Nat]
    OBVIOUS
  <1> QED BY <1>1, <1>2 DEF Add

LEMMA BeginTypes ==
  ASSUME TypeOK, NEW s \in Sessions, NEW step \in Steps,
         NEW item \in Captchas \cup Codes \cup {NULL}, Begin(s, step, item)
  PROVE  TypeOK'
  <1>1. [at |-> step, item |-> item, when |-> now] \in Session
    BY DEF TypeOK, Session
  <1>2. sess' \in [Sessions -> Session]
    BY <1>1 DEF TypeOK, Begin
  <1> QED BY <1>2 DEF TypeOK, Begin, kept, rate

LEMMA FinishTypes ==
  ASSUME TypeOK, NEW s \in Sessions, Finish(s)
  PROVE  sess' \in [Sessions -> Session]
  BY ConstantsAssumption DEF TypeOK, Finish, Idle, Session, Steps, Times

LEMMA CheckTypes ==
  ASSUME TypeOK, NEW s \in Sessions, NEW k \in Kinds, CheckLoginRate(s, k)
  PROVE  TypeOK'
  <1>1. Counted(k) \in [Times -> Nat]
    BY DEF TypeOK, Counted
  <1>2. now \in Times /\ After(k) \in Steps /\ Adding(k) \in Steps
    BY DEF TypeOK, After, Adding, Steps
  <1>3. sess' \in [Sessions -> Session]
    <2>1. CASE Goto(s, After(k))
      BY <2>1, <1>2 DEF TypeOK, Goto, Session
    <2>2. CASE sess' = [sess EXCEPT ![s].at = Adding(k), ![s].when = now]
      BY <2>2, <1>2 DEF TypeOK, Session
    <2>3. CASE Finish(s)
      BY <2>3, FinishTypes
    <2> QED BY <2>1, <2>2, <2>3 DEF CheckLoginRate
  <1>4. attempts' \in [Kinds -> [Times -> Nat]] /\ admitted' \in [Kinds -> [Times -> Nat]]
    <2>1. CASE Add(k, Counted(k), now)
      BY <2>1, <1>1, <1>2, AddTypes DEF TypeOK
    <2>2. CASE attempts' = [attempts EXCEPT ![k] = Counted(k)] /\ UNCHANGED admitted
      BY <2>2, <1>1 DEF TypeOK
    <2> QED BY <2>1, <2>2 DEF CheckLoginRate
  <1> QED BY <1>3, <1>4 DEF TypeOK, CheckLoginRate, kept

LEMMA TypeStep ==
  ASSUME TypeOK, CodesOwned, [Next]_vars
  PROVE  TypeOK'
  <1>1. ASSUME NEW s \in Sessions, Login(s)
        PROVE  TypeOK'
    BY <1>1, BeginTypes DEF Login, Steps
  <1>2. ASSUME NEW s \in Sessions, SendCode(s) \/ LoginWithCode(s)
        PROVE  TypeOK'
    BY <1>2, BeginTypes DEF SendCode, LoginWithCode, Steps
  <1>3. ASSUME NEW s \in Sessions, TakeCaptcha(s)
        PROVE  TypeOK'
    <2>1. sess' \in [Sessions -> Session]
      BY <1>3, FinishTypes DEF TakeCaptcha
    <2>2. captcha' \in [Captchas -> {"new", "stored", "gone"}] /\ compared' \in [Captchas \cup Codes -> Nat]
      <3>1. CASE UNCHANGED <<captcha, compared>>
        BY <3>1 DEF TypeOK
      <3>2. ASSUME NEW c \in Captchas, captcha' = [captcha EXCEPT ![c] = "gone"], Compared(c)
            PROVE  captcha' \in [Captchas -> {"new", "stored", "gone"}]
                   /\ compared' \in [Captchas \cup Codes -> Nat]
        BY <3>2 DEF TypeOK, Compared
      <3> QED BY <1>3, <3>1, <3>2 DEF TakeCaptcha
    <2> QED BY <1>3, <2>1, <2>2 DEF TakeCaptcha, TypeOK, rate
  <1>4. ASSUME NEW s \in Sessions, NewCode(s)
        PROVE  TypeOK'
    <2>1. sess' \in [Sessions -> Session]
      <3>1. CASE Finish(s)
        BY <3>1, FinishTypes
      <3>2. ASSUME NEW c \in Codes, sess' = [sess EXCEPT ![s].at = "set", ![s].item = c]
            PROVE  sess' \in [Sessions -> Session]
        BY <3>2 DEF TypeOK, Session, Steps
      <3> QED BY <1>4, <3>1, <3>2 DEF NewCode
    <2>2. mailed' \subseteq Codes /\ code' \in Codes \cup {NULL} /\ recent' \in BOOLEAN
      BY <1>4 DEF NewCode, TypeOK, Stored
    <2> QED BY <1>4, <2>1, <2>2 DEF NewCode, TypeOK, rate
  <1>5. ASSUME NEW s \in Sessions, SetCode(s)
        PROVE  TypeOK'
    <2>1. sess' \in [Sessions -> Session]
      BY <1>5, FinishTypes DEF SetCode
    <2>2. sess[s].item \in Codes
      BY <1>5 DEF SetCode, CodesOwned, Storing, TypeOK
    <2> QED BY <1>5, <2>1, <2>2 DEF SetCode, Stored, TypeOK, rate
  <1>6. ASSUME NEW s \in Sessions, PopCode(s)
        PROVE  TypeOK'
    <2>1. sess' \in [Sessions -> Session]
      BY <1>6, FinishTypes DEF PopCode
    <2>2. code' \in Codes \cup {NULL} /\ recent' \in BOOLEAN /\ compared' \in [Captchas \cup Codes -> Nat]
      <3>1. CASE code = NULL
        BY <1>6, <3>1 DEF PopCode, TypeOK
      <3>2. CASE code # NULL
        <4>1. code' = NULL /\ recent' = FALSE /\ compared' = [compared EXCEPT ![code] = @ + 1]
          BY <1>6, <3>2 DEF PopCode, Popped, Compared
        <4>2. [compared EXCEPT ![code] = @ + 1] \in [Captchas \cup Codes -> Nat]
          BY <3>2 DEF TypeOK
        <4> QED BY <4>1, <4>2
      <3> QED BY <3>1, <3>2
    <2> QED BY <1>6, <2>1, <2>2 DEF PopCode, TypeOK, rate
  <1>7. ASSUME NEW s \in Sessions, Lose(s)
        PROVE  TypeOK'
    BY <1>7, FinishTypes DEF Lose, TypeOK, kept, rate
  <1>8. ASSUME NEW s \in Sessions, NEW k \in Kinds, AddAttempt(s, k)
        PROVE  TypeOK'
    <2>1. attempts[k] \in [Times -> Nat] /\ sess[s].when \in Times /\ After(k) \in Steps
      <3>1. sess[s] \in Session /\ attempts[k] \in [Times -> Nat]
        BY DEF TypeOK
      <3> QED BY <3>1 DEF Session, After, Steps
    <2>2. attempts' \in [Kinds -> [Times -> Nat]] /\ admitted' \in [Kinds -> [Times -> Nat]]
      BY <1>8, <2>1, AddTypes DEF AddAttempt, TypeOK
    <2>3. sess' \in [Sessions -> Session]
      <3>1. [sess[s] EXCEPT !.at = After(k)] \in Session
        BY <2>1 DEF TypeOK, Session
      <3> QED BY <1>8, <3>1 DEF AddAttempt, Goto, TypeOK
    <2> QED BY <1>8, <2>2, <2>3 DEF AddAttempt, TypeOK, kept
  <1>9. ASSUME NEW c \in Captchas, GetCaptcha(c)
        PROVE  TypeOK'
    BY <1>9 DEF GetCaptcha, TypeOK, rate
  <1>10. CASE Expire
    <2>1. captcha' \in [Captchas -> {"new", "stored", "gone"}]
      BY <1>10 DEF Expire, TypeOK
    <2>2. code' \in Codes \cup {NULL} /\ recent' \in BOOLEAN
      BY <1>10 DEF Expire, TypeOK
    <2> QED BY <1>10, <2>1, <2>2 DEF Expire, TypeOK, rate
  <1>11. CASE Tick
    <2>1. now' \in Times
      BY <1>11, ConstantsAssumption DEF Tick, TypeOK, Times
    <2> QED BY <1>11, <2>1 DEF Tick, TypeOK, kept, rate
  <1>12. CASE UNCHANGED vars
    BY <1>12 DEF vars, TypeOK, kept, rate
  <1> QED BY <1>1, <1>2, <1>3, <1>4, <1>5, <1>6, <1>7, <1>8, <1>9, <1>10, <1>11, <1>12, CheckTypes DEF Next

-----------------------------------------------------------------------------
(***************************************************************************)
(* The step lemmas of the comparisons.                                     *)
(***************************************************************************)
\* A step that begins, counts, ends or loses a request leaves what is kept and
\* lets no request store a code.
LEMMA QuietStep ==
  ASSUME CheckInv, UNCHANGED kept,
         \A s \in Sessions : (Storing(s))' => sess'[s] = sess[s]
  PROVE  (CaptchasFresh /\ CodesFresh /\ CodesOwned)'
  <1>1. \A s \in Sessions : (Storing(s))' => Storing(s)
    BY DEF Storing
  <1> QED BY <1>1 DEF CheckInv, kept, CaptchasFresh, CodesFresh, CodesOwned

LEMMA CaptchaStep ==
  ASSUME CheckInv, TypeOK', [Next]_vars
  PROVE  CaptchasFresh'
  <1>1. ASSUME NEW s \in Sessions, TakeCaptcha(s)
        PROVE  CaptchasFresh'
    BY <1>1 DEF TakeCaptcha, Compared, CheckInv, TypeOK, CaptchasFresh
  <1>2. ASSUME NEW s \in Sessions, PopCode(s)
        PROVE  CaptchasFresh'
    BY <1>2, ConstantsAssumption DEF PopCode, Compared, CheckInv, TypeOK, CaptchasFresh
  <1>3. ASSUME NEW c \in Captchas, GetCaptcha(c)
        PROVE  CaptchasFresh'
    BY <1>3 DEF GetCaptcha, CheckInv, TypeOK, CaptchasFresh
  <1>4. CASE Expire
    BY <1>4 DEF Expire, CheckInv, TypeOK, CaptchasFresh
  <1>5. CASE UNCHANGED <<captcha, compared>>
    BY <1>5 DEF CheckInv, CaptchasFresh
  <1>6. ASSUME NEW s \in Sessions,
               \/ Login(s) \/ SendCode(s) \/ NewCode(s) \/ SetCode(s) \/ LoginWithCode(s) \/ Lose(s)
               \/ \E k \in Kinds : CheckLoginRate(s, k) \/ AddAttempt(s, k)
        PROVE  UNCHANGED <<captcha, compared>>
    BY <1>6 DEF Login, SendCode, NewCode, SetCode, LoginWithCode, Lose, CheckLoginRate, AddAttempt,
                Begin, kept
  <1>7. CASE Tick \/ UNCHANGED vars
    BY <1>7, <1>5 DEF Tick, vars, kept
  <1> QED BY <1>1, <1>2, <1>3, <1>4, <1>5, <1>6, <1>7 DEF Next

LEMMA CodeStep ==
  ASSUME CheckInv, TypeOK', [Next]_vars
  PROVE  CodesFresh' /\ CodesOwned'
  <1>1. ASSUME NEW s \in Sessions, NewCode(s)
        PROVE  CodesFresh' /\ CodesOwned'
    <2>1. CASE Finish(s) /\ UNCHANGED <<code, recent, mailed>>
      BY <1>1, <2>1 DEF NewCode, Finish, Idle, CheckInv, TypeOK, CodesFresh, CodesOwned, Storing
    <2>2. ASSUME NEW c \in Codes \ mailed, mailed' = mailed \cup {c},
                 sess' = [sess EXCEPT ![s].at = "set", ![s].item = c], UNCHANGED <<code, recent>>
          PROVE  CodesFresh' /\ CodesOwned'
      <3>1. compared' = compared /\ compared[c] = 0 /\ c # code
        <4>1. compared' = compared
          BY <1>1 DEF NewCode
        <4>2. compared[c] \in Nat /\ compared[c] <= 0
          BY DEF CheckInv, TypeOK, CodesFresh
        <4>3. c # code
          BY ConstantsAssumption DEF CheckInv, TypeOK, CodesFresh
        <4> QED BY <4>1, <4>2, <4>3
      <3>2. /\ sess'[s].item = c
            /\ \A r \in Sessions \ {s} : sess'[r] = sess[r]
        BY <2>2 DEF CheckInv, TypeOK, Session
      <3>3. \A r \in Sessions \ {s} : Storing(r) => sess[r].item # c
        BY DEF CheckInv, CodesOwned
      <3>4. CodesFresh'
        BY <2>2, <3>1 DEF CheckInv, CodesFresh
      <3>5. CodesOwned'
        <4> SUFFICES ASSUME NEW r \in Sessions, (Storing(r))'
                     PROVE  /\ sess'[r].item \in mailed' /\ sess'[r].item # code'
                            /\ compared'[sess'[r].item] = 0
                            /\ \A q \in Sessions \ {r} : (Storing(q))' => sess'[q].item # sess'[r].item
          BY DEF CodesOwned
        <4>1. \A q \in Sessions \ {s} : (Storing(q))' => Storing(q) /\ sess'[q].item # c
          BY <3>2, <3>3 DEF Storing
        <4>0. c \in mailed' /\ mailed \subseteq mailed' /\ code' = code
          BY <2>2
        <4>2. CASE r = s
          <5>1. sess'[r].item = c
            BY <3>2, <4>2
          <5>2. \A q \in Sessions \ {r} : (Storing(q))' => sess'[q].item # c
            BY <4>1, <4>2
          <5>3. c \in mailed' /\ c # code' /\ compared'[c] = 0
            BY <3>1, <4>0
          <5> QED BY <5>1, <5>2, <5>3
        <4>3. CASE r # s
          <5>1. Storing(r) /\ sess'[r] = sess[r] /\ sess'[r].item # c
            BY <3>2, <4>1, <4>3
          <5>2. \A q \in Sessions \ {r} : (Storing(q))' => sess'[q].item # sess[r].item
            BY <3>2, <4>1, <5>1 DEF CheckInv, CodesOwned, Storing
          <5>3. /\ sess[r].item \in mailed' /\ sess[r].item # code'
                /\ compared'[sess[r].item] = 0
            BY <3>1, <4>0, <5>1 DEF CheckInv, CodesOwned
          <5> QED BY <5>1, <5>2, <5>3
        <4> QED BY <4>2, <4>3
      <3> QED BY <3>4, <3>5
    <2>3. ASSUME NEW c \in Codes \ mailed, mailed' = mailed \cup {c}, Finish(s), Stored(c)
          PROVE  CodesFresh' /\ CodesOwned'
      <3>1. compared' = compared /\ compared[c] = 0
        BY <1>1 DEF NewCode, CheckInv, TypeOK, CodesFresh
      <3>2. \A r \in Sessions : (Storing(r))' => r # s /\ sess'[r] = sess[r]
        BY <2>3 DEF Finish, Idle, CheckInv, TypeOK, Storing
      <3> QED BY <2>3, <3>1, <3>2 DEF Stored, CheckInv, CodesFresh, CodesOwned, Storing
    <2> QED BY <1>1, <2>1, <2>2, <2>3 DEF NewCode
  <1>2. ASSUME NEW s \in Sessions, SetCode(s)
        PROVE  CodesFresh' /\ CodesOwned'
    <2>1. \A r \in Sessions : (Storing(r))' => r # s /\ sess'[r] = sess[r]
      BY <1>2 DEF SetCode, Finish, Idle, CheckInv, TypeOK, Storing
    <2>2. Storing(s) /\ code' = sess[s].item /\ UNCHANGED <<mailed, compared>>
      BY <1>2 DEF SetCode, Stored, Storing
    <2> QED BY <2>1, <2>2 DEF CheckInv, CodesFresh, CodesOwned, Storing
  <1>3. ASSUME NEW s \in Sessions, PopCode(s)
        PROVE  CodesFresh' /\ CodesOwned'
    <2>1. \A r \in Sessions : (Storing(r))' => r # s /\ sess'[r] = sess[r]
      BY <1>3 DEF PopCode, Finish, Idle, CheckInv, TypeOK, Storing
    <2>2. CASE code = NULL
      BY <1>3, <2>1, <2>2 DEF PopCode, CheckInv, CodesFresh, CodesOwned, Storing
    <2>3. CASE code # NULL
      <3>1. /\ code \in Codes /\ code' = NULL /\ mailed' = mailed
            /\ compared' = [compared EXCEPT ![code] = @ + 1]
        BY <1>3, <2>3 DEF PopCode, Popped, Compared, CheckInv, TypeOK
      <3>2. compared'[code] = 1 /\ \A c \in Codes \ {code} : compared'[c] = compared[c]
        BY <2>3, <3>1 DEF CheckInv, TypeOK, CodesFresh
      <3>3. CodesFresh'
        BY <2>3, <3>1, <3>2 DEF CheckInv, CodesFresh
      <3>4. CodesOwned'
        BY <2>1, <3>1, <3>2, ConstantsAssumption DEF CheckInv, CodesOwned, Storing, TypeOK
      <3> QED BY <3>3, <3>4
    <2> QED BY <2>2, <2>3
  <1>4. ASSUME NEW s \in Sessions, TakeCaptcha(s)
        PROVE  CodesFresh' /\ CodesOwned'
    <2>1. \A r \in Sessions : (Storing(r))' => r # s /\ sess'[r] = sess[r]
      BY <1>4 DEF TakeCaptcha, Finish, Idle, CheckInv, TypeOK, Storing
    <2>2. \A c \in Codes : compared'[c] = compared[c]
      <3>1. CASE compared' = compared
        BY <3>1
      <3>2. CASE sess[s].item \in Captchas /\ Compared(sess[s].item)
        BY <3>2, ConstantsAssumption DEF Compared, CheckInv, TypeOK
      <3> QED BY <1>4, <3>1, <3>2 DEF TakeCaptcha
    <2>3. UNCHANGED <<code, mailed>>
      BY <1>4 DEF TakeCaptcha
    <2> QED BY <2>1, <2>2, <2>3 DEF CheckInv, TypeOK, CodesFresh, CodesOwned, Storing
  <1>5. CASE Expire
    BY <1>5, ConstantsAssumption DEF Expire, CheckInv, TypeOK, CodesFresh, CodesOwned, Storing
  <1>6. ASSUME NEW c \in Captchas, GetCaptcha(c)
        PROVE  CodesFresh' /\ CodesOwned'
    BY <1>6 DEF GetCaptcha, CheckInv, CodesFresh, CodesOwned, Storing
  <1>7. ASSUME NEW s \in Sessions,
               \/ Login(s) \/ SendCode(s) \/ LoginWithCode(s) \/ Lose(s)
               \/ \E k \in Kinds : CheckLoginRate(s, k) \/ AddAttempt(s, k)
        PROVE  CodesFresh' /\ CodesOwned'
    <2>1. UNCHANGED kept
      BY <1>7 DEF Login, SendCode, LoginWithCode, Lose, CheckLoginRate, AddAttempt, Begin
    <2>2. \A r \in Sessions : r # s => sess'[r] = sess[r]
      BY <1>7 DEF Login, SendCode, LoginWithCode, Lose, CheckLoginRate, AddAttempt, Begin, Finish,
                  Goto, CheckInv, TypeOK
    <2>3. ~(Storing(s))'
      <3>1. sess' = [sess EXCEPT ![s] = sess'[s]] /\ sess[s] \in Session
        BY <1>7 DEF Login, SendCode, LoginWithCode, Lose, CheckLoginRate, AddAttempt, Begin, Finish,
                    Goto, CheckInv, TypeOK
      <3>2. CASE Login(s) \/ SendCode(s) \/ LoginWithCode(s)
        BY <3>2 DEF Login, SendCode, LoginWithCode, Begin, CheckInv, TypeOK, Storing
      <3>3. CASE Lose(s)
        BY <3>3 DEF Lose, Finish, Idle, CheckInv, TypeOK, Storing
      <3>4. ASSUME NEW k \in Kinds, CheckLoginRate(s, k) \/ AddAttempt(s, k)
            PROVE  ~(Storing(s))'
        <4>1. \/ sess' = [sess EXCEPT ![s].at = After(k)]
              \/ sess' = [sess EXCEPT ![s].at = Adding(k), ![s].when = now]
              \/ sess' = [sess EXCEPT ![s] = Idle]
          BY <3>4 DEF CheckLoginRate, AddAttempt, Goto, Finish
        <4>2. After(k) # "set" /\ Adding(k) # "set"
          BY DEF After, Adding
        <4> QED BY <3>1, <4>1, <4>2 DEF Idle, CheckInv, TypeOK, Session, Storing
      <3> QED BY <1>7, <3>2, <3>3, <3>4
    <2> QED BY <2>1, <2>2, <2>3, QuietStep
  <1>8. CASE Tick \/ UNCHANGED vars
    BY <1>8, QuietStep DEF Tick, vars
  <1> QED BY <1>1, <1>2, <1>3, <1>4, <1>5, <1>6, <1>7, <1>8 DEF Next

-----------------------------------------------------------------------------
(***************************************************************************)
(* The step lemmas of the rate of logins.                                  *)
(***************************************************************************)
LEMMA RateTyped ==
  ASSUME TypeOK
  PROVE  /\ IsFiniteSet(Times) /\ now \in Int /\ Window \in Nat
         /\ Cardinality(Sessions) \in Nat /\ Cardinality(Sessions) >= 1 /\ Excess \in Nat
         /\ \A k \in Kinds : /\ Limit(k) \in Nat
                             /\ Recent(k) \in [Times -> Nat] /\ Recent(k) \in [Times -> Int]
                             /\ SumFunction(Recent(k)) \in Nat
                             /\ Counting(k) \subseteq Sessions /\ IsFiniteSet(Counting(k))
                             /\ Cardinality(Counting(k)) \in Nat
                             /\ Cardinality(Counting(k)) <= Cardinality(Sessions)
  <1>1. IsFiniteSet(Times) /\ now \in Int /\ Window \in Nat
    BY ConstantsAssumption, FS_Interval DEF Times, TypeOK
  <1>2. Cardinality(Sessions) \in Nat /\ Cardinality(Sessions) >= 1
    <2>1. Cardinality(Sessions) \in Nat /\ Cardinality(Sessions) # 0
      BY ConstantsAssumption, FS_CardinalityType, FS_EmptySet
    <2> QED BY <2>1
  <1>3. Excess \in Nat
    BY <1>2 DEF Excess
  <1>4. ASSUME NEW k \in Kinds
        PROVE  /\ Limit(k) \in Nat
               /\ Recent(k) \in [Times -> Nat] /\ Recent(k) \in [Times -> Int]
               /\ SumFunction(Recent(k)) \in Nat
    <2>1. Recent(k) \in [Times -> Nat]
      BY DEF Recent, TypeOK
    <2>2. SumFunction(Recent(k)) \in Nat
      BY <1>1, <2>1, SumNat
    <2> QED BY <2>1, <2>2, ConstantsAssumption DEF Limit
  <1>5. ASSUME NEW k \in Kinds
        PROVE  /\ Counting(k) \subseteq Sessions /\ IsFiniteSet(Counting(k))
               /\ Cardinality(Counting(k)) \in Nat
               /\ Cardinality(Counting(k)) <= Cardinality(Sessions)
    <2>1. Counting(k) \subseteq Sessions
      BY DEF Counting
    <2> QED BY <2>1, ConstantsAssumption, FS_Subset, FS_CardinalityType
  <1> QED BY <1>1, <1>2, <1>3, <1>4, <1>5

\* One more attempt at t is one more in the window, at most.
LEMMA OneMore ==
  ASSUME TypeOK, TypeOK', NEW k \in Kinds, NEW t \in Times, now' = now,
         admitted' = [admitted EXCEPT ![k][t] = @ + 1]
  PROVE  /\ SumFunction(Recent(k))' \in Nat /\ SumFunction(Recent(k))' <= SumFunction(Recent(k)) + 1
         /\ \A m \in Kinds \ {k} : Recent(m)' = Recent(m)
  <1>1. /\ admitted'[k][t] = admitted[k][t] + 1
        /\ \A r \in Times \ {t} : admitted'[k][r] = admitted[k][r]
        /\ \A m \in Kinds \ {k} : admitted'[m] = admitted[m]
    BY DEF TypeOK
  <1>2. Recent(k)' \in [Times -> Nat] /\ Recent(k)' \in [Times -> Int]
    BY DEF Recent, TypeOK
  <1>3. \A r \in Times \ {t} : Recent(k)'[r] = Recent(k)[r]
    BY <1>1 DEF Recent
  <1>4. Recent(k)'[t] \in Nat /\ Recent(k)[t] \in Nat /\ Recent(k)'[t] <= Recent(k)[t] + 1
    BY <1>1 DEF Recent, TypeOK
  <1>5. PICK v : v = Recent(k)'
    OBVIOUS
  <1>6. IsFiniteSet(Times) /\ Recent(k) \in [Times -> Int] /\ SumFunction(Recent(k)) \in Nat
    BY RateTyped
  <1>7. SumFunction(v) - v[t] = SumFunction(Recent(k)) - Recent(k)[t]
    BY <1>2, <1>3, <1>5, <1>6, SumChange
  <1>8. SumFunction(v) \in Nat
    BY <1>2, <1>5, <1>6, SumNat
  <1>9. SumFunction(Recent(k))' = SumFunction(v)
    BY <1>5
  <1>10. \A m \in Kinds \ {k} : Recent(m)' = Recent(m)
    BY <1>1 DEF Recent
  <1> QED BY <1>4, <1>5, <1>6, <1>7, <1>8, <1>9, <1>10

\* Where nothing is counted, requests that go on leave no more of them before
\* their addition.
LEMMA RateStays ==
  ASSUME CheckInv, UNCHANGED <<redis, now, attempts, admitted>>, TypeOK',
         \A s \in Sessions : sess'[s].when <= now,
         \A k \in Kinds : \A s \in Sessions : sess'[s].at = Adding(k) => sess[s].at = Adding(k)
  PROVE  AttemptsTrue' /\ RoomToAdd'
  <1>1. AttemptsTrue'
    BY DEF AttemptsTrue, CheckInv
  <1>2. ASSUME NEW k \in Kinds
        PROVE  /\ SumFunction(Recent(k))' + Cardinality(Counting(k))' <= Limit(k) + Excess'
               /\ ~redis' => Counting(k)' = {}
    <2>1. Counting(k)' \subseteq Counting(k)
      BY DEF Counting
    <2>2. PICK C : C = Counting(k)'
      OBVIOUS
    <2>3. Cardinality(C) \in Nat /\ Cardinality(C) <= Cardinality(Counting(k))
      BY <2>1, <2>2, RateTyped, FS_Subset, FS_CardinalityType DEF CheckInv
    <2>4. SumFunction(Recent(k))' = SumFunction(Recent(k)) /\ Excess' = Excess
      BY DEF Recent, Excess
    <2>5. SumFunction(Recent(k)) + Cardinality(Counting(k)) <= Limit(k) + Excess
      BY DEF CheckInv, RoomToAdd
    <2>6. /\ SumFunction(Recent(k)) \in Nat /\ Cardinality(Counting(k)) \in Nat
          /\ Limit(k) \in Nat /\ Excess \in Nat
      BY RateTyped DEF CheckInv
    <2>7. Cardinality(Counting(k))' = Cardinality(C)
      BY <2>2
    <2>8. SumFunction(Recent(k))' + Cardinality(Counting(k))' <= Limit(k) + Excess'
      BY <2>3, <2>4, <2>5, <2>6, <2>7
    <2>9. ~redis' => Counting(k)' = {}
      BY <2>1 DEF CheckInv, RoomToAdd
    <2> QED BY <2>8, <2>9
  <1>3. RoomToAdd'
    BY <1>2 DEF RoomToAdd, Limit
  <1> QED BY <1>1, <1>3

\* What a request counts are the attempts within the window.
LEMMA CountedIsRecent ==
  ASSUME TypeOK, AttemptsTrue, NEW k \in Kinds
  PROVE  Counted(k) = Recent(k)
  <1>1. \A t \in Times : t \in Int /\ (t > now => now - t < Window)
    BY ConstantsAssumption DEF TypeOK, Times
  <1>2. \A t \in Times : (IF now - t < Window THEN attempts[k][t] ELSE 0)
                          = IF t <= now /\ now - t < Window THEN admitted[k][t] ELSE 0
    <2> TAKE t \in Times
    <2>1. CASE t > now
      <3>1. now - t < Window /\ ~(t <= now)
        BY <1>1, <2>1, ConstantsAssumption DEF TypeOK, Times
      <3>2. attempts[k][t] = 0
        BY <2>1, <3>1 DEF AttemptsTrue
      <3> QED BY <3>1, <3>2
    <2>2. CASE t <= now
      BY <2>2 DEF AttemptsTrue
    <2>3. t > now \/ t <= now
      BY <1>1 DEF TypeOK, Times
    <2> QED BY <2>1, <2>2, <2>3
  <1> QED BY <1>2 DEF Counted, Within, Recent

LEMMA CheckStep ==
  ASSUME CheckInv, TypeOK', NEW s \in Sessions, NEW k \in Kinds, CheckLoginRate(s, k)
  PROVE  AttemptsTrue' /\ RoomToAdd'
  <1>0. TypeOK /\ AttemptsTrue /\ RoomToAdd
    BY DEF CheckInv
  <1>1. Counted(k) = Recent(k)
    BY <1>0, CountedIsRecent
  <1>2. /\ redis' = redis /\ now' = now /\ now \in Times /\ sess[s].at = k
        /\ \A r \in Sessions \ {s} : sess'[r] = sess[r]
    BY <1>0 DEF CheckLoginRate, TypeOK, Goto, Finish
  <1>3. /\ Adding("ip") = "addIp" /\ Adding("email") = "addEmail" /\ Kinds = {"ip", "email"}
        /\ After("ip") = "email" /\ After("email") = "captcha"
    BY DEF Adding, After, Kinds
  <1>4. \A t \in Times : now - t < Window => Recent(k)[t] = admitted[k][t]
    BY <1>0 DEF Recent, AttemptsTrue, TypeOK, Times
  <1>5. /\ SumFunction(Recent(k)) \in Nat /\ Limit(k) \in Nat /\ Excess \in Nat
        /\ Cardinality(Sessions) \in Nat /\ Cardinality(Sessions) >= 1
    BY <1>0, RateTyped
  <1>6. CASE SumFunction(Recent(k)) < Limit(k) /\ ~redis
    <2>1. Add(k, Recent(k), now) /\ sess' = [sess EXCEPT ![s].at = After(k)]
      BY <1>1, <1>6 DEF CheckLoginRate, Total, Goto
    <2>2. /\ \A m \in Kinds \ {k} : attempts'[m] = attempts[m] /\ admitted'[m] = admitted[m]
          /\ \A t \in Times \ {now} : attempts'[k][t] = Recent(k)[t] /\ admitted'[k][t] = admitted[k][t]
          /\ attempts'[k][now] = Recent(k)[now] + 1 /\ admitted'[k][now] = admitted[k][now] + 1
      <3>1. Recent(k) \in [Times -> Nat]
        BY <1>0, RateTyped
      <3> QED BY <1>0, <1>2, <2>1, <3>1 DEF Add, TypeOK
    <2>3. AttemptsTrue'
      <3>1. \A r \in Sessions : sess'[r].when <= now
        BY <1>0, <2>1 DEF AttemptsTrue, TypeOK, Session
      <3>2. \A m \in Kinds : \A t \in Times : now - t < Window => attempts'[m][t] = admitted'[m][t]
        BY <1>0, <1>4, <2>2 DEF AttemptsTrue
      <3>3. \A m \in Kinds : \A t \in Times : t > now => admitted'[m][t] = 0
        <4>1. ~(now > now)
          BY <1>0 DEF TypeOK, Times
        <4> QED BY <1>0, <2>2, <4>1 DEF AttemptsTrue
      <3> QED BY <1>2, <3>1, <3>2, <3>3 DEF AttemptsTrue
    <2>4. \A m \in Kinds : Counting(m)' = {}
      <3>1. \A m \in Kinds : \A r \in Sessions : sess'[r].at # Adding(m)
        <4>1. \A m \in Kinds : \A r \in Sessions : sess[r].at # Adding(m)
          BY <1>0, <1>6 DEF RoomToAdd, Counting
        <4>2. sess'[s].at = After(k)
          BY <1>0, <2>1 DEF TypeOK, Session
        <4> QED BY <1>2, <1>3, <4>1, <4>2
      <3> QED BY <3>1 DEF Counting
    <2>5. /\ SumFunction(Recent(k))' \in Nat /\ SumFunction(Recent(k))' <= SumFunction(Recent(k)) + 1
          /\ \A m \in Kinds \ {k} : Recent(m)' = Recent(m)
      BY <1>0, <1>2, <2>1, OneMore DEF Add
    <2>6. \A m \in Kinds : SumFunction(Recent(m))' <= Limit(m)
      <3>1. SumFunction(Recent(k))' <= Limit(k)
        BY <1>5, <1>6, <2>5
      <3>2. ASSUME NEW m \in Kinds \ {k} PROVE SumFunction(Recent(m))' <= Limit(m)
        <4>1. SumFunction(Recent(m))' = SumFunction(Recent(m))
          BY <2>5
        <4>2. SumFunction(Recent(m)) + Cardinality(Counting(m)) <= Limit(m) + Excess /\ Counting(m) = {}
          BY <1>0, <1>6 DEF RoomToAdd
        <4>3. Excess = 0 /\ Cardinality({}) = 0
          BY <1>6, FS_EmptySet DEF Excess
        <4>4. SumFunction(Recent(m)) \in Nat /\ Limit(m) \in Nat
          BY <1>0, RateTyped
        <4> QED BY <4>1, <4>2, <4>3, <4>4
      <3> QED BY <3>1, <3>2
    <2>7. RoomToAdd'
      <3>1. Excess' = 0 /\ Cardinality({}) = 0
        BY <1>2, <1>6, FS_EmptySet DEF Excess
      <3>2. \A m \in Kinds : Limit(m) \in Nat /\ SumFunction(Recent(m))' \in Nat
        BY <1>0, <2>5, RateTyped
      <3>3. \A m \in Kinds : SumFunction(Recent(m))' + 0 <= Limit(m) + 0
        BY <2>6, <3>2
      <3> QED BY <2>4, <3>1, <3>3 DEF RoomToAdd, Limit
    <2> QED BY <2>3, <2>7
  <1>7. CASE ~(SumFunction(Recent(k)) < Limit(k) /\ ~redis)
    <2>1. /\ attempts' = [attempts EXCEPT ![k] = Recent(k)] /\ admitted' = admitted
          /\ IF SumFunction(Recent(k)) >= Limit(k) THEN sess' = [sess EXCEPT ![s] = Idle]
             ELSE sess' = [sess EXCEPT ![s].at = Adding(k), ![s].when = now]
      BY <1>1, <1>7 DEF CheckLoginRate, Total, Finish
    <2>2. AttemptsTrue'
      <3>1. \A r \in Sessions : sess'[r].when <= now
        <4>1. sess'[s].when <= now
          BY <1>0, <2>1 DEF TypeOK, Session, Times, Idle
        <4> QED BY <1>0, <1>2, <4>1 DEF AttemptsTrue
      <3>2. \A m \in Kinds : \A t \in Times : now - t < Window => attempts'[m][t] = admitted'[m][t]
        <4>1. attempts'[k] = Recent(k) /\ \A m \in Kinds \ {k} : attempts'[m] = attempts[m]
          BY <1>0, <2>1 DEF TypeOK
        <4> QED BY <1>0, <1>4, <2>1, <4>1 DEF AttemptsTrue
      <3> QED BY <1>0, <1>2, <2>1, <3>1, <3>2 DEF AttemptsTrue
    <2>3. \A m \in Kinds : Recent(m)' = Recent(m)
      BY <1>2, <2>1 DEF Recent
    <2>4. Excess' = Excess /\ \A m \in Kinds : Limit(m) \in Nat
      BY <1>0, <1>2, RateTyped DEF Excess
    <2>5. CASE SumFunction(Recent(k)) >= Limit(k)
      <3>1. sess'[s].at = "idle"
        BY <1>0, <2>1, <2>5 DEF TypeOK, Idle
      <3>2. ASSUME NEW m \in Kinds PROVE Counting(m)' = Counting(m)
        BY <1>2, <1>3, <3>1 DEF Counting
      <3>3. RoomToAdd'
        BY <1>0, <1>2, <2>3, <2>4, <3>2 DEF RoomToAdd, Limit
      <3> QED BY <2>2, <3>3
    <2>6. CASE ~(SumFunction(Recent(k)) >= Limit(k))
      <3>1. redis /\ SumFunction(Recent(k)) < Limit(k)
        BY <1>5, <1>7, <2>6
      <3>2. sess'[s].at = Adding(k)
        BY <1>0, <2>1, <2>6 DEF TypeOK, Session
      <3>3. \A m \in Kinds \ {k} : Counting(m)' = Counting(m)
        BY <1>2, <1>3, <3>2 DEF Counting
      <3>4. Counting(k)' \subseteq Sessions
        BY DEF Counting
      <3>5. Cardinality(Counting(k))' \in Nat /\ Cardinality(Counting(k))' <= Cardinality(Sessions)
        <4>1. PICK C : C = Counting(k)'
          OBVIOUS
        <4>2. Cardinality(C) \in Nat /\ Cardinality(C) <= Cardinality(Sessions)
          BY <3>4, <4>1, ConstantsAssumption, FS_Subset, FS_CardinalityType
        <4> QED BY <4>1, <4>2
      <3>6. SumFunction(Recent(k))' + Cardinality(Counting(k))' <= Limit(k) + Excess'
        <4>1. Excess = Cardinality(Sessions) - 1 /\ SumFunction(Recent(k))' = SumFunction(Recent(k))
          BY <2>3, <3>1 DEF Excess
        <4> QED BY <1>5, <2>4, <3>1, <3>5, <4>1
      <3>7. RoomToAdd'
        BY <1>0, <1>2, <2>3, <2>4, <3>1, <3>3, <3>6 DEF RoomToAdd, Limit
      <3> QED BY <2>2, <3>7
    <2> QED BY <2>5, <2>6
  <1> QED BY <1>6, <1>7

LEMMA AddStep ==
  ASSUME CheckInv, TypeOK', NEW s \in Sessions, NEW k \in Kinds, AddAttempt(s, k)
  PROVE  AttemptsTrue' /\ RoomToAdd'
  <1>0. TypeOK /\ AttemptsTrue /\ RoomToAdd /\ sess[s] \in Session
    BY DEF CheckInv, TypeOK
  <1> DEFINE t == sess[s].when
  <1>1. /\ redis' = redis /\ now' = now /\ t \in Times /\ t <= now /\ now \in Times /\ sess[s].at = Adding(k)
        /\ \A r \in Sessions \ {s} : sess'[r] = sess[r]
        /\ sess'[s].at = After(k) /\ sess'[s].when = t
    BY <1>0 DEF AddAttempt, TypeOK, Goto, Session, AttemptsTrue
  <1>2. /\ \A m \in Kinds \ {k} : attempts'[m] = attempts[m] /\ admitted'[m] = admitted[m]
        /\ \A r \in Times \ {t} : attempts'[k][r] = attempts[k][r] /\ admitted'[k][r] = admitted[k][r]
        /\ attempts'[k][t] = attempts[k][t] + 1 /\ admitted'[k][t] = admitted[k][t] + 1
        /\ admitted' = [admitted EXCEPT ![k][t] = @ + 1]
    <2>1. /\ attempts' = [attempts EXCEPT ![k] = [attempts[k] EXCEPT ![t] = @ + 1]]
          /\ admitted' = [admitted EXCEPT ![k][t] = @ + 1]
      BY DEF AddAttempt, Add
    <2> QED BY <1>0, <1>1, <2>1 DEF TypeOK
  <1>3. /\ Adding("ip") = "addIp" /\ Adding("email") = "addEmail" /\ Kinds = {"ip", "email"}
        /\ After("ip") = "email" /\ After("email") = "captcha"
    BY DEF Adding, After, Kinds
  <1>4. AttemptsTrue'
    <2>1. \A r \in Sessions : sess'[r].when <= now
      BY <1>0, <1>1 DEF AttemptsTrue
    <2>2. \A m \in Kinds : \A r \in Times : now - r < Window => attempts'[m][r] = admitted'[m][r]
      BY <1>0, <1>2 DEF AttemptsTrue
    <2>3. \A m \in Kinds : \A r \in Times : r > now => admitted'[m][r] = 0
      <3>1. ~(t > now)
        BY <1>1 DEF Times
      <3> HIDE DEF t
      <3> QED BY <1>0, <1>2, <3>1 DEF AttemptsTrue
    <2> QED BY <1>1, <2>1, <2>2, <2>3 DEF AttemptsTrue
  <1>5. Counting(k)' = Counting(k) \ {s} /\ s \in Counting(k)
    BY <1>1, <1>3 DEF Counting
  <1>6. \A m \in Kinds \ {k} : Counting(m)' = Counting(m)
    BY <1>1, <1>3 DEF Counting
  <1>7. Cardinality(Counting(k))' = Cardinality(Counting(k)) - 1
    <2>1. PICK C : C = Counting(k)'
      OBVIOUS
    <2>2. Cardinality(C) = Cardinality(Counting(k)) - 1
      BY <1>0, <1>5, <2>1, RateTyped, FS_RemoveElement
    <2> QED BY <2>1, <2>2
  <1>8. /\ SumFunction(Recent(k))' \in Nat /\ SumFunction(Recent(k))' <= SumFunction(Recent(k)) + 1
        /\ \A m \in Kinds \ {k} : Recent(m)' = Recent(m)
    <2> HIDE DEF t
    <2> QED BY <1>0, <1>1, <1>2, OneMore
  <1>9. Excess' = Excess
    BY <1>1 DEF Excess
  <1>10. SumFunction(Recent(k))' + Cardinality(Counting(k))' <= Limit(k) + Excess'
    <2>1. SumFunction(Recent(k)) + Cardinality(Counting(k)) <= Limit(k) + Excess
      BY <1>0 DEF RoomToAdd
    <2>2. /\ SumFunction(Recent(k)) \in Nat /\ Cardinality(Counting(k)) \in Nat
          /\ Limit(k) \in Nat /\ Excess \in Nat
      BY <1>0, RateTyped
    <2> QED BY <1>7, <1>8, <1>9, <2>1, <2>2
  <1>11. redis
    BY <1>0, <1>5 DEF RoomToAdd
  <1>12. RoomToAdd'
    BY <1>0, <1>1, <1>6, <1>8, <1>9, <1>10, <1>11 DEF RoomToAdd, Limit
  <1> QED BY <1>4, <1>12

LEMMA TickStep ==
  ASSUME CheckInv, TypeOK', Tick
  PROVE  AttemptsTrue' /\ RoomToAdd'
  <1>0. TypeOK /\ AttemptsTrue /\ RoomToAdd /\ now \in Nat
    BY DEF CheckInv, TypeOK, Times
  <1>1. now' = now + 1 /\ UNCHANGED <<redis, attempts, admitted, sess>>
    BY DEF Tick, rate
  <1>2. AttemptsTrue'
    <2>1. \A t \in Times : t \in Int /\ (now' - t < Window => now - t < Window) /\ (t > now' => t > now)
      BY <1>0, <1>1, ConstantsAssumption DEF Times
    <2>2. \A s \in Sessions : sess[s].when \in Int
      BY <1>0 DEF TypeOK, Session, Times
    <2>3. \A s \in Sessions : sess'[s].when <= now'
      BY <1>0, <1>1, <2>2 DEF AttemptsTrue
    <2> QED BY <1>0, <1>1, <2>1, <2>3 DEF AttemptsTrue
  <1>3. ASSUME NEW k \in Kinds
        PROVE  SumFunction(Recent(k))' <= SumFunction(Recent(k)) /\ SumFunction(Recent(k))' \in Nat
    <2>1. PICK v : v = Recent(k)'
      OBVIOUS
    <2>2. v \in [Times -> Nat] /\ v \in [Times -> Int]
      BY <2>1 DEF Recent, TypeOK
    <2>3. ASSUME NEW t \in Times PROVE v[t] <= Recent(k)[t]
      <3>1. v[t] = IF t <= now + 1 /\ now + 1 - t < Window THEN admitted[k][t] ELSE 0
        <4>1. v[t] = IF t <= now' /\ now' - t < Window THEN admitted'[k][t] ELSE 0
          BY <2>1 DEF Recent
        <4>2. now' = now + 1 /\ admitted' = admitted
          BY <1>1
        <4>3. now \in Nat /\ now' \in Nat /\ t \in Int /\ Window \in Nat
          BY <1>0, ConstantsAssumption DEF TypeOK, Times
        <4>4. admitted'[k][t] = admitted[k][t]
          BY <4>2
        <4> HIDE DEF Recent
        <4> QED BY <4>1, <4>2, <4>3, <4>4
      <3>2. Recent(k)[t] = IF t <= now /\ now - t < Window THEN admitted[k][t] ELSE 0
        BY DEF Recent
      <3>3. admitted[k][t] \in Nat /\ t \in Int
        BY <1>0, ConstantsAssumption DEF TypeOK, Times
      <3>4. t > now => admitted[k][t] = 0
        BY <1>0 DEF AttemptsTrue
      <3> QED BY <1>0, <3>1, <3>2, <3>3, <3>4, ConstantsAssumption
    <2>4. SumFunction(v) <= SumFunction(Recent(k)) /\ SumFunction(v) \in Nat
      BY <1>0, <2>2, <2>3, RateTyped, SumMonotone, SumNat
    <2> QED BY <2>1, <2>4
  <1>4. RoomToAdd'
    <2>1. ASSUME NEW k \in Kinds
          PROVE  SumFunction(Recent(k))' + Cardinality(Counting(k))' <= Limit(k) + Excess'
      <3>1. Counting(k)' = Counting(k) /\ Excess' = Excess
        BY <1>1 DEF Counting, Excess
      <3>2. SumFunction(Recent(k)) + Cardinality(Counting(k)) <= Limit(k) + Excess
        BY <1>0 DEF RoomToAdd
      <3>3. /\ SumFunction(Recent(k)) \in Nat /\ Cardinality(Counting(k)) \in Nat
            /\ Limit(k) \in Nat /\ Excess \in Nat
        BY <1>0, RateTyped
      <3> QED BY <1>3, <3>1, <3>2, <3>3
    <2>2. \A k \in Kinds : Counting(k)' = Counting(k)
      BY <1>1 DEF Counting
    <2> QED BY <1>0, <1>1, <2>1, <2>2 DEF RoomToAdd, Limit
  <1> QED BY <1>2, <1>4

LEMMA RateStep ==
  ASSUME CheckInv, TypeOK', [Next]_vars
  PROVE  AttemptsTrue' /\ RoomToAdd'
  <1>0. TypeOK /\ AttemptsTrue /\ \A r \in Sessions : sess[r] \in Session /\ now \in Times /\ 0 <= now
    BY DEF CheckInv, TypeOK, Times
  <1>1. ASSUME NEW s \in Sessions,
               \/ Login(s) \/ TakeCaptcha(s) \/ SendCode(s) \/ NewCode(s) \/ SetCode(s)
               \/ LoginWithCode(s) \/ PopCode(s) \/ Lose(s)
        PROVE  AttemptsTrue' /\ RoomToAdd'
    <2>1. UNCHANGED <<redis, now, attempts, admitted>> /\ \A r \in Sessions \ {s} : sess'[r] = sess[r]
      BY <1>0, <1>1 DEF Login, TakeCaptcha, SendCode, NewCode, SetCode, LoginWithCode, PopCode, Lose,
                 Begin, Finish, rate, TypeOK
    <2>2. /\ sess'[s].when <= now
          /\ sess'[s].at \in {"idle", "ip", "look", "code", "set"}
      <3>1. CASE Login(s) \/ SendCode(s) \/ LoginWithCode(s)
        BY <1>0, <3>1 DEF Login, SendCode, LoginWithCode, Begin, TypeOK, Times
      <3>2. CASE sess' = [sess EXCEPT ![s] = Idle]
        BY <1>0, <3>2 DEF Idle, TypeOK
      <3>3. CASE NewCode(s)
        <4>1. ASSUME NEW c \in Codes, sess' = [sess EXCEPT ![s].at = "set", ![s].item = c]
              PROVE  sess'[s].when = sess[s].when /\ sess'[s].at = "set"
          BY <1>0, <4>1 DEF TypeOK, Session
        <4> QED BY <1>0, <3>2, <3>3, <4>1 DEF NewCode, Finish, AttemptsTrue
      <3> QED BY <1>1, <3>1, <3>2, <3>3 DEF TakeCaptcha, SetCode, PopCode, Lose, Finish
    <2>3. \A r \in Sessions : sess'[r].when <= now
      BY <1>0, <2>1, <2>2 DEF AttemptsTrue
    <2>4. \A k \in Kinds : \A r \in Sessions : sess'[r].at = Adding(k) => sess[r].at = Adding(k)
      BY <2>1, <2>2 DEF Adding
    <2> QED BY <2>1, <2>3, <2>4, RateStays
  <1>2. ASSUME UNCHANGED <<redis, now, attempts, admitted, sess>> PROVE AttemptsTrue' /\ RoomToAdd'
    BY <1>0, <1>2, RateStays DEF AttemptsTrue
  <1>3. CASE Expire \/ (\E c \in Captchas : GetCaptcha(c)) \/ UNCHANGED vars
    BY <1>2, <1>3 DEF Expire, GetCaptcha, vars, rate
  <1>4. ASSUME NEW s \in Sessions, NEW k \in Kinds, CheckLoginRate(s, k) \/ AddAttempt(s, k)
        PROVE  AttemptsTrue' /\ RoomToAdd'
    BY <1>4, CheckStep, AddStep
  <1> QED BY <1>1, <1>3, <1>4, TickStep DEF Next

LEMMA CheckInit == Init => CheckInv
  <1> SUFFICES ASSUME Init PROVE CheckInv
    OBVIOUS
  <1>1. TypeOK /\ CaptchasFresh /\ CodesFresh /\ CodesOwned
    BY InitInv
  <1>2. /\ now = 0 /\ \A s \in Sessions : sess[s] = Idle
        /\ \A k \in Kinds : \A t \in Times : attempts[k][t] = 0 /\ admitted[k][t] = 0
    BY DEF Init
  <1>3. AttemptsTrue
    BY <1>2 DEF AttemptsTrue, Idle
  <1>4. ASSUME NEW k \in Kinds PROVE Counting(k) = {} /\ SumFunction(Recent(k)) = 0
    <2>1. Counting(k) = {}
      BY <1>2 DEF Counting, Idle, Adding
    <2>2. Recent(k) \in [Times -> Int] /\ IsFiniteSet(Times) /\ SumFunction(Recent(k)) \in Nat
      BY <1>1, RateTyped
    <2>3. \A t \in Times : Recent(k)[t] = 0
      BY <1>2 DEF Recent
    <2>4. SumFunction(Recent(k)) = 0
      BY <2>2, <2>3, SumZero
    <2> QED BY <2>1, <2>4
  <1>5. RoomToAdd
    <2>1. Cardinality({}) = 0 /\ Excess \in Nat /\ \A k \in Kinds : Limit(k) \in Nat
      BY <1>1, FS_EmptySet, RateTyped
    <2>2. \A k \in Kinds : 0 + 0 <= Limit(k) + Excess
      BY <2>1
    <2> QED BY <1>4, <2>1, <2>2 DEF RoomToAdd
  <1> QED BY <1>1, <1>3, <1>5 DEF CheckInv

LEMMA CheckInvStep ==
  ASSUME CheckInv, [Next]_vars
  PROVE  CheckInv'
  <1>1. TypeOK'
    BY TypeStep DEF CheckInv
  <1> QED BY <1>1, CaptchaStep, CodeStep, RateStep DEF CheckInv

-----------------------------------------------------------------------------
(***************************************************************************)
(* Tickets: the inductive invariant DeskInv.                               *)
(***************************************************************************)
\* What a request that has read the row is going to write to the handler.
DeskIntent(s) ==
    LET change == clerk[s].change  seen == clerk[s].seen IN
    IF change.reply
    THEN /\ clerk[s].by \in Admins
         /\ change.handler # NULL => change.handler = clerk[s].by
         /\ change.handler = NULL => seen.handler = clerk[s].by
    ELSE change.handler # NULL => seen.handler = NULL

DeskIntents == \A s \in Clerks : clerk[s].seen # NULL => DeskIntent(s)

\* A reply has its ticket, and a request has it, too.
Attached ==
    /\ ticket = NULL => replier = NULL
    /\ \A s \in Clerks : clerk[s].seen # NULL => ticket # NULL

DeskInv == Desk!TypeOK /\ DeskIntents /\ Attached /\ Desk!HandlerReplied

\* What the requests that begin have in common.
DeskBeginning(s, by, change) ==
    /\ Desk!Begin(s, by, change)
    /\ by \in Admins \cup {NULL} /\ change \in Desk!Change
    /\ IF change.reply
       THEN /\ by \in Admins
            /\ change.handler # NULL => change.handler = by
            /\ change.handler = NULL => ticket.handler = by
       ELSE change.handler # NULL => ticket.handler = NULL

DeskArrives(s) ==
    \/ Desk!Update(s) \/ Desk!CloseOwn(s)
    \/ \E a \in Admins : Desk!Reply(s, a) \/ Desk!Settle(s, a) \/ Desk!Delete(s, a)

LEMMA ChangeFields ==
  ASSUME NEW to \in Desk!Statuses, NEW handler \in Admins \cup {NULL}
  PROVE  /\ Desk!Differing(to, handler) \in Desk!Change
         /\ ~Desk!Differing(to, handler).reply
         /\ Desk!Differing(to, handler).handler = IF handler # ticket.handler THEN handler ELSE NULL
  BY DEF Desk!Differing, Desk!Nothing, Desk!Change

LEMMA DeskArriveBegins ==
  ASSUME Desk!TypeOK, NEW s \in Clerks, DeskArrives(s)
  PROVE  \E by \in Admins \cup {NULL}, change \in Desk!Change : DeskBeginning(s, by, change)
  <1>1. CASE Desk!Update(s)
    <2>1. Desk!Nothing \in Desk!Change /\ ~Desk!Nothing.reply /\ Desk!Nothing.handler = NULL
      BY DEF Desk!Nothing, Desk!Change
    <2>2. DeskBeginning(s, NULL, Desk!Nothing)
      BY <1>1, <2>1 DEF Desk!Update, DeskBeginning
    <2> QED BY <2>1, <2>2
  <1>2. CASE Desk!CloseOwn(s)
    <2> DEFINE change == Desk!Differing("closed", ticket.handler)
    <2>0. ticket \in Desk!Row
      BY <1>2 DEF Desk!CloseOwn, Desk!Live, Desk!TypeOK
    <2>1. change \in Desk!Change /\ ~change.reply /\ change.handler = NULL
      BY <2>0, ChangeFields DEF Desk!Row, Desk!Statuses
    <2>2. DeskBeginning(s, NULL, change)
      BY <1>2, <2>1 DEF Desk!CloseOwn, DeskBeginning
    <2> QED BY <2>1, <2>2
  <1>3. ASSUME NEW a \in Admins, Desk!Reply(s, a)
        PROVE  \E by \in Admins \cup {NULL}, change \in Desk!Change : DeskBeginning(s, by, change)
    <2>0. ticket \in Desk!Row
      BY <1>3 DEF Desk!Reply, Desk!Live, Desk!TypeOK
    <2>1. PICK to \in Desk!Statuses \cup {NULL} :
            Desk!Begin(s, a, [Desk!Differing(IF to # NULL THEN to
                                   ELSE IF ticket.status = "open" THEN "processing" ELSE ticket.status,
                                   Desk!Handling(a)) EXCEPT !.reply = TRUE])
      BY <1>3 DEF Desk!Reply
    <2> DEFINE next == IF to # NULL THEN to
                       ELSE IF ticket.status = "open" THEN "processing" ELSE ticket.status
    <2>2. next \in Desk!Statuses
      BY <2>0 DEF Desk!Row, Desk!Statuses
    <2> DEFINE plain == Desk!Differing(next, a)
    <2>3. plain \in Desk!Change /\ plain.handler = IF a # ticket.handler THEN a ELSE NULL
      BY <2>2, ChangeFields
    <2>4. Desk!Begin(s, a, [plain EXCEPT !.reply = TRUE])
      BY <2>1 DEF Desk!Handling
    <2> HIDE DEF plain
    <2>5. /\ [plain EXCEPT !.reply = TRUE] \in Desk!Change
          /\ [plain EXCEPT !.reply = TRUE].reply
          /\ [plain EXCEPT !.reply = TRUE].handler = plain.handler
      BY <2>3 DEF Desk!Change
    <2>6. DeskBeginning(s, a, [plain EXCEPT !.reply = TRUE])
      BY <2>3, <2>4, <2>5, PortalAssumption DEF DeskBeginning
    <2> QED BY <2>5, <2>6
  <1>4. ASSUME NEW a \in Admins, Desk!Settle(s, a)
        PROVE  \E by \in Admins \cup {NULL}, change \in Desk!Change : DeskBeginning(s, by, change)
    <2>0. ticket \in Desk!Row
      BY <1>4 DEF Desk!Settle, Desk!Live, Desk!TypeOK
    <2> DEFINE handler == IF ticket.handler = NULL THEN a ELSE ticket.handler
    <2>1. PICK to \in {"resolved", "closed"} : Desk!Begin(s, a, Desk!Differing(to, handler))
      BY <1>4 DEF Desk!Settle
    <2>2. handler \in Admins \cup {NULL} /\ to \in Desk!Statuses
      BY <2>0 DEF Desk!Row, Desk!Statuses
    <2>3. /\ Desk!Differing(to, handler) \in Desk!Change /\ ~Desk!Differing(to, handler).reply
          /\ Desk!Differing(to, handler).handler # NULL => ticket.handler = NULL
      BY <2>2, ChangeFields
    <2>4. DeskBeginning(s, a, Desk!Differing(to, handler))
      BY <2>1, <2>3 DEF DeskBeginning
    <2> QED BY <2>3, <2>4
  <1>5. ASSUME NEW a \in Admins, Desk!Delete(s, a)
        PROVE  \E by \in Admins \cup {NULL}, change \in Desk!Change : DeskBeginning(s, by, change)
    <2> DEFINE change == [Desk!Nothing EXCEPT !.delete = TRUE]
    <2>1. change \in Desk!Change /\ ~change.reply /\ change.handler = NULL
      BY DEF Desk!Nothing, Desk!Change
    <2>2. DeskBeginning(s, a, change)
      BY <1>5, <2>1 DEF Desk!Delete, DeskBeginning
    <2> QED BY <2>1, <2>2
  <1> QED BY <1>1, <1>2, <1>3, <1>4, <1>5 DEF DeskArrives

-----------------------------------------------------------------------------
LEMMA DeskInit == Desk!Init => DeskInv
  <1> SUFFICES ASSUME Desk!Init PROVE DeskInv
    OBVIOUS
  <1>1. Desk!Idle \in Desk!Session /\ Desk!Idle.seen = NULL
    BY DEF Desk!Idle, Desk!Nothing, Desk!Session, Desk!Change
  <1>2. Desk!TypeOK
    BY <1>1 DEF Desk!Init, Desk!TypeOK
  <1>3. DeskIntents /\ Attached /\ Desk!HandlerReplied
    BY <1>1 DEF Desk!Init, DeskIntents, Attached, Desk!HandlerReplied
  <1> QED BY <1>2, <1>3 DEF DeskInv

LEMMA DeskBegins ==
  ASSUME DeskInv, NEW s \in Clerks, NEW by \in Admins \cup {NULL}, NEW change \in Desk!Change,
         DeskBeginning(s, by, change)
  PROVE  DeskInv'
  <1> DEFINE new == [seen |-> ticket, change |-> change, by |-> by]
  <1>1. /\ ticket # NULL /\ clerk' = [clerk EXCEPT ![s] = new]
        /\ UNCHANGED <<ticket, replier, overlapped>>
    BY DEF DeskBeginning, Desk!Begin
  <1>2. Desk!TypeOK'
    BY <1>1 DEF DeskInv, Desk!TypeOK, Desk!Session
  <1>3. DeskIntents'
    <2> SUFFICES ASSUME NEW t \in Clerks, clerk'[t].seen # NULL PROVE DeskIntent(t)'
      BY DEF DeskIntents
    <2>1. CASE t = s
      <3>1. clerk'[t] = new
        BY <1>1, <2>1 DEF DeskInv, Desk!TypeOK
      <3> QED BY <3>1 DEF DeskIntent, DeskBeginning
    <2>2. CASE t # s
      <3>1. clerk'[t] = clerk[t]
        BY <1>1, <2>2 DEF DeskInv, Desk!TypeOK
      <3> QED BY <3>1 DEF DeskIntent, DeskIntents, DeskInv
    <2> QED BY <2>1, <2>2
  <1>4. Attached' /\ Desk!HandlerReplied'
    BY <1>1 DEF DeskInv, Attached, Desk!HandlerReplied
  <1> QED BY <1>2, <1>3, <1>4 DEF DeskInv

LEMMA DeskCommits ==
  ASSUME DeskInv, NEW s \in Clerks, Desk!Commit(s)
  PROVE  DeskInv'
  <1> DEFINE change == clerk[s].change
  <1>0. /\ clerk[s] \in Desk!Session /\ clerk[s].seen # NULL
        /\ change \in Desk!Change /\ ticket \in Desk!Row /\ DeskIntent(s)
    BY DEF DeskInv, Desk!TypeOK, Desk!Commit, Desk!Free, Desk!Session, DeskIntents, Attached
  <1>1. \A t \in Clerks : clerk'[t] = clerk[t] \/ clerk'[t] = Desk!Idle
    BY DEF Desk!Commit
  <1>2. clerk' \in [Clerks -> Desk!Session]
    BY <1>1 DEF Desk!Commit, DeskInv, Desk!TypeOK, Desk!Idle, Desk!Nothing, Desk!Session, Desk!Change
  <1>3. DeskIntents'
    BY <1>1 DEF DeskIntents, DeskIntent, DeskInv, Desk!Idle
  <1>4. CASE change.delete
    <2>1. /\ ticket' = NULL /\ replier' = NULL
          /\ \A t \in Clerks : clerk'[t] = Desk!Idle
      BY <1>4 DEF Desk!Commit
    <2>2. overlapped' \in BOOLEAN
      BY DEF Desk!Commit
    <2>3. Desk!TypeOK'
      BY <1>2, <2>1, <2>2 DEF Desk!TypeOK
    <2>4. Attached' /\ Desk!HandlerReplied'
      BY <2>1 DEF Attached, Desk!HandlerReplied, Desk!Idle
    <2> QED BY <1>3, <2>3, <2>4 DEF DeskInv
  <1>5. CASE ~change.delete
    <2>1. /\ ticket' = [status  |-> IF change.status = NULL THEN ticket.status ELSE change.status,
                        handler |-> IF change.handler = NULL THEN ticket.handler ELSE change.handler]
          /\ replier' = IF change.reply THEN clerk[s].by ELSE replier
          /\ overlapped' = (overlapped \/ ticket # clerk[s].seen)
      BY <1>5 DEF Desk!Commit
    <2>2. ticket' \in Desk!Row
      BY <1>0, <2>1 DEF Desk!Row, Desk!Change
    <2>3. Desk!TypeOK'
      BY <1>0, <1>2, <2>1, <2>2 DEF Desk!TypeOK, DeskInv, Desk!Session
    <2>4. ticket' # NULL
      BY <2>2, PortalAssumption
    <2>5. Attached'
      BY <1>1, <2>4 DEF Attached, DeskInv, Desk!Idle
    <2>6. Desk!HandlerReplied'
      <3> SUFFICES ASSUME ~overlapped', replier' # NULL PROVE ticket'.handler = replier'
        BY DEF Desk!HandlerReplied
      <3>1. ~overlapped /\ ticket = clerk[s].seen /\ ticket # NULL
        BY <1>0, <2>1 DEF DeskInv, Desk!TypeOK
      <3>2. ticket'.handler = IF change.handler = NULL THEN ticket.handler ELSE change.handler
        BY <2>1
      <3>3. CASE change.reply
        BY <1>0, <2>1, <3>1, <3>2, <3>3 DEF DeskIntent
      <3>4. CASE ~change.reply
        <4>1. replier' = replier /\ ticket.handler = replier
          BY <2>1, <3>1, <3>4 DEF DeskInv, Desk!HandlerReplied
        <4>2. change.handler = NULL
          BY <1>0, <3>1, <3>4, <4>1 DEF DeskIntent
        <4> QED BY <3>2, <4>1, <4>2
      <3> QED BY <3>3, <3>4
    <2> QED BY <1>3, <2>3, <2>5, <2>6 DEF DeskInv
  <1> QED BY <1>4, <1>5

LEMMA DeskSubmits ==
  ASSUME DeskInv, NEW s \in Clerks, Desk!Submit(s)
  PROVE  DeskInv'
  <1>1. /\ ticket = NULL /\ ticket' = [status |-> "open", handler |-> NULL]
        /\ UNCHANGED <<clerk, replier, overlapped>>
    BY DEF Desk!Submit
  <1>2. ticket' \in Desk!Row
    BY <1>1 DEF Desk!Row, Desk!Statuses
  <1>3. Desk!TypeOK'
    BY <1>1, <1>2 DEF DeskInv, Desk!TypeOK
  <1>4. DeskIntents'
    BY <1>1 DEF DeskInv, DeskIntents, DeskIntent
  <1>5. Attached' /\ Desk!HandlerReplied'
    BY <1>1, <1>2 DEF DeskInv, Attached, Desk!HandlerReplied
  <1> QED BY <1>3, <1>4, <1>5 DEF DeskInv

LEMMA DeskLoses ==
  ASSUME DeskInv, NEW s \in Clerks, Desk!Lose(s)
  PROVE  DeskInv'
  <1>1. /\ clerk' = [clerk EXCEPT ![s] = Desk!Idle]
        /\ UNCHANGED <<ticket, replier, overlapped>>
    BY DEF Desk!Lose
  <1>2. Desk!Idle \in Desk!Session /\ Desk!Idle.seen = NULL
    BY DEF Desk!Idle, Desk!Nothing, Desk!Session, Desk!Change
  <1>3. Desk!TypeOK'
    BY <1>1, <1>2 DEF DeskInv, Desk!TypeOK
  <1>4. \A t \in Clerks : clerk'[t] = clerk[t] \/ clerk'[t] = Desk!Idle
    BY <1>1 DEF DeskInv, Desk!TypeOK
  <1>5. DeskIntents'
    BY <1>2, <1>4 DEF DeskInv, DeskIntents, DeskIntent
  <1>6. Attached' /\ Desk!HandlerReplied'
    BY <1>1, <1>2, <1>4 DEF DeskInv, Attached, Desk!HandlerReplied
  <1> QED BY <1>3, <1>5, <1>6 DEF DeskInv

LEMMA DeskStep == DeskInv /\ [Desk!Next]_Desk!vars => DeskInv'
  <1> SUFFICES ASSUME DeskInv, [Desk!Next]_Desk!vars PROVE DeskInv'
    OBVIOUS
  <1>1. ASSUME NEW s \in Clerks, DeskArrives(s) PROVE DeskInv'
    <2>1. PICK by \in Admins \cup {NULL}, change \in Desk!Change : DeskBeginning(s, by, change)
      BY <1>1, DeskArriveBegins DEF DeskInv
    <2> QED BY <2>1, DeskBegins
  <1>2. ASSUME NEW s \in Clerks, Desk!Commit(s) PROVE DeskInv'
    BY <1>2, DeskCommits
  <1>3. ASSUME NEW s \in Clerks, Desk!Submit(s) PROVE DeskInv'
    BY <1>3, DeskSubmits
  <1>4. ASSUME NEW s \in Clerks, Desk!Lose(s) PROVE DeskInv'
    BY <1>4, DeskLoses
  <1>5. CASE UNCHANGED Desk!vars
    BY <1>5 DEF Desk!vars, DeskInv, Desk!TypeOK, DeskIntents, DeskIntent, Attached, Desk!HandlerReplied
  <1> QED BY <1>1, <1>2, <1>3, <1>4, <1>5 DEF Desk!Next, DeskArrives

-----------------------------------------------------------------------------
(***************************************************************************)
(* Accounts: the inductive invariant AccountInv.                           *)
(***************************************************************************)
Linkers == {"register", "resend", "forgot"}
Writers == Linkers \cup {"activate", "reset", "change"}

Awarding(s) == client[s].at = "reward"

\* A link was generated for the request s, and is in nobody's hands yet.
Pending(s) == client[s].at \in {"insert", "commit"} /\ client[s].link # NULL

\* What a request knows of the row from what it read.
Prepared ==
    \A s \in Clients :
        /\ client[s].link # NULL => client[s].link \in issued
        /\ client[s].at = "mail" => client[s].link \in issued
        /\ client[s].at = "insert" => client[s].new \in Acct!Row /\ client[s].new.link = client[s].link
        /\ client[s].at = "commit" =>
              /\ row # NULL /\ client[s].seen \in Acct!Row
              /\ client[s].op \in Writers
              /\ client[s].op \in Linkers => client[s].link \in Links
              /\ client[s].op = "activate" => ~client[s].seen.verified
              /\ client[s].op = "reset" => client[s].seen.link \in Links

\* The row is of an active account that somebody has invited.
Deserved == row # NULL /\ row.verified /\ row.invited

RewardDue ==
    /\ rewards \in {0, 1}
    /\ rewards = 1 => Deserved
    /\ \A s \in Clients : Awarding(s) => rewards = 0 /\ Deserved
    /\ \A s, t \in Clients : Awarding(s) /\ Awarding(t) => s = t
    /\ Deserved => rewards = 1 \/ unrewarded \/ \E s \in Clients : Awarding(s)

LinksUnused ==
    /\ \A l \in Links : resets[l] <= 1 /\ (l \notin issued => resets[l] = 0)
    /\ row # NULL /\ row.link # NULL => row.link \in issued /\ resets[row.link] = 0
    /\ \A s \in Clients : Pending(s) => /\ resets[client[s].link] = 0
                                        /\ row # NULL => row.link # client[s].link
    /\ \A s, t \in Clients : Pending(s) /\ Pending(t) /\ client[s].link = client[t].link => s = t

AccountInv ==
    /\ Acct!TypeOK
    /\ Prepared
    /\ ~outdated => RewardDue /\ LinksUnused

-----------------------------------------------------------------------------
LEMMA AccountInit == Acct!Init => AccountInv
  <1> SUFFICES ASSUME Acct!Init PROVE AccountInv
    OBVIOUS
  <1>1. /\ Acct!Idle \in Acct!Session /\ Acct!Idle.at = "idle" /\ Acct!Idle.link = NULL
        /\ \A s \in Clients : client[s] = Acct!Idle
    BY DEF Acct!Init, Acct!Idle, Acct!Session, Acct!Steps
  <1>2. Acct!TypeOK
    BY <1>1 DEF Acct!Init, Acct!TypeOK
  <1>3. Prepared /\ RewardDue /\ LinksUnused
    BY <1>1 DEF Acct!Init, Prepared, RewardDue, LinksUnused, Awarding, Pending, Deserved
  <1> QED BY <1>2, <1>3 DEF AccountInv

\* What the requests that begin have in common.
Starting(s, op, step, new, link, password) ==
    /\ Acct!Begin(s, op, step, new, link, password)
    /\ op \in Acct!Ops /\ step \in {"insert", "commit"}
    /\ new \in Acct!Row \cup {NULL} /\ password \in Passwords \cup {NULL}
    /\ link = NULL \/ Acct!New(link)
    /\ step = "insert" => new \in Acct!Row /\ new.link = link
    /\ step = "commit" =>
          /\ row # NULL /\ op \in Writers
          /\ op \in Linkers => link # NULL
          /\ op = "activate" => ~row.verified
          /\ op = "reset" => row.link \in Links

Registering(s) ==
    \/ Acct!Register(s) \/ Acct!LoginWithCode(s) \/ Acct!CreateUser(s) \/ Acct!Resend(s)
    \/ Acct!Forgot(s) \/ Acct!Activate(s) \/ Acct!Reset(s) \/ Acct!Change(s)

LEMMA AccountRow ==
  ASSUME NEW verified \in BOOLEAN, NEW link \in Links \cup {NULL},
         NEW password \in Passwords \cup {NULL}, NEW invited \in BOOLEAN
  PROVE  /\ Acct!Account(verified, link, password, invited) \in Acct!Row
         /\ Acct!Account(verified, link, password, invited).link = link
  BY DEF Acct!Account, Acct!Row

LEMMA RegisteringStarts ==
  ASSUME Acct!TypeOK, NEW s \in Clients, Registering(s)
  PROVE  \E op, step, new, link, password : Starting(s, op, step, new, link, password)
  <1>0. NULL \notin Links /\ row \in Acct!Row \cup {NULL} /\ (row # NULL => row \in Acct!Row)
    BY PortalAssumption DEF Acct!TypeOK
  <1>1. CASE Acct!Register(s)
    <2>1. PICK p \in Passwords :
            \/ \E l \in Links, invited \in BOOLEAN :
                  /\ Acct!New(l)
                  /\ Acct!Begin(s, "register", "insert", Acct!Account(FALSE, l, p, invited), l, p)
            \/ \E invited \in BOOLEAN :
                  Acct!Begin(s, "register", "insert", Acct!Account(TRUE, NULL, p, invited), NULL, p)
            \/ /\ Acct!MayRegister
               /\ \E l \in Links : Acct!New(l) /\ Acct!Begin(s, "register", "commit", NULL, l, p)
      BY <1>1 DEF Acct!Register
    <2>2. ASSUME NEW l \in Links, NEW invited \in BOOLEAN, Acct!New(l),
                 Acct!Begin(s, "register", "insert", Acct!Account(FALSE, l, p, invited), l, p)
          PROVE  Starting(s, "register", "insert", Acct!Account(FALSE, l, p, invited), l, p)
      BY <2>2, AccountRow DEF Starting, Acct!Ops
    <2>3. ASSUME NEW invited \in BOOLEAN,
                 Acct!Begin(s, "register", "insert", Acct!Account(TRUE, NULL, p, invited), NULL, p)
          PROVE  Starting(s, "register", "insert", Acct!Account(TRUE, NULL, p, invited), NULL, p)
      BY <2>3, AccountRow DEF Starting, Acct!Ops
    <2>4. ASSUME Acct!MayRegister, NEW l \in Links, Acct!New(l),
                 Acct!Begin(s, "register", "commit", NULL, l, p)
          PROVE  Starting(s, "register", "commit", NULL, l, p)
      BY <1>0, <2>4 DEF Starting, Acct!Ops, Acct!MayRegister, Acct!Exists, Writers, Linkers
    <2> QED BY <2>1, <2>2, <2>3, <2>4
  <1>2. CASE Acct!LoginWithCode(s) \/ Acct!CreateUser(s)
    <2>1. CASE Acct!LoginWithCode(s)
      <3>1. Starting(s, "code", "insert", Acct!Account(FALSE, NULL, NULL, FALSE), NULL, NULL)
        BY <2>1, AccountRow DEF Acct!LoginWithCode, Starting, Acct!Ops
      <3> QED BY <3>1
    <2>2. ASSUME NEW p \in Passwords,
                 Acct!Begin(s, "create", "insert", Acct!Account(TRUE, NULL, p, FALSE), NULL, p)
          PROVE  Starting(s, "create", "insert", Acct!Account(TRUE, NULL, p, FALSE), NULL, p)
      BY <2>2, AccountRow DEF Starting, Acct!Ops
    <2> QED BY <1>2, <2>1, <2>2 DEF Acct!CreateUser
  <1>3. ASSUME NEW op \in {"resend", "forgot"}, NEW l \in Links, row # NULL, Acct!New(l),
               Acct!Begin(s, op, "commit", NULL, l, NULL)
        PROVE  Starting(s, op, "commit", NULL, l, NULL)
    BY <1>0, <1>3 DEF Starting, Acct!Ops, Writers, Linkers
  <1>4. CASE Acct!Resend(s) \/ Acct!Forgot(s)
    BY <1>3, <1>4 DEF Acct!Resend, Acct!Forgot, Acct!Exists
  <1>5. CASE Acct!Activate(s)
    <2>1. Starting(s, "activate", "commit", NULL, NULL, NULL)
      BY <1>5 DEF Acct!Activate, Acct!Holds, Acct!Exists, Starting, Acct!Ops, Writers, Linkers
    <2> QED BY <2>1
  <1>6. CASE Acct!Reset(s)
    <2>1. PICK p \in Passwords :
            /\ row # NULL /\ row.link \in Links
            /\ Acct!Begin(s, "reset", "commit", NULL, NULL, IF row.fresh THEN p ELSE NULL)
      BY <1>6 DEF Acct!Reset, Acct!Holds, Acct!Exists
    <2>2. Starting(s, "reset", "commit", NULL, NULL, IF row.fresh THEN p ELSE NULL)
      BY <2>1 DEF Starting, Acct!Ops, Writers, Linkers
    <2> QED BY <2>2
  <1>7. CASE Acct!Change(s)
    <2>1. PICK p \in Passwords : row # NULL /\ Acct!Begin(s, "change", "commit", NULL, NULL, p)
      BY <1>7 DEF Acct!Change, Acct!Exists
    <2>2. Starting(s, "change", "commit", NULL, NULL, p)
      BY <2>1 DEF Starting, Acct!Ops, Writers, Linkers
    <2> QED BY <2>2
  <1> QED BY <1>1, <1>2, <1>4, <1>5, <1>6, <1>7 DEF Registering

LEMMA StartingInv ==
  ASSUME AccountInv, NEW s \in Clients, NEW op, NEW step, NEW new, NEW link, NEW password,
         Starting(s, op, step, new, link, password)
  PROVE  AccountInv'
  <1> DEFINE w == [op |-> op, at |-> step, seen |-> row, new |-> new, link |-> link, password |-> password]
  <1>0. /\ Acct!TypeOK /\ client \in [Clients -> Acct!Session] /\ NULL \notin Links
        /\ link \in Links \cup {NULL} /\ (link # NULL => link \in Links \ issued)
        /\ row # NULL => row \in Acct!Row
    BY PortalAssumption DEF AccountInv, Acct!TypeOK, Starting, Acct!New
  <1>1. /\ client[s].at = "idle" /\ client' = [client EXCEPT ![s] = w]
        /\ issued' = issued \cup ({link} \ {NULL})
        /\ UNCHANGED <<row, mailbox, rewards, resets, unrewarded, outdated>>
    BY DEF Starting, Acct!Begin
  <1>2. w \in Acct!Session /\ w.at \in {"insert", "commit"}
    BY <1>0 DEF Starting, Acct!Session, Acct!Steps, Acct!TypeOK
  <1>3. client'[s] = w /\ \A t \in Clients \ {s} : client'[t] = client[t]
    BY <1>0, <1>1
  <1>4. issued \subseteq issued' /\ issued' \subseteq Links /\ (link # NULL => link \in issued')
    BY <1>0, <1>1 DEF Acct!TypeOK
  <1>5. Acct!TypeOK'
    <2>1. client' \in [Clients -> Acct!Session]
      BY <1>0, <1>1, <1>2
    <2> QED BY <1>0, <1>1, <1>4, <2>1 DEF Acct!TypeOK
  <1>6. Prepared'
    <2>1. ASSUME NEW t \in Clients \ {s}
          PROVE  /\ client'[t].link # NULL => client'[t].link \in issued'
                 /\ client'[t].at = "mail" => client'[t].link \in issued'
                 /\ client'[t].at = "insert" =>
                       client'[t].new \in Acct!Row /\ client'[t].new.link = client'[t].link
                 /\ client'[t].at = "commit" =>
                       /\ row' # NULL /\ client'[t].seen \in Acct!Row
                       /\ client'[t].op \in Writers
                       /\ client'[t].op \in Linkers => client'[t].link \in Links
                       /\ client'[t].op = "activate" => ~client'[t].seen.verified
                       /\ client'[t].op = "reset" => client'[t].seen.link \in Links
      BY <1>1, <1>3, <1>4 DEF AccountInv, Prepared
    <2>2. /\ w.link # NULL => w.link \in issued'
          /\ w.at # "mail"
          /\ w.at = "insert" => w.new \in Acct!Row /\ w.new.link = w.link
          /\ w.at = "commit" =>
                /\ row' # NULL /\ w.seen \in Acct!Row
                /\ w.op \in Writers
                /\ w.op \in Linkers => w.link \in Links
                /\ w.op = "activate" => ~w.seen.verified
                /\ w.op = "reset" => w.seen.link \in Links
      BY <1>0, <1>1, <1>4 DEF Starting
    <2> HIDE DEF w
    <2> QED BY <1>3, <2>1, <2>2 DEF Prepared
  <1>7. ~outdated => RewardDue'
    <2>1. \A t \in Clients : Awarding(t)' <=> Awarding(t)
      BY <1>1, <1>2, <1>3 DEF Awarding
    <2> QED BY <1>1, <2>1 DEF AccountInv, RewardDue, Deserved
  <1>8. ASSUME ~outdated PROVE LinksUnused'
    <2>0. LinksUnused /\ Prepared
      BY <1>8 DEF AccountInv
    <2>1. ASSUME NEW t \in Clients \ {s}
          PROVE  /\ Pending(t)' <=> Pending(t)
                 /\ Pending(t) => client'[t].link = client[t].link /\ client[t].link \in issued
      BY <1>3, <2>0 DEF Pending, Prepared
    <2>2. client'[s].link = link /\ (Pending(s)' => link \in Links \ issued)
      BY <1>0, <1>3 DEF Pending
    <2>3. \A l \in Links \ issued : resets'[l] = 0
      BY <1>1, <2>0 DEF LinksUnused
    <2>4. row # NULL /\ row.link # NULL => row.link \in issued
      BY <2>0 DEF LinksUnused
    <2>5. \A l \in Links : resets'[l] <= 1 /\ (l \notin issued' => resets'[l] = 0)
      BY <1>1, <1>4, <2>0 DEF LinksUnused
    <2>6. row' # NULL /\ row'.link # NULL => row'.link \in issued' /\ resets'[row'.link] = 0
      BY <1>1, <1>4, <2>0 DEF LinksUnused
    <2>7. ASSUME NEW t \in Clients, Pending(t)'
          PROVE  resets'[client'[t].link] = 0 /\ (row' # NULL => row'.link # client'[t].link)
      <3>1. CASE t = s
        BY <1>0, <1>1, <2>2, <2>3, <2>4, <2>7, <3>1
      <3>2. CASE t # s
        BY <1>1, <2>0, <2>1, <2>7, <3>2 DEF LinksUnused
      <3> QED BY <3>1, <3>2
    <2>8. ASSUME NEW t \in Clients, NEW u \in Clients, Pending(t)', Pending(u)',
                 client'[t].link = client'[u].link
          PROVE  t = u
      BY <2>0, <2>1, <2>2, <2>8 DEF LinksUnused
    <2> QED BY <2>5, <2>6, <2>7, <2>8 DEF LinksUnused
  <1> QED BY <1>1, <1>5, <1>6, <1>7, <1>8 DEF AccountInv

LEMMA WrittenRow ==
  ASSUME NEW w \in Acct!Session, w.op \in Writers, NEW r \in Acct!Row,
         w.op \in Linkers => w.link \in Links
  PROVE  /\ Acct!Written(w, r) \in Acct!Row
         /\ Acct!Written(w, r).invited = r.invited
         /\ Acct!Written(w, r).verified = (r.verified \/ w.op = "activate")
         /\ Acct!Written(w, r).link = IF w.op \in Linkers THEN w.link
                                      ELSE IF w.op = "change" THEN r.link ELSE NULL
  <1>1. CASE w.op = "register"
    BY <1>1 DEF Acct!Written, Acct!Linked, Acct!Row, Acct!Session, Linkers
  <1>2. CASE w.op = "resend"
    BY <1>2 DEF Acct!Written, Acct!Linked, Acct!Row, Acct!Session, Linkers
  <1>3. CASE w.op = "forgot"
    BY <1>3 DEF Acct!Written, Acct!Linked, Acct!Row, Acct!Session, Linkers
  <1>4. CASE w.op = "activate"
    BY <1>4 DEF Acct!Written, Acct!Activated, Acct!Spent, Acct!Row, Acct!Session, Linkers
  <1>5. CASE w.op = "reset"
    BY <1>5 DEF Acct!Written, Acct!Spent, Acct!Row, Acct!Session, Linkers
  <1>6. CASE w.op = "change"
    BY <1>6 DEF Acct!Written, Acct!Row, Acct!Session, Linkers
  <1> QED BY <1>1, <1>2, <1>3, <1>4, <1>5, <1>6 DEF Writers, Linkers

\* A request that has written or read what it had to holds no link that it may
\* still write; w is what it does from now on.
LEMMA MovedOn ==
  ASSUME Prepared, client \in [Clients -> Acct!Session], NEW s \in Clients,
         NEW w \in Acct!Session, client' = [client EXCEPT ![s] = w],
         w.at \in {"idle", "reward", "mail"},
         w.link # NULL \/ w.at = "mail" => w.link \in issued,
         issued' = issued, row # NULL => row' # NULL
  PROVE  /\ client' \in [Clients -> Acct!Session] /\ Prepared'
         /\ \A t \in Clients : Awarding(t)' <=> IF t = s THEN w.at = "reward" ELSE Awarding(t)
         /\ \A t \in Clients : (Pending(t)' <=> (t # s /\ Pending(t)))
                               /\ (Pending(t)' => client'[t].link = client[t].link)
  <1>2. client'[s] = w /\ \A t \in Clients \ {s} : client'[t] = client[t]
    OBVIOUS
  <1>3. Prepared'
    <2>1. ASSUME NEW t \in Clients \ {s}
          PROVE  /\ client'[t].link # NULL => client'[t].link \in issued'
                 /\ client'[t].at = "mail" => client'[t].link \in issued'
                 /\ client'[t].at = "insert" =>
                       client'[t].new \in Acct!Row /\ client'[t].new.link = client'[t].link
                 /\ client'[t].at = "commit" =>
                       /\ row' # NULL /\ client'[t].seen \in Acct!Row
                       /\ client'[t].op \in Writers
                       /\ client'[t].op \in Linkers => client'[t].link \in Links
                       /\ client'[t].op = "activate" => ~client'[t].seen.verified
                       /\ client'[t].op = "reset" => client'[t].seen.link \in Links
      BY <1>2 DEF Prepared
    <2> QED BY <1>2, <2>1 DEF Prepared
  <1>4. client' \in [Clients -> Acct!Session]
    OBVIOUS
  <1>5. \A t \in Clients : Awarding(t)' <=> IF t = s THEN w.at = "reward" ELSE Awarding(t)
    BY <1>2 DEF Awarding
  <1>6. \A t \in Clients : (Pending(t)' <=> (t # s /\ Pending(t)))
                           /\ (Pending(t)' => client'[t].link = client[t].link)
    BY <1>2 DEF Pending
  <1> QED BY <1>3, <1>4, <1>5, <1>6

LEMMA IdleSession ==
  Acct!Idle \in Acct!Session /\ Acct!Idle.at = "idle" /\ Acct!Idle.link = NULL
  BY DEF Acct!Idle, Acct!Session, Acct!Steps

LEMMA CommitInv ==
  ASSUME AccountInv, NEW s \in Clients, Acct!Commit(s)
  PROVE  AccountInv'
  <1> DEFINE w == client[s]
             next == IF w.op \in Linkers THEN [w EXCEPT !.at = "mail"]
                     ELSE IF w.op = "activate" /\ w.seen.invited THEN [w EXCEPT !.at = "reward"]
                     ELSE Acct!Idle
  <1>0. /\ Acct!TypeOK /\ Prepared /\ NULL \notin Links /\ NULL \notin Acct!Row
        /\ client \in [Clients -> Acct!Session] /\ w \in Acct!Session /\ row \in Acct!Row
    BY PortalAssumption DEF AccountInv, Acct!TypeOK, Prepared, Acct!Commit
  <1>1. /\ w.at = "commit" /\ w.seen \in Acct!Row /\ w.op \in Writers
        /\ w.op \in Linkers => w.link \in Links
        /\ w.link # NULL => w.link \in issued
        /\ w.op = "activate" => ~w.seen.verified
        /\ w.op = "reset" => w.seen.link \in Links
    BY <1>0 DEF Prepared, Acct!Commit
  <1>2. /\ row' = Acct!Written(w, row) /\ outdated' = (outdated \/ row # w.seen)
        /\ resets' = IF w.op = "reset" /\ w.password # NULL
                     THEN [resets EXCEPT ![w.seen.link] = @ + 1] ELSE resets
        /\ UNCHANGED <<mailbox, rewards, issued, unrewarded>>
    BY DEF Acct!Commit
  <1>3. client' = [client EXCEPT ![s] = next]
    BY <1>0 DEF Acct!Commit, Acct!Goto, Acct!Finish, Linkers
  <1>4. /\ row' \in Acct!Row /\ row' # NULL /\ row'.invited = row.invited
        /\ row'.verified = (row.verified \/ w.op = "activate")
        /\ row'.link = IF w.op \in Linkers THEN w.link
                       ELSE IF w.op = "change" THEN row.link ELSE NULL
    BY <1>0, <1>1, <1>2, WrittenRow
  <1>5. /\ next \in Acct!Session /\ next.at \in {"idle", "reward", "mail"}
        /\ next.link # NULL \/ next.at = "mail" => next.link \in issued
        /\ next.at = "reward" <=> (w.op = "activate" /\ w.seen.invited)
    <2>1. CASE w.op \in Linkers
      BY <1>0, <1>1, <2>1 DEF Acct!Session, Acct!Steps, Linkers
    <2>2. CASE w.op \notin Linkers /\ w.op = "activate" /\ w.seen.invited
      BY <1>0, <1>1, <2>2 DEF Acct!Session, Acct!Steps, Linkers
    <2>3. CASE w.op \notin Linkers /\ ~(w.op = "activate" /\ w.seen.invited)
      BY <2>3, IdleSession
    <2> QED BY <2>1, <2>2, <2>3
  <1> HIDE DEF next
  <1>6. /\ client' \in [Clients -> Acct!Session] /\ Prepared'
        /\ \A t \in Clients : Awarding(t)' <=> IF t = s THEN next.at = "reward" ELSE Awarding(t)
        /\ \A t \in Clients : (Pending(t)' <=> (t # s /\ Pending(t)))
                              /\ (Pending(t)' => client'[t].link = client[t].link)
    BY <1>0, <1>2, <1>3, <1>4, <1>5, MovedOn
  <1>7. resets' \in [Links -> Nat]
    BY <1>0, <1>1, <1>2 DEF Acct!TypeOK
  <1>8. Acct!TypeOK'
    BY <1>0, <1>2, <1>4, <1>6, <1>7 DEF Acct!TypeOK
  <1>9. ASSUME ~outdated' PROVE RewardDue' /\ LinksUnused'
    <2>0. ~outdated /\ row = w.seen /\ RewardDue /\ LinksUnused
      BY <1>0, <1>2, <1>9 DEF AccountInv, Acct!TypeOK
    <2>1. RewardDue'
      <3>1. CASE w.op = "activate"
        <4>1. ~Deserved /\ rewards = 0 /\ \A t \in Clients : ~Awarding(t)
          BY <1>1, <2>0, <3>1 DEF RewardDue, Deserved
        <4>2. Deserved' <=> row.invited
          BY <1>0, <1>4, <3>1 DEF Deserved, Acct!Row
        <4>3. \A t \in Clients : Awarding(t)' <=> t = s /\ row.invited
          BY <1>5, <1>6, <2>0, <3>1, <4>1
        <4> QED BY <1>2, <4>1, <4>2, <4>3 DEF RewardDue
      <3>2. CASE w.op # "activate"
        <4>1. Deserved' <=> Deserved
          BY <1>0, <1>4, <3>2 DEF Deserved, Acct!Row
        <4>2. \A t \in Clients : Awarding(t)' <=> Awarding(t)
          BY <1>1, <1>5, <1>6, <3>2 DEF Awarding
        <4> QED BY <1>2, <2>0, <4>1, <4>2 DEF RewardDue
      <3> QED BY <3>1, <3>2
    <2>2. LinksUnused'
      <3>1. Pending(s) <=> w.link # NULL
        BY <1>1 DEF Pending
      <3>2. \A l \in Links : resets'[l] = resets[l] \/ (l = row.link /\ w.op = "reset" /\ resets[l] = 0
                                                        /\ resets'[l] = 1)
        <4>1. w.op = "reset" => row.link \in Links /\ resets[row.link] = 0
          BY <1>0, <1>1, <2>0 DEF LinksUnused
        <4> QED BY <1>0, <1>2, <2>0, <4>1 DEF Acct!TypeOK
      <3>3. \A l \in Links : resets'[l] <= 1 /\ (l \notin issued' => resets'[l] = 0)
        <4>1. w.op = "reset" => row.link \in issued
          BY <1>0, <1>1, <2>0 DEF LinksUnused
        <4> QED BY <1>2, <2>0, <3>2, <4>1 DEF LinksUnused
      <3>4. row'.link # NULL => row'.link \in issued' /\ resets'[row'.link] = 0
        <4>1. CASE w.op \in Linkers
          <5>1. row'.link = w.link /\ w.link \in Links /\ w.link \in issued /\ resets[w.link] = 0
            BY <1>0, <1>1, <1>4, <2>0, <3>1, <4>1 DEF LinksUnused
          <5>2. w.op # "reset"
            BY <4>1 DEF Linkers
          <5> QED BY <1>2, <3>2, <5>1, <5>2
        <4>2. CASE w.op = "change"
          <5>1. row'.link = row.link
            BY <1>4, <4>2 DEF Linkers
          <5> QED BY <1>0, <1>2, <2>0, <4>2, <5>1 DEF LinksUnused
        <4> QED BY <1>4, <4>1, <4>2
      <3>5. ASSUME NEW t \in Clients, Pending(t)'
            PROVE  resets'[client'[t].link] = 0 /\ row'.link # client'[t].link
        <4> DEFINE l == client[t].link
        <4>1. /\ t # s /\ Pending(t) /\ client'[t].link = l
              /\ l # NULL /\ l \in Links /\ resets[l] = 0 /\ row.link # l
          BY <1>0, <1>6, <2>0, <3>5 DEF Pending, LinksUnused, Acct!TypeOK, Acct!Session
        <4>2. w.link # NULL => w.link # l
          BY <2>0, <3>1, <4>1 DEF LinksUnused
        <4>3. resets'[l] = 0
          BY <3>2, <4>1
        <4> QED BY <1>1, <1>4, <4>1, <4>2, <4>3
      <3>6. ASSUME NEW t \in Clients, NEW u \in Clients, Pending(t)', Pending(u)',
                   client'[t].link = client'[u].link
            PROVE  t = u
        BY <1>6, <2>0, <3>6 DEF LinksUnused
      <3> QED BY <3>3, <3>4, <3>5, <3>6 DEF LinksUnused
    <2> QED BY <2>1, <2>2
  <1> QED BY <1>6, <1>8, <1>9 DEF AccountInv

LEMMA InsertInv ==
  ASSUME AccountInv, NEW s \in Clients, Acct!Insert(s)
  PROVE  AccountInv'
  <1> DEFINE w == client[s]
             next == IF row = NULL /\ w.link # NULL THEN [w EXCEPT !.at = "mail"] ELSE Acct!Idle
  <1>0. /\ Acct!TypeOK /\ Prepared /\ NULL \notin Links /\ NULL \notin Acct!Row
        /\ client \in [Clients -> Acct!Session] /\ w \in Acct!Session
    BY PortalAssumption DEF AccountInv, Acct!TypeOK
  <1>1. /\ w.at = "insert" /\ w.new \in Acct!Row /\ w.new.link = w.link
        /\ w.link # NULL => w.link \in issued
    BY <1>0 DEF Prepared, Acct!Insert
  <1>2. /\ row' = IF row = NULL THEN w.new ELSE row
        /\ unrewarded' = IF row = NULL THEN w.new.verified /\ w.new.invited ELSE unrewarded
        /\ UNCHANGED <<mailbox, rewards, issued, resets, outdated>>
    BY DEF Acct!Insert, Acct!Exists
  <1>3. client' = [client EXCEPT ![s] = next]
    BY <1>0 DEF Acct!Insert, Acct!Exists, Acct!Goto, Acct!Finish
  <1>4. /\ next \in Acct!Session /\ next.at \in {"idle", "mail"}
        /\ next.link # NULL \/ next.at = "mail" => next.link \in issued
    <2>1. CASE row = NULL /\ w.link # NULL
      BY <1>0, <1>1, <2>1 DEF Acct!Session, Acct!Steps
    <2>2. CASE ~(row = NULL /\ w.link # NULL)
      BY <2>2, IdleSession
    <2> QED BY <2>1, <2>2
  <1> HIDE DEF next
  <1>5. /\ client' \in [Clients -> Acct!Session] /\ Prepared'
        /\ \A t \in Clients : Awarding(t)' <=> IF t = s THEN next.at = "reward" ELSE Awarding(t)
        /\ \A t \in Clients : (Pending(t)' <=> (t # s /\ Pending(t)))
                              /\ (Pending(t)' => client'[t].link = client[t].link)
    BY <1>0, <1>2, <1>3, <1>4, MovedOn
  <1>6. row' \in Acct!Row /\ unrewarded' \in BOOLEAN
    BY <1>0, <1>1, <1>2 DEF Acct!TypeOK, Acct!Row
  <1>7. Acct!TypeOK'
    BY <1>0, <1>2, <1>5, <1>6 DEF Acct!TypeOK
  <1>8. \A t \in Clients : Awarding(t)' <=> Awarding(t)
    BY <1>1, <1>4, <1>5 DEF Awarding
  <1>9. ASSUME ~outdated' PROVE RewardDue' /\ LinksUnused'
    <2>0. RewardDue /\ LinksUnused
      BY <1>2, <1>9 DEF AccountInv
    <2>1. RewardDue'
      <3>1. CASE row = NULL
        <4>1. rewards = 0 /\ \A t \in Clients : ~Awarding(t)
          BY <2>0, <3>1 DEF RewardDue, Deserved
        <4>2. Deserved' => unrewarded'
          BY <1>2, <3>1 DEF Deserved
        <4> QED BY <1>2, <1>8, <4>1, <4>2 DEF RewardDue
      <3>2. CASE row # NULL
        BY <1>2, <1>8, <2>0, <3>2 DEF RewardDue, Deserved
      <3> QED BY <3>1, <3>2
    <2>2. Pending(s) <=> w.link # NULL
      BY <1>1 DEF Pending
    <2>3. row'.link # NULL => row'.link \in issued' /\ resets'[row'.link] = 0
      <3>1. CASE row = NULL
        BY <1>1, <1>2, <2>0, <2>2, <3>1 DEF LinksUnused
      <3>2. CASE row # NULL
        BY <1>2, <2>0, <3>2 DEF LinksUnused
      <3> QED BY <3>1, <3>2
    <2>4. ASSUME NEW t \in Clients, Pending(t)'
          PROVE  resets'[client'[t].link] = 0 /\ row'.link # client'[t].link
      <3>1. t # s /\ Pending(t) /\ client'[t].link = client[t].link /\ client[t].link # NULL
        BY <1>5, <2>4 DEF Pending
      <3>2. CASE row = NULL
        <4>1. w.link # client[t].link
          BY <2>0, <2>2, <3>1 DEF LinksUnused
        <4> QED BY <1>1, <1>2, <2>0, <3>1, <3>2, <4>1 DEF LinksUnused
      <3>3. CASE row # NULL
        BY <1>2, <2>0, <3>1, <3>3 DEF LinksUnused
      <3> QED BY <3>2, <3>3
    <2>5. ASSUME NEW t \in Clients, NEW u \in Clients, Pending(t)', Pending(u)',
                 client'[t].link = client'[u].link
          PROVE  t = u
      BY <1>5, <2>0, <2>5 DEF LinksUnused
    <2>6. \A l \in Links : resets'[l] <= 1 /\ (l \notin issued' => resets'[l] = 0)
      BY <1>2, <2>0 DEF LinksUnused
    <2> QED BY <2>1, <2>3, <2>4, <2>5, <2>6 DEF LinksUnused
  <1> QED BY <1>5, <1>7, <1>9 DEF AccountInv

\* The requests that end without writing the row.
LEMMA EndInv ==
  ASSUME AccountInv, NEW s \in Clients, Acct!Reward(s) \/ Acct!Mail(s) \/ Acct!Lose(s)
  PROVE  AccountInv'
  <1>0. /\ Acct!TypeOK /\ Prepared /\ client \in [Clients -> Acct!Session]
        /\ rewards \in Nat /\ mailbox \subseteq issued /\ unrewarded \in BOOLEAN
    BY DEF AccountInv, Acct!TypeOK
  <1>1. client' = [client EXCEPT ![s] = Acct!Idle] /\ UNCHANGED <<row, issued, resets, outdated>>
    BY DEF Acct!Reward, Acct!Mail, Acct!Lose, Acct!Finish
  <1>2. /\ client' \in [Clients -> Acct!Session] /\ Prepared'
        /\ \A t \in Clients : Awarding(t)' <=> (t # s /\ Awarding(t))
        /\ \A t \in Clients : (Pending(t)' <=> (t # s /\ Pending(t)))
                              /\ (Pending(t)' => client'[t].link = client[t].link)
    BY <1>0, <1>1, IdleSession, MovedOn
  <1>3. \/ ~Awarding(s) /\ UNCHANGED <<rewards, unrewarded>>
        \/ Awarding(s) /\ unrewarded' = TRUE /\ rewards' = rewards
        \/ Awarding(s) /\ unrewarded' = unrewarded /\ rewards' = rewards + 1
    <2>1. CASE Acct!Reward(s)
      BY <2>1 DEF Acct!Reward, Awarding
    <2>2. CASE Acct!Mail(s)
      BY <2>2 DEF Acct!Mail, Awarding
    <2>3. CASE Acct!Lose(s)
      <3>1. unrewarded' = (unrewarded \/ Awarding(s)) /\ rewards' = rewards
        BY <2>3 DEF Acct!Lose, Awarding
      <3> QED BY <1>0, <3>1
    <2> QED BY <2>1, <2>2, <2>3
  <1>4. mailbox' \subseteq issued'
    <2>1. CASE Acct!Mail(s)
      BY <1>0, <2>1 DEF Acct!Mail, Prepared
    <2>2. CASE Acct!Reward(s) \/ Acct!Lose(s)
      BY <1>0, <2>2 DEF Acct!Reward, Acct!Lose
    <2> QED BY <2>1, <2>2
  <1>5. rewards' \in Nat /\ unrewarded' \in BOOLEAN
    <2>1. rewards' \in Nat
      BY <1>0, <1>3
    <2>2. unrewarded' = unrewarded \/ unrewarded' = TRUE
      BY <1>3
    <2> QED BY <1>0, <2>1, <2>2
  <1>6. Acct!TypeOK'
    BY <1>0, <1>1, <1>2, <1>4, <1>5 DEF Acct!TypeOK
  <1>7. ASSUME ~outdated' PROVE RewardDue' /\ LinksUnused'
    <2>0. RewardDue /\ LinksUnused
      BY <1>1, <1>7 DEF AccountInv
    <2>1. LinksUnused'
      BY <1>1, <1>2, <2>0 DEF LinksUnused
    <2>2. Deserved' <=> Deserved
      BY <1>1 DEF Deserved
    <2>3. ASSUME Awarding(s)
          PROVE  rewards = 0 /\ Deserved /\ \A t \in Clients : ~Awarding(t)'
      BY <1>2, <2>0, <2>3 DEF RewardDue
    <2>4. rewards' \in {0, 1} /\ (rewards' = 1 => Deserved')
      <3>1. rewards \in {0, 1} /\ (rewards = 1 => Deserved)
        BY <2>0 DEF RewardDue
      <3>2. rewards' = rewards \/ (Awarding(s) /\ rewards' = rewards + 1)
        BY <1>3
      <3> QED BY <2>2, <2>3, <3>1, <3>2
    <2>5. ASSUME NEW t \in Clients, Awarding(t)' PROVE rewards' = 0 /\ Deserved'
      <3>1. ~Awarding(s) /\ rewards' = rewards
        BY <1>3, <2>3, <2>5
      <3>2. Awarding(t)
        BY <1>2, <2>5
      <3>3. rewards = 0 /\ Deserved
        BY <2>0, <3>2 DEF RewardDue
      <3> QED BY <2>2, <3>1, <3>3
    <2>6. ASSUME NEW t \in Clients, NEW u \in Clients, Awarding(t)', Awarding(u)' PROVE t = u
      BY <1>2, <2>0, <2>6 DEF RewardDue
    <2>7. ASSUME Deserved' PROVE rewards' = 1 \/ unrewarded' \/ \E t \in Clients : Awarding(t)'
      <3>1. CASE ~Awarding(s) /\ rewards' = rewards /\ unrewarded' = unrewarded
        <4>1. CASE rewards = 1
          BY <3>1, <4>1
        <4>2. CASE unrewarded
          BY <3>1, <4>2, Zenon
        <4>3. CASE \E t \in Clients : Awarding(t)
          BY <1>2, <3>1, <4>3
        <4>4. rewards = 1 \/ unrewarded \/ \E t \in Clients : Awarding(t)
          BY <2>0, <2>2, <2>7 DEF RewardDue
        <4> QED BY <4>1, <4>2, <4>3, <4>4
      <3>2. CASE unrewarded' = TRUE
        BY <3>2
      <3>3. CASE Awarding(s) /\ rewards' = rewards + 1
        BY <2>3, <3>3
      <3> QED BY <1>3, <3>1, <3>2, <3>3
    <2>8. RewardDue'
      BY <2>4, <2>5, <2>6, <2>7 DEF RewardDue
    <2> QED BY <2>1, <2>8
  <1> QED BY <1>2, <1>6, <1>7 DEF AccountInv

LEMMA ExpireInv ==
  ASSUME AccountInv, Acct!Expire
  PROVE  AccountInv'
  <1>0. /\ Acct!TypeOK /\ Prepared /\ NULL \notin Acct!Row /\ row \in Acct!Row /\ row # NULL
        /\ client \in [Clients -> Acct!Session]
    BY PortalAssumption DEF AccountInv, Acct!TypeOK, Acct!Expire, Acct!Exists
  <1>1. row' = [row EXCEPT !.fresh = FALSE]
        /\ UNCHANGED <<mailbox, rewards, issued, resets, unrewarded, outdated>>
    BY DEF Acct!Expire
  <1>2. row' \in Acct!Row /\ row'.link = row.link /\ row'.verified = row.verified
        /\ row'.invited = row.invited /\ row' # NULL
    BY <1>0, <1>1 DEF Acct!Row
  <1>3. ASSUME NEW t \in Clients
        PROVE  /\ client'[t] \in Acct!Session
               /\ client'[t].at = client[t].at /\ client'[t].op = client[t].op
               /\ client'[t].link = client[t].link /\ client'[t].new = client[t].new
               /\ client[t].seen \in Acct!Row =>
                     /\ client'[t].seen \in Acct!Row
                     /\ client'[t].seen.verified = client[t].seen.verified
                     /\ client'[t].seen.link = client[t].seen.link
    <2>1. client[t] \in Acct!Session
      BY <1>0
    <2>2. CASE client[t].seen = row
      <3>1. client'[t] = [client[t] EXCEPT !.seen.fresh = FALSE]
        BY <2>2 DEF Acct!Expire
      <3>2. client'[t].seen = row'
        BY <1>1, <2>1, <2>2, <3>1 DEF Acct!Session
      <3> QED BY <1>0, <1>2, <2>1, <2>2, <3>1, <3>2 DEF Acct!Session
    <2>3. CASE client[t].seen # row
      <3>1. client'[t] = client[t]
        BY <2>3 DEF Acct!Expire
      <3> QED BY <2>1, <3>1
    <2> QED BY <2>2, <2>3
  <1>4. client' \in [Clients -> Acct!Session]
    <2>1. client' = [t \in Clients |-> client'[t]]
      BY DEF Acct!Expire
    <2> QED BY <1>3, <2>1
  <1>5. Acct!TypeOK'
    BY <1>0, <1>1, <1>2, <1>4 DEF Acct!TypeOK
  <1>6. Prepared'
    BY <1>0, <1>1, <1>2, <1>3 DEF Prepared
  <1>7. \A t \in Clients : (Awarding(t)' <=> Awarding(t)) /\ (Pending(t)' <=> Pending(t))
    BY <1>3 DEF Awarding, Pending
  <1>8. RewardDue => RewardDue'
    <2>1. Deserved' <=> Deserved
      BY <1>0, <1>2 DEF Deserved
    <2> QED BY <1>1, <1>7, <2>1 DEF RewardDue
  <1>9. LinksUnused => LinksUnused'
    BY <1>0, <1>1, <1>2, <1>3, <1>7 DEF LinksUnused
  <1> QED BY <1>1, <1>5, <1>6, <1>8, <1>9 DEF AccountInv

\* Without the row nothing is due, and nobody is to write it.
LEMMA DeleteInv ==
  ASSUME AccountInv, Acct!DeleteUser
  PROVE  AccountInv'
  <1> DEFINE Stopped(s) == client[s].at \in {"commit", "reward"}
  <1>0. /\ Acct!TypeOK /\ Prepared /\ NULL \notin Links /\ client \in [Clients -> Acct!Session]
        /\ row' = NULL /\ rewards' = 0 /\ UNCHANGED <<mailbox, issued, resets, unrewarded, outdated>>
        /\ client' = [s \in Clients |-> IF Stopped(s) THEN Acct!Idle ELSE client[s]]
    BY PortalAssumption DEF AccountInv, Acct!TypeOK, Acct!DeleteUser
  <1>1. \A s \in Clients : client'[s] = IF Stopped(s) THEN Acct!Idle ELSE client[s]
    BY <1>0
  <1>2. client' \in [Clients -> Acct!Session]
    BY <1>0, IdleSession
  <1>3. \A s \in Clients : client'[s].at \notin {"commit", "reward"}
    BY <1>1, IdleSession
  <1>4. Acct!TypeOK'
    BY <1>0, <1>2 DEF Acct!TypeOK
  <1>5. Prepared'
    BY <1>0, <1>1, <1>3, IdleSession DEF Prepared
  <1>6. RewardDue'
    BY <1>0, <1>3 DEF RewardDue, Deserved, Awarding
  <1>7. LinksUnused => LinksUnused'
    <2>1. \A s \in Clients : Pending(s)' => Pending(s) /\ client'[s].link = client[s].link
      BY <1>1, IdleSession DEF Pending
    <2> QED BY <1>0, <2>1 DEF LinksUnused
  <1> QED BY <1>0, <1>4, <1>5, <1>6, <1>7 DEF AccountInv

LEMMA AccountStep == AccountInv /\ [Acct!Next]_Acct!vars => AccountInv'
  <1> SUFFICES ASSUME AccountInv, [Acct!Next]_Acct!vars PROVE AccountInv'
    OBVIOUS
  <1>1. ASSUME NEW s \in Clients, Registering(s) PROVE AccountInv'
    <2>1. PICK op, step, new, link, password : Starting(s, op, step, new, link, password)
      BY <1>1, RegisteringStarts DEF AccountInv
    <2> QED BY <2>1, StartingInv
  <1>2. ASSUME NEW s \in Clients, Acct!Insert(s) \/ Acct!Commit(s) PROVE AccountInv'
    BY <1>2, InsertInv, CommitInv
  <1>3. ASSUME NEW s \in Clients, Acct!Reward(s) \/ Acct!Mail(s) \/ Acct!Lose(s) PROVE AccountInv'
    BY <1>3, EndInv
  <1>4. CASE UNCHANGED Acct!vars
    BY <1>4 DEF Acct!vars, AccountInv, Acct!TypeOK, Prepared, RewardDue, Deserved, LinksUnused,
                Awarding, Pending
  <1> QED BY <1>1, <1>2, <1>3, <1>4, ExpireInv, DeleteInv DEF Acct!Next, Registering

\* The parts of the invariant that are properties of the accounts.
LEMMA AccountFacts == AccountInv => Acct!TypeOK /\ Acct!RewardedOnce /\ Acct!ResetOnce
  <1> SUFFICES ASSUME AccountInv PROVE Acct!TypeOK /\ Acct!RewardedOnce /\ Acct!ResetOnce
    OBVIOUS
  <1>1. Acct!RewardedOnce
    <2>1. ASSUME ~outdated, \A s \in Clients : client[s].at = "idle"
          PROVE  \A s \in Clients : ~Awarding(s)
      BY <2>1 DEF Awarding
    <2> QED BY <2>1 DEF AccountInv, RewardDue, Deserved, Acct!RewardedOnce, Acct!Exists
  <1>2. Acct!ResetOnce
    BY DEF AccountInv, LinksUnused, Acct!ResetOnce
  <1> QED BY <1>1, <1>2 DEF AccountInv

-----------------------------------------------------------------------------
(***************************************************************************)
(* The status that is pushed: the inductive invariant PushInv.             *)
(***************************************************************************)
Open == {c \in Push!Connections : connection[c] = "open"}

\* Who may show another status.
Astray == behind \cup misled

\* Registered is who has connected; dead is who has left.
Connected ==
    /\ \A r \in Push!Registries : \A c \in registry[r] : connection[c] \in {"open", "left", "ended"}
    /\ \A c \in Push!Connections : /\ connection[c] = "new" => shown[c] = NULL
                                   /\ connection[c] = "reading" => c \in Watchers
    /\ \A a \in Push!Announcers :
          /\ \A c \in job[a].visited : connection[c] \in {"open", "left", "ended"}
          /\ \A c \in job[a].dead : connection[c] \in {"left", "ended"}
          /\ job[a].at # NULL => job[a].message # NULL

\* The announcer a tells the last change, and nothing has crossed it.
Current(a) == job[a].message # NULL /\ ~job[a].crossed

\* Whoever an uncrossed broadcast has come to shows the last change.
Telling ==
    \A a \in Push!Announcers : Current(a) =>
        /\ Push!Announcing = {a} /\ job[a].message = status
        /\ a # "listener" => publishing = NULL /\ channel = <<>>
        /\ \A c \in job[a].visited \cap Open : shown[c] = status
        /\ job[a].at = "instance" => \A c \in (Open \cap Users) \ Astray : shown[c] = status

\* One change is underway, and it is the last.
Settling ==
    \/ publishing = status /\ channel = <<>> /\ Push!Announcing = {}
    \/ publishing = NULL /\ channel = <<status>> /\ Push!Announcing = {}
    \/ publishing = NULL /\ channel = <<>> /\ \E a \in Push!Announcers : Current(a)

Uncertain == Push!Quiet \/ Settling \/ Open \subseteq Astray

PushInv ==
    /\ Push!TypeOK
    /\ Push!OpenIsRegistered
    /\ Connected
    /\ Telling
    /\ Uncertain
    /\ Push!ShowsTheStatus

-----------------------------------------------------------------------------
\* What the types of the variables say of one connection, registry or job.
LEMMA PushTyped ==
  ASSUME Push!TypeOK
  PROVE  /\ \A a \in Push!Announcers :
               /\ job[a] \in Push!Job /\ job[a].message \in InstanceStatuses \cup {NULL}
               /\ job[a].at \in {"user", "instance", NULL}
               /\ job[a].visited \subseteq Push!Connections /\ job[a].dead \subseteq Push!Connections
               /\ job[a].crossed \in BOOLEAN
         /\ \A r \in Push!Registries : registry[r] \subseteq Push!Connections
         /\ status \in InstanceStatuses
         /\ behind \subseteq Push!Connections /\ misled \subseteq Push!Connections
         /\ NULL \notin InstanceStatuses /\ NULL \notin {"user", "instance"}
  BY PortalAssumption DEF Push!TypeOK, Push!Job, Push!Registries

\* Nobody is registered, left or shown anything in between, and the iterations
\* have not gone on.
LEMMA ConnectedStays ==
  ASSUME Connected, Push!OpenIsRegistered, UNCHANGED <<connection, registry, shown>>,
         \A a \in Push!Announcers : /\ job'[a].visited \subseteq job[a].visited
                                    /\ job'[a].dead \subseteq job[a].dead
                                    /\ job'[a].at # NULL => job'[a].message # NULL
  PROVE  Connected' /\ Push!OpenIsRegistered' /\ Open' = Open /\ Push!Here' = Push!Here
  BY DEF Connected, Push!OpenIsRegistered, Open, Push!Here

LEMMA PushInit == Push!Init => PushInv
  <1> SUFFICES ASSUME Push!Init PROVE PushInv
    OBVIOUS
  <1>1. Push!Idle \in Push!Job /\ \A a \in Push!Announcers : job[a] = Push!Idle
    BY DEF Push!Init, Push!Idle, Push!Message, Push!Job
  <1>2. Push!TypeOK
    BY <1>1 DEF Push!Init, Push!TypeOK
  <1>3. Push!OpenIsRegistered /\ Connected /\ Telling
    BY <1>1 DEF Push!Init, Push!OpenIsRegistered, Connected, Telling, Current, Push!Idle, Push!Message
  <1>4. Push!Quiet /\ Push!ShowsTheStatus
    BY <1>1 DEF Push!Init, Push!Quiet, Push!Announcing, Push!Idle, Push!Message, Push!ShowsTheStatus
  <1> QED BY <1>2, <1>3, <1>4 DEF PushInv, Uncertain

\* What a change does to the broadcasts that are underway.
LEMMA CrossedJobs ==
  ASSUME Push!TypeOK
  PROVE  /\ Push!Crossed \in [Push!Announcers -> Push!Job]
         /\ \A a \in Push!Announcers :
               /\ Push!Crossed[a].message = job[a].message /\ Push!Crossed[a].at = job[a].at
               /\ Push!Crossed[a].visited = job[a].visited /\ Push!Crossed[a].dead = job[a].dead
               /\ Push!Crossed[a].crossed <=> job[a].message # NULL
  <1>1. ASSUME NEW a \in Push!Announcers
        PROVE  /\ Push!Crossed[a] \in Push!Job
               /\ Push!Crossed[a].message = job[a].message /\ Push!Crossed[a].at = job[a].at
               /\ Push!Crossed[a].visited = job[a].visited /\ Push!Crossed[a].dead = job[a].dead
               /\ Push!Crossed[a].crossed <=> job[a].message # NULL
    <2>1. job[a] \in Push!Job
      BY DEF Push!TypeOK
    <2>2. Push!Crossed[a] = [job[a] EXCEPT !.crossed = a \in Push!Announcing]
      BY DEF Push!Crossed
    <2>3. (a \in Push!Announcing) <=> job[a].message # NULL
      BY DEF Push!Announcing
    <2>4. (a \in Push!Announcing) \in BOOLEAN
      OBVIOUS
    <2> QED BY <2>1, <2>2, <2>3, <2>4 DEF Push!Job
  <1>2. Push!Crossed \in [Push!Announcers -> Push!Job]
    BY <1>1 DEF Push!Crossed
  <1> QED BY <1>1, <1>2

LEMMA SyncInv ==
  ASSUME PushInv, Push!Sync
  PROVE  PushInv'
  <1>0. Push!TypeOK /\ Connected /\ Push!OpenIsRegistered
    BY DEF PushInv
  <1>1. /\ publishing = NULL /\ publishing' = status' /\ status' \in InstanceStatuses
        /\ job' = Push!Crossed
        /\ behind' = IF Push!Busy THEN Push!Here ELSE behind
        /\ UNCHANGED <<connection, read, shown, registry, channel, misled>>
    BY DEF Push!Sync, Push!Cross
  <1>2. /\ job' \in [Push!Announcers -> Push!Job]
        /\ \A a \in Push!Announcers :
              /\ job'[a].message = job[a].message /\ job'[a].at = job[a].at
              /\ job'[a].visited = job[a].visited /\ job'[a].dead = job[a].dead
              /\ job'[a].crossed <=> job[a].message # NULL
    BY <1>0, <1>1, CrossedJobs
  <1>3. Push!Here \subseteq Push!Connections
    BY DEF Push!Here
  <1>4. Push!TypeOK'
    BY <1>0, <1>1, <1>2, <1>3 DEF Push!TypeOK
  <1>5. Connected' /\ Push!OpenIsRegistered' /\ Open' = Open
    <2>1. \A a \in Push!Announcers : job'[a].at # NULL => job'[a].message # NULL
      BY <1>0, <1>2 DEF Connected
    <2> QED BY <1>0, <1>1, <1>2, <2>1, ConnectedStays
  <1>6. Telling'
    BY <1>2 DEF Telling, Current
  <1>7. Push!Announcing' = Push!Announcing
    BY <1>2 DEF Push!Announcing
  <1>8. Uncertain'
    <2>1. CASE Push!Busy
      BY <1>1, <1>5, <2>1 DEF Uncertain, Open, Push!Here, Astray
    <2>2. CASE ~Push!Busy
      BY <1>1, <1>7, <2>2 DEF Uncertain, Settling, Push!Busy
    <2> QED BY <2>1, <2>2
  <1>9. Push!ShowsTheStatus'
    BY <1>0, <1>1, PushTyped DEF Push!ShowsTheStatus, Push!Quiet
  <1> QED BY <1>4, <1>5, <1>6, <1>8, <1>9 DEF PushInv

LEMMA RequestInv ==
  ASSUME PushInv, NEW r \in Requests, Push!Request(r)
  PROVE  PushInv'
  <1> DEFINE new == [message |-> status', at |-> NULL, members |-> {}, visited |-> {}, dead |-> {},
                     crossed |-> Push!Busy]
  <1>0. Push!TypeOK /\ Connected /\ Push!OpenIsRegistered /\ r \in Push!Announcers
    BY DEF PushInv, Push!Announcers
  <1>1. /\ job[r].message = NULL /\ status' \in InstanceStatuses
        /\ job' = [Push!Crossed EXCEPT ![r] = new]
        /\ behind' = IF Push!Busy THEN Push!Here ELSE behind
        /\ UNCHANGED <<connection, read, shown, registry, publishing, channel, misled>>
    BY DEF Push!Request, Push!Cross, Push!Idle, Push!Message
  <1>2. new \in Push!Job /\ status' # NULL
    BY <1>1, PortalAssumption DEF Push!Job, Push!Busy
  <1>3. /\ job' \in [Push!Announcers -> Push!Job] /\ job'[r] = new
        /\ \A a \in Push!Announcers \ {r} :
              /\ job'[a].message = job[a].message /\ job'[a].at = job[a].at
              /\ job'[a].visited = job[a].visited /\ job'[a].dead = job[a].dead
              /\ job'[a].crossed <=> job[a].message # NULL
    BY <1>0, <1>1, <1>2, CrossedJobs
  <1>4. Push!Here \subseteq Push!Connections
    BY DEF Push!Here
  <1>5. Push!TypeOK'
    BY <1>0, <1>1, <1>3, <1>4 DEF Push!TypeOK
  <1>6. Connected' /\ Push!OpenIsRegistered' /\ Open' = Open
    <2>1. \A a \in Push!Announcers : /\ job'[a].visited \subseteq job[a].visited
                                     /\ job'[a].dead \subseteq job[a].dead
                                     /\ job'[a].at # NULL => job'[a].message # NULL
      BY <1>0, <1>3 DEF Connected
    <2> QED BY <1>0, <1>1, <2>1, ConnectedStays
  <1>7. Push!Announcing' = Push!Announcing \cup {r}
    BY <1>0, <1>2, <1>3 DEF Push!Announcing
  <1>8. Telling'
    <2> SUFFICES ASSUME NEW a \in Push!Announcers, Current(a)'
                 PROVE  /\ Push!Announcing' = {a} /\ job'[a].message = status'
                        /\ a # "listener" => publishing' = NULL /\ channel' = <<>>
                        /\ \A c \in job'[a].visited \cap Open' : shown'[c] = status'
                        /\ job'[a].at = "instance" =>
                              \A c \in (Open' \cap Users) \ Astray' : shown'[c] = status'
      BY DEF Telling
    <2>1. a = r /\ ~Push!Busy
      BY <1>3 DEF Current
    <2>2. Push!Announcing = {} /\ publishing = NULL /\ channel = <<>>
      BY <2>1 DEF Push!Busy
    <2> QED BY <1>1, <1>3, <1>7, <2>1, <2>2, PortalAssumption
  <1>9. Uncertain'
    <2>1. CASE Push!Busy
      BY <1>1, <1>6, <2>1 DEF Uncertain, Open, Push!Here, Astray
    <2>2. CASE ~Push!Busy
      <3>1. publishing' = NULL /\ channel' = <<>>
        BY <1>1, <2>2 DEF Push!Busy
      <3>2. job'[r].message = status' /\ (job'[r].crossed <=> Push!Busy)
        BY <1>3
      <3>3. Current(r)'
        BY <1>2, <2>2, <3>2 DEF Current
      <3> QED BY <1>0, <3>1, <3>3 DEF Uncertain, Settling
    <2> QED BY <2>1, <2>2
  <1>10. Push!ShowsTheStatus'
    BY <1>7 DEF Push!ShowsTheStatus, Push!Quiet
  <1> QED BY <1>5, <1>6, <1>8, <1>9, <1>10 DEF PushInv

\* A change that nobody announces leads every connection astray.
LEMMA UnannouncedInv ==
  ASSUME PushInv, Push!Unannounced
  PROVE  PushInv'
  <1>0. Push!TypeOK /\ Connected /\ Push!OpenIsRegistered
    BY DEF PushInv
  <1>1. /\ status' \in InstanceStatuses /\ job' = Push!Crossed /\ misled' = Push!Here
        /\ behind' = IF Push!Busy THEN Push!Here ELSE behind
        /\ UNCHANGED <<connection, read, shown, registry, publishing, channel>>
    BY DEF Push!Unannounced, Push!Cross
  <1>2. /\ job' \in [Push!Announcers -> Push!Job]
        /\ \A a \in Push!Announcers :
              /\ job'[a].message = job[a].message /\ job'[a].at = job[a].at
              /\ job'[a].visited = job[a].visited /\ job'[a].dead = job[a].dead
              /\ job'[a].crossed <=> job[a].message # NULL
    BY <1>0, <1>1, CrossedJobs
  <1>3. Push!Here \subseteq Push!Connections
    BY DEF Push!Here
  <1>4. Push!TypeOK'
    BY <1>0, <1>1, <1>2, <1>3 DEF Push!TypeOK
  <1>5. Connected' /\ Push!OpenIsRegistered' /\ Open' = Open
    <2>1. \A a \in Push!Announcers : job'[a].at # NULL => job'[a].message # NULL
      BY <1>0, <1>2 DEF Connected
    <2> QED BY <1>0, <1>1, <1>2, <2>1, ConnectedStays
  <1>6. Telling'
    BY <1>2 DEF Telling, Current
  <1>7. Open' \subseteq Astray'
    BY <1>1, <1>5 DEF Open, Push!Here, Astray
  <1>8. Push!ShowsTheStatus'
    BY <1>7 DEF Push!ShowsTheStatus, Open, Astray
  <1> QED BY <1>4, <1>5, <1>6, <1>7, <1>8 DEF PushInv, Uncertain

LEMMA UncommittedInv ==
  ASSUME PushInv, NEW r \in Requests, Push!Uncommitted(r)
  PROVE  PushInv'
  <1>0. Push!TypeOK /\ Connected /\ Push!OpenIsRegistered /\ r \in Push!Announcers
    BY DEF PushInv, Push!Announcers
  <1>1. PICK m \in InstanceStatuses :
           job' = [Push!Crossed EXCEPT ![r] = Push!Message(m, TRUE)]
    BY DEF Push!Uncommitted
  <1> DEFINE new == [message |-> m, at |-> NULL, members |-> {}, visited |-> {}, dead |-> {},
                     crossed |-> TRUE]
  <1>2. /\ misled' = Push!Here /\ behind' = IF Push!Busy THEN Push!Here ELSE behind
        /\ job[r].message = NULL
        /\ UNCHANGED <<status, connection, read, shown, registry, publishing, channel>>
    BY DEF Push!Uncommitted, Push!Cross
  <1>3. new \in Push!Job /\ job' = [Push!Crossed EXCEPT ![r] = new]
    <2>1. job' = [Push!Crossed EXCEPT ![r] = new]
      BY <1>1 DEF Push!Idle, Push!Message
    <2>2. new \in Push!Job
      BY PortalAssumption DEF Push!Job
    <2> QED BY <2>1, <2>2
  <1>4. /\ job' \in [Push!Announcers -> Push!Job] /\ job'[r] = new
        /\ \A a \in Push!Announcers \ {r} :
              /\ job'[a].message = job[a].message /\ job'[a].at = job[a].at
              /\ job'[a].visited = job[a].visited /\ job'[a].dead = job[a].dead
              /\ job'[a].crossed <=> job[a].message # NULL
    BY <1>0, <1>3, CrossedJobs
  <1>5. Push!Here \subseteq Push!Connections
    BY DEF Push!Here
  <1>6. Push!TypeOK'
    BY <1>0, <1>2, <1>4, <1>5 DEF Push!TypeOK
  <1>7. Connected' /\ Push!OpenIsRegistered' /\ Open' = Open
    <2>1. \A a \in Push!Announcers : /\ job'[a].visited \subseteq job[a].visited
                                     /\ job'[a].dead \subseteq job[a].dead
                                     /\ job'[a].at # NULL => job'[a].message # NULL
      BY <1>0, <1>4 DEF Connected
    <2> QED BY <1>0, <1>2, <2>1, ConnectedStays
  <1>8. Telling'
    BY <1>4 DEF Telling, Current
  <1>9. Open' \subseteq Astray'
    BY <1>2, <1>7 DEF Open, Push!Here, Astray
  <1>10. Push!ShowsTheStatus'
    BY <1>9 DEF Push!ShowsTheStatus, Open, Astray
  <1> QED BY <1>6, <1>7, <1>8, <1>9, <1>10 DEF PushInv, Uncertain

LEMMA PublishInv ==
  ASSUME PushInv, Push!Publish
  PROVE  PushInv'
  <1>0. /\ Push!TypeOK /\ Connected /\ Push!OpenIsRegistered
        /\ channel \in Seq(InstanceStatuses) /\ publishing \in InstanceStatuses
    BY DEF PushInv, Push!TypeOK, Push!Publish
  <1>1. /\ publishing # NULL /\ publishing' = NULL
        /\ UNCHANGED <<status, connection, read, shown, registry, job, misled>>
        /\ \/ channel' = Append(channel, publishing) /\ behind' = behind
           \/ channel' = channel /\ behind' = Push!Here
    BY DEF Push!Publish
  <1>2. channel' \in Seq(InstanceStatuses) /\ behind' \subseteq Push!Connections
    <2>1. channel' = Append(channel, publishing) \/ channel' = channel
      BY <1>1
    <2>2. Append(channel, publishing) \in Seq(InstanceStatuses)
      BY <1>0
    <2>3. behind' = behind \/ behind' = Push!Here
      BY <1>1
    <2> QED BY <1>0, <2>1, <2>2, <2>3 DEF Push!Here, Push!TypeOK
  <1>3. Push!TypeOK'
    BY <1>0, <1>1, <1>2 DEF Push!TypeOK
  <1>4. Connected' /\ Push!OpenIsRegistered' /\ Open' = Open
    <2>1. \A a \in Push!Announcers : job'[a].at # NULL => job'[a].message # NULL
      BY <1>0, <1>1 DEF Connected
    <2> QED BY <1>0, <1>1, <2>1, ConnectedStays
  <1>5. Push!Announcing' = Push!Announcing /\ (\A a \in Push!Announcers : Current(a)' <=> Current(a))
    BY <1>1 DEF Push!Announcing, Current
  <1>6. Open \subseteq Astray' \/ Astray' = Astray
    BY <1>1 DEF Open, Push!Here, Astray
  <1>7. Telling'
    <2>1. \A a \in Push!Announcers : Current(a) => a = "listener"
      BY <1>1 DEF PushInv, Telling
    <2> QED BY <1>1, <1>4, <1>5, <1>6, <2>1 DEF PushInv, Telling
  <1>8. CASE channel' = Append(channel, publishing) /\ behind' = behind
    <2>1. channel' # <<>>
      BY <1>0, <1>8
    <2>2. Push!ShowsTheStatus'
      BY <2>1 DEF Push!ShowsTheStatus, Push!Quiet
    <2>3. ASSUME Open \subseteq Astray PROVE Uncertain'
      BY <1>1, <1>4, <1>8, <2>3 DEF Uncertain, Astray
    <2>4. ASSUME publishing = status, channel = <<>>, Push!Announcing = {} PROVE Uncertain'
      <3>1. channel' = <<status'>>
        BY <1>1, <1>8, <2>4
      <3> QED BY <1>1, <1>5, <2>4, <3>1 DEF Uncertain, Settling
    <2>5. Open \subseteq Astray \/ (publishing = status /\ channel = <<>> /\ Push!Announcing = {})
      BY <1>1 DEF PushInv, Uncertain, Settling, Push!Quiet
    <2>6. Uncertain'
      BY <2>3, <2>4, <2>5
    <2> QED BY <1>3, <1>4, <1>7, <2>2, <2>6 DEF PushInv
  <1>9. CASE channel' = channel /\ behind' = Push!Here
    <2>1. Open' \subseteq Astray'
      BY <1>4, <1>9 DEF Open, Push!Here, Astray
    <2>2. Push!ShowsTheStatus'
      BY <2>1 DEF Push!ShowsTheStatus, Open, Astray
    <2> QED BY <1>3, <1>4, <1>7, <2>1, <2>2 DEF PushInv, Uncertain
  <1> QED BY <1>1, <1>8, <1>9

\* A broadcast that begins.
LEMMA FreshJob ==
  ASSUME NEW m \in InstanceStatuses, NEW x \in BOOLEAN
  PROVE  /\ Push!Message(m, x) \in Push!Job
         /\ Push!Message(m, x).message = m /\ Push!Message(m, x).at = NULL
         /\ Push!Message(m, x).visited = {} /\ Push!Message(m, x).dead = {}
         /\ Push!Message(m, x).crossed = x
  BY DEF Push!Message, Push!Job

LEMMA ListenInv ==
  ASSUME PushInv, Push!Listen
  PROVE  PushInv'
  <1> DEFINE crossing == Push!Announcing # {} \/ Head(channel) # status
             new == Push!Message(Head(channel), crossing)
  <1>0. /\ Push!TypeOK /\ Connected /\ Push!OpenIsRegistered /\ "listener" \in Push!Announcers
        /\ channel \in Seq(InstanceStatuses) /\ channel # <<>>
    BY DEF PushInv, Push!TypeOK, Push!Announcers, Push!Listen
  <1>1. /\ job["listener"].message = NULL
        /\ channel' = Tail(channel) /\ job' = [job EXCEPT !["listener"] = new]
        /\ UNCHANGED <<status, connection, read, shown, registry, publishing, behind, misled>>
    BY DEF Push!Listen
  <1>2. /\ Head(channel) \in InstanceStatuses /\ Tail(channel) \in Seq(InstanceStatuses)
        /\ Head(channel) # NULL
    BY <1>0, PortalAssumption
  <1>3. /\ new \in Push!Job /\ new.message = Head(channel) /\ new.crossed = crossing
        /\ new.at = NULL /\ new.visited = {} /\ new.dead = {}
    <2>1. crossing \in BOOLEAN
      OBVIOUS
    <2> HIDE DEF crossing
    <2> QED BY <1>2, <2>1, FreshJob
  <1> HIDE DEF new
  <1>4. /\ job' \in [Push!Announcers -> Push!Job] /\ job'["listener"] = new
        /\ \A a \in Push!Announcers \ {"listener"} : job'[a] = job[a]
    BY <1>0, <1>1, <1>3 DEF Push!TypeOK
  <1>5. Push!TypeOK'
    BY <1>0, <1>1, <1>2, <1>4 DEF Push!TypeOK
  <1>6. Connected' /\ Push!OpenIsRegistered' /\ Open' = Open
    <2>1. \A a \in Push!Announcers : /\ job'[a].visited \subseteq job[a].visited
                                     /\ job'[a].dead \subseteq job[a].dead
                                     /\ job'[a].at # NULL => job'[a].message # NULL
      BY <1>0, <1>3, <1>4 DEF Connected
    <2> QED BY <1>0, <1>1, <2>1, ConnectedStays
  <1>7. Push!Announcing' = Push!Announcing \cup {"listener"}
    BY <1>0, <1>2, <1>3, <1>4 DEF Push!Announcing
  <1>8. Current("listener")' <=> Push!Announcing = {} /\ Head(channel) = status
    <2>1. /\ job'["listener"].message = Head(channel)
          /\ job'["listener"].crossed = crossing
      BY <1>3, <1>4, Zenon
    <2> QED BY <1>2, <2>1 DEF Current
  <1>9. Telling'
    <2> SUFFICES ASSUME NEW a \in Push!Announcers, Current(a)'
                 PROVE  /\ Push!Announcing' = {a} /\ job'[a].message = status'
                        /\ a # "listener" => publishing' = NULL /\ channel' = <<>>
                        /\ \A c \in job'[a].visited \cap Open' : shown'[c] = status'
                        /\ job'[a].at = "instance" =>
                              \A c \in (Open' \cap Users) \ Astray' : shown'[c] = status'
      BY DEF Telling
    <2>1. a = "listener"
      <3>1. a # "listener" => Current(a)
        BY <1>4 DEF Current
      <3> QED BY <1>0, <3>1 DEF PushInv, Telling
    <2>2. Push!Announcing = {} /\ Head(channel) = status
      BY <1>8, <2>1
    <2> QED BY <1>1, <1>3, <1>4, <1>7, <2>1, <2>2, PortalAssumption
  <1>10. Uncertain'
    <2>1. CASE Open \subseteq Astray
      BY <1>1, <1>6, <2>1 DEF Uncertain, Astray
    <2>2. CASE publishing = NULL /\ channel = <<status>> /\ Push!Announcing = {}
      <3>1. Head(channel) = status /\ channel' = <<>>
        BY <1>1, <2>2
      <3> QED BY <1>0, <1>1, <1>8, <2>2, <3>1 DEF Uncertain, Settling
    <2> QED BY <1>0, <2>1, <2>2 DEF PushInv, Uncertain, Settling, Push!Quiet
  <1>11. Push!ShowsTheStatus'
    BY <1>7 DEF Push!ShowsTheStatus, Push!Quiet
  <1> QED BY <1>5, <1>6, <1>9, <1>10, <1>11 DEF PushInv

\* A broadcast that comes to the set r.
LEMMA IterateJob ==
  ASSUME Push!TypeOK, NEW a \in Push!Announcers, NEW r \in Push!Registries, Push!Iterate(a, r)
  PROVE  /\ job' \in [Push!Announcers -> Push!Job]
         /\ job'[a].message = job[a].message /\ job'[a].crossed = job[a].crossed
         /\ job'[a].at = r /\ job'[a].visited = {} /\ job'[a].dead = {}
         /\ \A b \in Push!Announcers \ {a} : job'[b] = job[b]
  <1> DEFINE new == [job[a] EXCEPT !.at = r, !.members = registry[r], !.visited = {}, !.dead = {}]
  <1>1. registry[r] \subseteq Push!Connections /\ job[a] \in Push!Job
    BY PushTyped
  <1>2. job' = [job EXCEPT ![a] = new]
    BY DEF Push!Iterate
  <1>3. new \in Push!Job
    BY <1>1 DEF Push!Job
  <1>4. /\ new.message = job[a].message /\ new.crossed = job[a].crossed
        /\ new.at = r /\ new.visited = {} /\ new.dead = {}
    BY <1>1 DEF Push!Job
  <1> HIDE DEF new
  <1> QED BY <1>2, <1>3, <1>4 DEF Push!TypeOK

LEMMA StartInv ==
  ASSUME PushInv, NEW a \in Push!Announcers, Push!Start(a)
  PROVE  PushInv'
  <1>0. /\ Push!TypeOK /\ Connected /\ Push!OpenIsRegistered
        /\ "user" \in Push!Registries /\ "instance" \in Push!Registries
    BY DEF PushInv, Push!Registries
  <1>1. /\ job[a].message # NULL
        /\ UNCHANGED <<status, connection, read, shown, registry, publishing, channel, behind>>
        /\ \/ Push!Iterate(a, "user") /\ misled' = misled
           \/ Push!Iterate(a, "instance") /\ misled' = misled \cup (Push!Here \cap Users)
    BY DEF Push!Start
  <1>2. /\ job' \in [Push!Announcers -> Push!Job]
        /\ job'[a].message = job[a].message /\ job'[a].crossed = job[a].crossed
        /\ job'[a].visited = {} /\ job'[a].dead = {}
        /\ \A b \in Push!Announcers \ {a} : job'[b] = job[b]
        /\ \/ job'[a].at = "user" /\ misled' = misled
           \/ job'[a].at = "instance" /\ misled' = misled \cup (Push!Here \cap Users)
    <2>1. CASE Push!Iterate(a, "user") /\ misled' = misled
      BY <1>0, <2>1, IterateJob
    <2>2. CASE Push!Iterate(a, "instance") /\ misled' = misled \cup (Push!Here \cap Users)
      BY <1>0, <2>2, IterateJob
    <2> QED BY <1>1, <2>1, <2>2
  <1>3. /\ Astray \subseteq Astray' /\ misled' \subseteq Push!Connections
        /\ job'[a].at = "instance" => Push!Here \cap Users \subseteq Astray'
    <2>1. Push!Here \subseteq Push!Connections
      BY DEF Push!Here
    <2> QED BY <1>0, <1>1, <1>2, <2>1, PushTyped DEF Astray
  <1>4. Push!TypeOK'
    BY <1>0, <1>1, <1>2, <1>3 DEF Push!TypeOK
  <1>5. Connected' /\ Push!OpenIsRegistered' /\ Open' = Open
    <2>1. \A b \in Push!Announcers : /\ job'[b].visited \subseteq job[b].visited
                                     /\ job'[b].dead \subseteq job[b].dead
                                     /\ job'[b].at # NULL => job'[b].message # NULL
      BY <1>0, <1>1, <1>2 DEF Connected
    <2> QED BY <1>0, <1>1, <2>1, ConnectedStays
  <1>6. Push!Announcing' = Push!Announcing /\ \A b \in Push!Announcers : Current(b)' <=> Current(b)
    BY <1>2 DEF Push!Announcing, Current
  <1>7. Telling'
    <2> SUFFICES ASSUME Current(a)
                 PROVE  /\ Push!Announcing = {a} /\ job'[a].message = status
                        /\ a # "listener" => publishing = NULL /\ channel = <<>>
                        /\ job'[a].at = "instance" => \A c \in (Open \cap Users) \ Astray' : FALSE
      <3>1. \A b \in Push!Announcers : Current(b) => b = a
        BY <1>1 DEF PushInv, Telling, Push!Announcing
      <3> QED BY <1>1, <1>2, <1>5, <1>6, <3>1 DEF Telling
    <2>1. Open \subseteq Push!Here
      BY DEF Open, Push!Here
    <2> QED BY <1>2, <1>3, <2>1 DEF PushInv, Telling
  <1>8. Uncertain'
    BY <1>1, <1>3, <1>5, <1>6 DEF PushInv, Uncertain, Settling, Push!Quiet
  <1>9. Push!ShowsTheStatus'
    BY <1>1, <1>6 DEF Push!ShowsTheStatus, Push!Quiet, Push!Announcing
  <1> QED BY <1>4, <1>5, <1>7, <1>8, <1>9 DEF PushInv

LEMMA SendInv ==
  ASSUME PushInv, NEW a \in Push!Announcers, Push!Send(a)
  PROVE  PushInv'
  <1>0. /\ Push!TypeOK /\ Connected /\ Push!OpenIsRegistered /\ job[a] \in Push!Job
        /\ job[a].at \in Push!Registries /\ job[a].message # NULL
        /\ job[a].message \in InstanceStatuses
    BY PushTyped DEF PushInv, Push!Send, Connected, Push!Registries
  <1>1. UNCHANGED <<status, connection, read, registry, publishing, channel, behind, misled>>
    BY DEF Push!Send
  <1>2. PICK c \in registry[job[a].at] :
          /\ shown' = IF connection[c] = "open" THEN [shown EXCEPT ![c] = job[a].message] ELSE shown
          /\ job' = [job EXCEPT ![a].visited = @ \cup {c},
                                ![a].dead = IF connection[c] = "open" THEN @ ELSE @ \cup {c}]
    BY DEF Push!Send, Push!Rest
  <1>3. c \in Push!Connections /\ connection[c] \in {"open", "left", "ended"}
    BY <1>0, PushTyped DEF Connected
  <1>4. /\ job' \in [Push!Announcers -> Push!Job]
        /\ job'[a].message = job[a].message /\ job'[a].crossed = job[a].crossed
        /\ job'[a].at = job[a].at /\ job'[a].visited = job[a].visited \cup {c}
        /\ job'[a].dead \subseteq job[a].dead \cup (IF connection[c] = "open" THEN {} ELSE {c})
        /\ \A b \in Push!Announcers \ {a} : job'[b] = job[b]
    <2> DEFINE visited == job[a].visited \cup {c}
               dead == IF connection[c] = "open" THEN job[a].dead ELSE job[a].dead \cup {c}
               new == [job[a] EXCEPT !.visited = visited, !.dead = dead]
    <2>1. job' = [job EXCEPT ![a] = new]
      BY <1>2 DEF Push!TypeOK
    <2>2. visited \subseteq Push!Connections /\ dead \subseteq Push!Connections
      BY <1>0, <1>3, PushTyped
    <2>3. dead \subseteq job[a].dead \cup (IF connection[c] = "open" THEN {} ELSE {c})
      OBVIOUS
    <2> HIDE DEF visited, dead
    <2>4. new \in Push!Job
      BY <1>0, <2>2 DEF Push!Job
    <2>5. /\ new.message = job[a].message /\ new.crossed = job[a].crossed
          /\ new.at = job[a].at /\ new.visited = visited /\ new.dead = dead
      BY <1>0 DEF Push!Job
    <2> HIDE DEF new
    <2>6. /\ job' \in [Push!Announcers -> Push!Job] /\ job'[a] = new
          /\ \A b \in Push!Announcers \ {a} : job'[b] = job[b]
      BY <1>0, <2>1, <2>4 DEF Push!TypeOK
    <2> QED BY <2>3, <2>5, <2>6 DEF visited
  <1>5. /\ shown' \in [Push!Connections -> InstanceStatuses \cup {NULL}]
        /\ connection[c] = "open" => shown'[c] = job[a].message
        /\ \A d \in Push!Connections \ {c} : shown'[d] = shown[d]
        /\ connection[c] # "open" => shown' = shown
    BY <1>0, <1>2, <1>3 DEF Push!TypeOK
  <1>6. Push!TypeOK'
    BY <1>0, <1>1, <1>4, <1>5 DEF Push!TypeOK
  <1>7. Connected' /\ Push!OpenIsRegistered' /\ Open' = Open
    <2>1. ASSUME NEW b \in Push!Announcers
          PROVE  /\ \A d \in job'[b].visited : connection'[d] \in {"open", "left", "ended"}
                 /\ \A d \in job'[b].dead : connection'[d] \in {"left", "ended"}
                 /\ job'[b].at # NULL => job'[b].message # NULL
      BY <1>0, <1>1, <1>3, <1>4 DEF Connected
    <2>2. \A d \in Push!Connections : connection'[d] = "new" => shown'[d] = NULL
      BY <1>0, <1>1, <1>3, <1>5 DEF Connected
    <2> QED BY <1>0, <1>1, <2>1, <2>2 DEF Connected, Push!OpenIsRegistered, Open
  <1>8. Push!Announcing' = Push!Announcing /\ \A b \in Push!Announcers : Current(b)' <=> Current(b)
    BY <1>4 DEF Push!Announcing, Current
  <1>9. Telling'
    <2> SUFFICES ASSUME NEW b \in Push!Announcers, Current(b)
                 PROVE  /\ Push!Announcing = {b} /\ job'[b].message = status
                        /\ b # "listener" => publishing = NULL /\ channel = <<>>
                        /\ \A d \in job'[b].visited \cap Open : shown'[d] = status
                        /\ job'[b].at = "instance" =>
                              \A d \in (Open \cap Users) \ Astray : shown'[d] = status
      BY <1>1, <1>7, <1>8 DEF Telling, Astray
    <2>1. /\ b = a /\ Push!Announcing = {a} /\ job[a].message = status
          /\ a # "listener" => publishing = NULL /\ channel = <<>>
          /\ \A d \in job[a].visited \cap Open : shown[d] = status
          /\ job[a].at = "instance" => \A d \in (Open \cap Users) \ Astray : shown[d] = status
      BY <1>0 DEF PushInv, Telling, Push!Announcing
    <2>2. \A d \in Open : shown'[d] = shown[d] \/ shown'[d] = status
      BY <1>5, <2>1 DEF Open
    <2>3. c \in Open => shown'[c] = status
      BY <1>5, <2>1 DEF Open
    <2> QED BY <1>4, <2>1, <2>2, <2>3
  <1>10. Uncertain'
    BY <1>1, <1>7, <1>8 DEF PushInv, Uncertain, Settling, Push!Quiet, Astray
  <1>11. Push!ShowsTheStatus'
    BY <1>0, <1>8 DEF Push!ShowsTheStatus, Push!Quiet, Push!Announcing
  <1> QED BY <1>6, <1>7, <1>9, <1>10, <1>11 DEF PushInv

\* A broadcast that has come to the end of a set cleans it, and goes on with the
\* next one or is over.
LEMMA CleanedStays ==
  ASSUME Push!TypeOK, Connected, Push!OpenIsRegistered, NEW a \in Push!Announcers,
         job[a].at \in Push!Registries, registry' = Push!Cleaned(a),
         UNCHANGED <<connection, shown>>,
         \A b \in Push!Announcers : /\ job'[b].visited \subseteq job[b].visited
                                    /\ job'[b].dead \subseteq job[b].dead
                                    /\ job'[b].at # NULL => job'[b].message # NULL
  PROVE  /\ registry' \in [Push!Registries -> SUBSET Push!Connections]
         /\ Connected' /\ Push!OpenIsRegistered' /\ Open' = Open
  <1>1. /\ registry' \in [Push!Registries -> SUBSET Push!Connections]
        /\ \A r \in Push!Registries : /\ registry'[r] \subseteq registry[r]
                                      /\ registry[r] \subseteq registry'[r] \cup job[a].dead
    BY DEF Push!Cleaned, Push!TypeOK
  <1>2. \A c \in Push!Connections : connection[c] = "open" => c \notin job[a].dead
    BY DEF Connected
  <1>3. Push!OpenIsRegistered'
    BY <1>1, <1>2 DEF Push!OpenIsRegistered, Push!Registries
  <1>4. Connected'
    BY <1>1 DEF Connected
  <1> QED BY <1>1, <1>3, <1>4 DEF Open

\* What its end does to the connections that may show another status.
LEMMA EndOfSetAstray ==
  ASSUME PushInv, NEW a \in Push!Announcers, Push!EndOfSet(a)
  PROVE  /\ behind' \subseteq Push!Connections /\ misled' \subseteq Push!Connections
         /\ ~Push!Tells(a) => Astray \subseteq Astray'
         /\ Push!Tells(a) => Astray \ job[a].visited \subseteq Astray'
         /\ Open \cap Push!Rest(a) \subseteq Astray'
  <1>1. /\ behind' = (IF Push!Tells(a) THEN behind \ job[a].visited ELSE behind)
                      \cup (Push!Rest(a) \cap Push!Here)
        /\ misled' = IF Push!Tells(a) THEN misled \ job[a].visited ELSE misled
    BY DEF Push!EndOfSet
  <1>2. /\ behind \subseteq Push!Connections /\ misled \subseteq Push!Connections
        /\ Push!Here \subseteq Push!Connections
    BY PushTyped DEF PushInv, Push!Here
  <1>3. Open \subseteq Push!Here
    BY DEF Open, Push!Here
  <1> QED BY <1>1, <1>2, <1>3 DEF Astray

LEMMA EndOfSetInv ==
  ASSUME PushInv, NEW a \in Push!Announcers, Push!EndOfSet(a)
  PROVE  PushInv'
  <1>0. /\ Push!TypeOK /\ Connected /\ Push!OpenIsRegistered /\ job[a] \in Push!Job
        /\ job[a].at \in Push!Registries /\ job[a].message # NULL
        /\ job[a].visited \subseteq Push!Connections
        /\ "instance" \in Push!Registries
    BY PushTyped DEF PushInv, Push!EndOfSet, Connected, Push!Registries
  <1>1. /\ registry' = Push!Cleaned(a)
        /\ UNCHANGED <<status, connection, read, shown, publishing, channel>>
    BY DEF Push!EndOfSet
  <1>2. \A c \in Open : job[a].at = (IF c \in Users THEN "user" ELSE "instance")
                           => c \in job[a].visited \/ c \in Astray'
    <2>1. \A c \in Open : job[a].at = (IF c \in Users THEN "user" ELSE "instance")
                             => c \in job[a].visited \/ c \in Push!Rest(a)
      BY <1>0 DEF Push!OpenIsRegistered, Open, Push!Rest
    <2> QED BY <2>1, EndOfSetAstray
  <1>3. \A b \in Push!Announcers : Current(b) => b = a
    BY <1>0 DEF PushInv, Telling, Push!Announcing
  <1>4. /\ behind' \subseteq Push!Connections /\ misled' \subseteq Push!Connections
        /\ Astray \ job[a].visited \subseteq Astray'
        /\ ~Push!Tells(a) => Astray \subseteq Astray'
    BY EndOfSetAstray
  <1>5. ~(Current(a) /\ publishing = NULL /\ channel = <<>>) => Astray \subseteq Astray' /\ Open \subseteq Astray
    <2>1. ASSUME ~(Current(a) /\ publishing = NULL /\ channel = <<>>)
          PROVE  ~Push!Tells(a) /\ Open \subseteq Astray
      <3>1. job[a].crossed \/ publishing # NULL \/ channel # <<>>
        BY <1>0, <2>1 DEF Current
      <3>2. a \in Push!Announcing
        BY <1>0 DEF Push!Announcing
      <3>3. Open \subseteq Astray
        BY <1>3, <2>1, <3>2 DEF PushInv, Uncertain, Settling, Push!Quiet
      <3> QED BY <3>1, <3>3 DEF Push!Tells
    <2> QED BY <1>4, <2>1
  <1>6. CASE job[a].at = "user"
    <2>1. /\ job' \in [Push!Announcers -> Push!Job]
          /\ job'[a].message = job[a].message /\ job'[a].crossed = job[a].crossed
          /\ job'[a].at = "instance" /\ job'[a].visited = {} /\ job'[a].dead = {}
          /\ \A b \in Push!Announcers \ {a} : job'[b] = job[b]
      BY <1>0, <1>6, IterateJob DEF Push!EndOfSet
    <2>2. \A b \in Push!Announcers : /\ job'[b].visited \subseteq job[b].visited
                                     /\ job'[b].dead \subseteq job[b].dead
                                     /\ job'[b].at # NULL => job'[b].message # NULL
      BY <1>0, <2>1 DEF Connected
    <2>3. /\ registry' \in [Push!Registries -> SUBSET Push!Connections]
          /\ Connected' /\ Push!OpenIsRegistered' /\ Open' = Open
      BY <1>0, <1>1, <2>2, CleanedStays
    <2>4. Push!TypeOK'
      BY <1>0, <1>1, <1>4, <2>1, <2>3 DEF Push!TypeOK
    <2>5. Push!Announcing' = Push!Announcing /\ \A b \in Push!Announcers : Current(b)' <=> Current(b)
      BY <2>1 DEF Push!Announcing, Current
    <2>6. Telling'
      <3> SUFFICES ASSUME Current(a)
                   PROVE  /\ Push!Announcing = {a} /\ job'[a].message = status
                          /\ a # "listener" => publishing = NULL /\ channel = <<>>
                          /\ \A c \in (Open \cap Users) \ Astray' : shown[c] = status
        BY <1>1, <1>3, <2>1, <2>3, <2>5 DEF Telling
      <3>1. /\ Push!Announcing = {a} /\ job[a].message = status
            /\ a # "listener" => publishing = NULL /\ channel = <<>>
            /\ \A c \in job[a].visited \cap Open : shown[c] = status
        BY DEF PushInv, Telling
      <3>2. \A c \in (Open \cap Users) \ Astray' : c \in job[a].visited
        BY <1>2, <1>6
      <3> QED BY <2>1, <3>1, <3>2
    <2>7. Uncertain'
      <3>1. CASE Current(a) /\ publishing = NULL /\ channel = <<>>
        BY <1>1, <2>5, <3>1 DEF Uncertain, Settling
      <3>2. CASE ~(Current(a) /\ publishing = NULL /\ channel = <<>>)
        BY <1>5, <2>3, <3>2 DEF Uncertain
      <3> QED BY <3>1, <3>2
    <2>8. Push!ShowsTheStatus'
      BY <1>0, <2>5 DEF Push!ShowsTheStatus, Push!Quiet, Push!Announcing
    <2> QED BY <2>3, <2>4, <2>6, <2>7, <2>8 DEF PushInv
  <1>7. CASE job[a].at # "user"
    <2>0. job[a].at = "instance"
      BY <1>0, <1>7 DEF Push!Registries
    <2>1. job' = [job EXCEPT ![a] = Push!Idle]
      BY <1>7 DEF Push!EndOfSet
    <2>2. /\ job' \in [Push!Announcers -> Push!Job]
          /\ job'[a].message = NULL /\ job'[a].at = NULL
          /\ job'[a].visited = {} /\ job'[a].dead = {}
          /\ \A b \in Push!Announcers \ {a} : job'[b] = job[b]
      <3>1. /\ Push!Idle \in Push!Job /\ Push!Idle.message = NULL /\ Push!Idle.at = NULL
            /\ Push!Idle.visited = {} /\ Push!Idle.dead = {}
        BY DEF Push!Idle, Push!Message, Push!Job
      <3> QED BY <1>0, <2>1, <3>1 DEF Push!TypeOK
    <2>3. \A b \in Push!Announcers : /\ job'[b].visited \subseteq job[b].visited
                                     /\ job'[b].dead \subseteq job[b].dead
                                     /\ job'[b].at # NULL => job'[b].message # NULL
      BY <1>0, <2>2 DEF Connected
    <2>4. /\ registry' \in [Push!Registries -> SUBSET Push!Connections]
          /\ Connected' /\ Push!OpenIsRegistered' /\ Open' = Open
      BY <1>0, <1>1, <2>3, CleanedStays
    <2>5. Push!TypeOK'
      BY <1>0, <1>1, <1>4, <2>2, <2>4 DEF Push!TypeOK
    <2>6. Telling'
      <3>1. \A b \in Push!Announcers : ~Current(b)'
        BY <1>3, <2>2 DEF Current
      <3> QED BY <3>1 DEF Telling
    <2>7. CASE Current(a) /\ publishing = NULL /\ channel = <<>>
      <3>1. /\ Push!Announcing = {a}
            /\ \A c \in job[a].visited \cap Open : shown[c] = status
            /\ \A c \in (Open \cap Users) \ Astray : shown[c] = status
        BY <2>0, <2>7 DEF PushInv, Telling
      <3>2. Push!Quiet'
        BY <1>0, <1>1, <2>2, <2>7, <3>1 DEF Push!Quiet, Push!Announcing
      <3>3. \A c \in Open \ Astray' : c \in job[a].visited \/ c \in (Open \cap Users) \ Astray
        BY <1>2, <1>4, <2>0
      <3>4. \A c \in Open \ Astray' : shown[c] = status
        BY <3>1, <3>3
      <3>5. Push!ShowsTheStatus'
        BY <1>1, <2>4, <3>4 DEF Push!ShowsTheStatus, Open, Astray
      <3> QED BY <2>4, <2>5, <2>6, <3>2, <3>5 DEF PushInv, Uncertain
    <2>8. CASE ~(Current(a) /\ publishing = NULL /\ channel = <<>>)
      <3>1. Open' \subseteq Astray'
        BY <1>5, <2>4, <2>8
      <3>2. Push!ShowsTheStatus'
        BY <3>1 DEF Push!ShowsTheStatus, Open, Astray
      <3> QED BY <2>4, <2>5, <2>6, <3>1, <3>2 DEF PushInv, Uncertain
    <2> QED BY <2>7, <2>8
  <1> QED BY <1>6, <1>7

LEMMA AbortInv ==
  ASSUME PushInv, NEW a \in Push!Announcers, Push!Abort(a)
  PROVE  PushInv'
  <1>0. /\ Push!TypeOK /\ Connected /\ Push!OpenIsRegistered /\ job[a] \in Push!Job
        /\ job[a].at \in Push!Registries /\ job[a].message # NULL
        /\ job[a].visited \subseteq Push!Connections
    BY PushTyped DEF PushInv, Push!Abort, Connected, Push!Registries
  <1>1. /\ job' = [job EXCEPT ![a] = Push!Idle]
        /\ behind' = behind \cup (Push!Here \ IF job[a].at = "instance" THEN job[a].visited ELSE {})
        /\ UNCHANGED <<status, connection, read, shown, registry, publishing, channel, misled>>
    BY DEF Push!Abort
  <1>2. /\ job' \in [Push!Announcers -> Push!Job]
        /\ job'[a].message = NULL /\ job'[a].at = NULL
        /\ job'[a].visited = {} /\ job'[a].dead = {}
        /\ \A b \in Push!Announcers \ {a} : job'[b] = job[b]
    <2>1. /\ Push!Idle \in Push!Job /\ Push!Idle.message = NULL /\ Push!Idle.at = NULL
          /\ Push!Idle.visited = {} /\ Push!Idle.dead = {}
      BY DEF Push!Idle, Push!Message, Push!Job
    <2> QED BY <1>0, <1>1, <2>1 DEF Push!TypeOK
  <1>3. behind' \subseteq Push!Connections /\ Astray \subseteq Astray'
    BY <1>0, <1>1 DEF Push!Here, Push!TypeOK, Astray
  <1>4. Push!TypeOK'
    BY <1>0, <1>1, <1>2, <1>3 DEF Push!TypeOK
  <1>5. Connected' /\ Push!OpenIsRegistered' /\ Open' = Open
    <2>1. \A b \in Push!Announcers : /\ job'[b].visited \subseteq job[b].visited
                                     /\ job'[b].dead \subseteq job[b].dead
                                     /\ job'[b].at # NULL => job'[b].message # NULL
      BY <1>0, <1>2 DEF Connected
    <2> QED BY <1>0, <1>1, <2>1, ConnectedStays
  <1>6. \A b \in Push!Announcers : Current(b) => b = a
    BY <1>0 DEF PushInv, Telling, Push!Announcing
  <1>7. Telling'
    <2>1. \A b \in Push!Announcers : ~Current(b)'
      BY <1>2, <1>6 DEF Current
    <2> QED BY <2>1 DEF Telling
  <1>8. CASE Current(a) /\ publishing = NULL /\ channel = <<>>
    <2>1. /\ Push!Announcing = {a}
          /\ \A c \in job[a].visited \cap Open : shown[c] = status
      BY <1>8 DEF PushInv, Telling
    <2>2. Push!Quiet'
      BY <1>0, <1>1, <1>2, <1>8, <2>1 DEF Push!Quiet, Push!Announcing
    <2>3. \A c \in Open \ Astray' : c \in job[a].visited
      BY <1>1 DEF Open, Push!Here, Astray
    <2>4. \A c \in Open \ Astray' : shown[c] = status
      BY <2>1, <2>3
    <2>5. Push!ShowsTheStatus'
      BY <1>1, <1>5, <2>4 DEF Push!ShowsTheStatus, Open, Astray
    <2> QED BY <1>4, <1>5, <1>7, <2>2, <2>5 DEF PushInv, Uncertain
  <1>9. CASE ~(Current(a) /\ publishing = NULL /\ channel = <<>>)
    <2>1. a \in Push!Announcing
      BY <1>0 DEF Push!Announcing
    <2>2. Open \subseteq Astray
      BY <1>6, <1>9, <2>1 DEF PushInv, Uncertain, Settling, Push!Quiet
    <2>3. Open' \subseteq Astray'
      BY <1>3, <1>5, <2>2
    <2>4. Push!ShowsTheStatus'
      BY <2>3 DEF Push!ShowsTheStatus, Open, Astray
    <2> QED BY <1>4, <1>5, <1>7, <2>3, <2>4 DEF PushInv, Uncertain
  <1> QED BY <1>8, <1>9

\* A connection that comes is behind if anything is underway; one that goes
\* changes nothing for the others.
LEMMA VisitorsStay ==
  ASSUME PushInv, NEW c \in Push!Connections, UNCHANGED <<status, publishing, channel>>,
         \A a \in Push!Announcers : /\ job'[a].message = job[a].message /\ job'[a].at = job[a].at
                                    /\ job'[a].visited = job[a].visited
                                    /\ job'[a].crossed = job[a].crossed,
         \A d \in Push!Connections \ {c} : /\ connection'[d] = connection[d] /\ shown'[d] = shown[d]
                                           /\ d \in Astray' <=> d \in Astray,
         connection'[c] = "open" =>
            \/ /\ connection[c] = "open" /\ shown'[c] = shown[c]
               /\ c \in Astray' <=> c \in Astray
            \/ /\ connection[c] \in {"new", "reading"}
               /\ c \in Astray' \/ (~Push!Busy /\ shown'[c] \in {status, NULL})
  PROVE  Telling' /\ Uncertain' /\ Push!ShowsTheStatus'
  <1>1. Push!Announcing' = Push!Announcing /\ \A a \in Push!Announcers : Current(a)' <=> Current(a)
    BY DEF Push!Announcing, Current
  <1>2. \A d \in Open' \ {c} : d \in Open /\ shown'[d] = shown[d] /\ (d \in Astray' <=> d \in Astray)
    BY DEF Open
  <1>3. \A a \in Push!Announcers : c \in job[a].visited => connection[c] \notin {"new", "reading"}
    BY DEF PushInv, Connected
  <1>4. Telling'
    <2> SUFFICES ASSUME NEW a \in Push!Announcers, Current(a)
                 PROVE  /\ Push!Announcing = {a} /\ job[a].message = status
                        /\ a # "listener" => publishing = NULL /\ channel = <<>>
                        /\ \A d \in job[a].visited \cap Open' : shown'[d] = status
                        /\ job[a].at = "instance" =>
                              \A d \in (Open' \cap Users) \ Astray' : shown'[d] = status
      BY <1>1 DEF Telling
    <2>1. /\ Push!Announcing = {a} /\ job[a].message = status
          /\ a # "listener" => publishing = NULL /\ channel = <<>>
          /\ \A d \in job[a].visited \cap Open : shown[d] = status
          /\ job[a].at = "instance" => \A d \in (Open \cap Users) \ Astray : shown[d] = status
      BY DEF PushInv, Telling
    <2>2. Push!Busy
      BY <2>1 DEF Push!Busy
    <2>3. c \in Open' => \/ c \in Open /\ shown'[c] = shown[c] /\ (c \in Astray' <=> c \in Astray)
                         \/ c \in Astray' /\ c \notin job[a].visited
      BY <1>3, <2>2 DEF Open
    <2> QED BY <1>2, <2>1, <2>3
  <1>5. Push!Quiet' <=> Push!Quiet
    BY <1>1 DEF Push!Quiet
  <1>6. Push!Busy <=> ~Push!Quiet
    BY DEF Push!Busy, Push!Quiet
  <1>7. Settling' <=> Settling
    BY <1>1 DEF Settling
  <1>8. Uncertain'
    <2>1. CASE Push!Quiet \/ Settling
      BY <1>5, <1>7, <2>1 DEF Uncertain
    <2>2. CASE ~Push!Quiet /\ Open \subseteq Astray
      <3>1. c \in Open' => c \in Astray'
        BY <1>6, <2>2 DEF Open
      <3>2. Open' \subseteq Astray'
        BY <1>2, <2>2, <3>1
      <3> QED BY <3>2 DEF Uncertain
    <2> QED BY <2>1, <2>2 DEF PushInv, Uncertain
  <1>9. Push!ShowsTheStatus'
    <2>1. SUFFICES ASSUME Push!Quiet, NEW d \in Open' \ Astray' PROVE shown'[d] \in {status, NULL}
      BY <1>5 DEF Push!ShowsTheStatus, Open, Astray
    <2>2. \A e \in Open \ Astray : shown[e] \in {status, NULL}
      BY <2>1 DEF PushInv, Push!ShowsTheStatus, Open, Astray
    <2>3. CASE d = c
      BY <2>1, <2>2, <2>3 DEF Open
    <2>4. CASE d # c
      BY <1>2, <2>1, <2>2, <2>4
    <2> QED BY <2>3, <2>4
  <1> QED BY <1>4, <1>8, <1>9

LEMMA ConnectionInv ==
  ASSUME PushInv, NEW c \in Push!Connections,
         Push!ConnectUser(c) \/ Push!Subscribe(c) \/ Push!ReadRow(c) \/ Push!ConnectWatcher(c)
         \/ Push!Leave(c)
  PROVE  PushInv'
  <1>0. /\ Push!TypeOK /\ Connected /\ Push!OpenIsRegistered
        /\ connection \in [Push!Connections -> {"new", "reading", "open", "left", "ended"}]
        /\ read \in [Push!Connections -> InstanceStatuses \cup {NULL}]
        /\ shown \in [Push!Connections -> InstanceStatuses \cup {NULL}]
        /\ status \in InstanceStatuses /\ behind \subseteq Push!Connections /\ misled \subseteq Push!Connections
        /\ Push!Busy \in BOOLEAN
    BY DEF PushInv, Push!TypeOK, Push!Busy
  <1>1. UNCHANGED <<status, publishing, channel, job>>
    BY DEF Push!ConnectUser, Push!Subscribe, Push!ReadRow, Push!ConnectWatcher, Push!Leave
  <1>2. CASE Push!ConnectUser(c)
    <2>1. /\ c \in Users /\ connection[c] = "new"
          /\ connection' = [connection EXCEPT ![c] = "open"]
          /\ registry' = [registry EXCEPT !["user"] = @ \cup {c}]
          /\ behind' = IF Push!Busy THEN behind \cup {c} ELSE behind
          /\ UNCHANGED <<read, shown, misled>>
      BY <1>2 DEF Push!ConnectUser, Push!Register
    <2>2. Push!TypeOK'
      BY <1>0, <1>1, <2>1 DEF Push!TypeOK
    <2>3. /\ registry'["user"] = registry["user"] \cup {c}
          /\ registry'["instance"] = registry["instance"]
      BY <1>0, <2>1 DEF Push!TypeOK, Push!Registries
    <2>4. Push!OpenIsRegistered'
      BY <1>0, <2>1, <2>3 DEF Push!OpenIsRegistered
    <2>5. connection'[c] = "open" /\ \A d \in Push!Connections \ {c} : connection'[d] = connection[d]
      BY <1>0, <2>1
    <2>6. Connected'
      BY <1>0, <1>1, <2>1, <2>3, <2>5, PushTyped DEF Connected, Push!Registries
    <2>7. shown[c] = NULL
      BY <1>0, <2>1 DEF Connected
    <2>8. c \in Astray' \/ (~Push!Busy /\ shown'[c] \in {status, NULL})
      BY <2>1, <2>7 DEF Astray
    <2>9. \A d \in Push!Connections \ {c} : shown'[d] = shown[d] /\ (d \in Astray' <=> d \in Astray)
      BY <2>1 DEF Astray
    <2>10. Telling' /\ Uncertain' /\ Push!ShowsTheStatus'
      BY <1>1, <2>1, <2>5, <2>8, <2>9, VisitorsStay
    <2> QED BY <2>2, <2>4, <2>6, <2>10 DEF PushInv
  <1>3. CASE Push!Subscribe(c)
    <2>1. /\ connection[c] = "open" /\ registry' = [registry EXCEPT !["instance"] = @ \cup {c}]
          /\ UNCHANGED <<connection, read, shown, behind, misled>>
      BY <1>3 DEF Push!Subscribe, Push!Register
    <2>2. Push!TypeOK'
      BY <1>0, <1>1, <2>1 DEF Push!TypeOK
    <2>3. /\ registry'["user"] = registry["user"]
          /\ registry'["instance"] = registry["instance"] \cup {c}
      BY <1>0, <2>1 DEF Push!TypeOK, Push!Registries
    <2>4. Push!OpenIsRegistered' /\ Connected'
      BY <1>0, <1>1, <2>1, <2>3 DEF Push!OpenIsRegistered, Connected, Push!Registries
    <2>5. Telling' /\ Uncertain' /\ Push!ShowsTheStatus'
      BY <1>1, <2>1, VisitorsStay DEF Astray
    <2> QED BY <2>2, <2>4, <2>5 DEF PushInv
  <1>4. CASE Push!ReadRow(c)
    <2>1. /\ c \in Watchers /\ connection[c] = "new"
          /\ connection' = [connection EXCEPT ![c] = "reading"]
          /\ read' = [read EXCEPT ![c] = status] /\ UNCHANGED <<shown, registry, behind, misled>>
      BY <1>4 DEF Push!ReadRow
    <2>2. Push!TypeOK'
      BY <1>0, <1>1, <2>1 DEF Push!TypeOK
    <2>3. connection'[c] = "reading" /\ \A d \in Push!Connections \ {c} : connection'[d] = connection[d]
      BY <1>0, <2>1
    <2>4. Push!OpenIsRegistered'
      BY <1>0, <2>1, <2>3 DEF Push!OpenIsRegistered
    <2>5. Connected'
      BY <1>0, <1>1, <2>1, <2>3, PushTyped DEF Connected
    <2>6. Telling' /\ Uncertain' /\ Push!ShowsTheStatus'
      BY <1>1, <2>1, <2>3, VisitorsStay DEF Astray
    <2> QED BY <2>2, <2>4, <2>5, <2>6 DEF PushInv
  <1>5. CASE Push!ConnectWatcher(c)
    <2>1. /\ connection[c] = "reading"
          /\ connection' = [connection EXCEPT ![c] = "open"]
          /\ registry' = [registry EXCEPT !["instance"] = @ \cup {c}]
          /\ shown' = [shown EXCEPT ![c] = read[c]] /\ read' = [read EXCEPT ![c] = NULL]
          /\ behind' = IF read[c] # status \/ Push!Busy THEN behind \cup {c} ELSE behind
          /\ misled' = misled
      BY <1>5 DEF Push!ConnectWatcher, Push!Register
    <2>2. Push!TypeOK'
      BY <1>0, <1>1, <2>1 DEF Push!TypeOK
    <2>3. /\ registry'["user"] = registry["user"]
          /\ registry'["instance"] = registry["instance"] \cup {c}
      BY <1>0, <2>1 DEF Push!TypeOK, Push!Registries
    <2>4. /\ connection'[c] = "open" /\ shown'[c] = read[c]
          /\ \A d \in Push!Connections \ {c} :
                connection'[d] = connection[d] /\ shown'[d] = shown[d] /\ (d \in Astray' <=> d \in Astray)
      BY <1>0, <2>1 DEF Astray
    <2>5. Push!OpenIsRegistered'
      <3>1. c \notin Users
        BY <1>0, <2>1, PortalAssumption DEF Connected
      <3> QED BY <1>0, <2>1, <2>3, <2>4, <3>1 DEF Push!OpenIsRegistered
    <2>6. Connected'
      BY <1>0, <1>1, <2>1, <2>3, <2>4, PushTyped DEF Connected, Push!Registries
    <2>7. c \in Astray' \/ (~Push!Busy /\ shown'[c] \in {status, NULL})
      BY <2>1, <2>4 DEF Astray
    <2>8. Telling' /\ Uncertain' /\ Push!ShowsTheStatus'
      BY <1>1, <2>1, <2>4, <2>7, VisitorsStay
    <2> QED BY <2>2, <2>5, <2>6, <2>8 DEF PushInv
  <1>6. CASE Push!Leave(c)
    <2>1. /\ connection[c] = "open"
          /\ connection' = [connection EXCEPT ![c] = "left"]
          /\ shown' = [shown EXCEPT ![c] = NULL] /\ behind' = behind \ {c}
          /\ misled' = misled \ {c}
          /\ UNCHANGED <<read, registry>>
      BY <1>6 DEF Push!Leave
    <2>2. Push!TypeOK'
      BY <1>0, <1>1, <2>1 DEF Push!TypeOK
    <2>3. /\ connection'[c] = "left"
          /\ \A d \in Push!Connections \ {c} :
                connection'[d] = connection[d] /\ shown'[d] = shown[d] /\ (d \in Astray' <=> d \in Astray)
      BY <1>0, <2>1 DEF Astray
    <2>4. Push!OpenIsRegistered'
      BY <1>0, <2>1, <2>3 DEF Push!OpenIsRegistered
    <2>5. Connected'
      BY <1>0, <1>1, <2>1, <2>3, PushTyped DEF Connected
    <2>6. Telling' /\ Uncertain' /\ Push!ShowsTheStatus'
      BY <1>1, <2>3, VisitorsStay
    <2> QED BY <2>2, <2>4, <2>5, <2>6 DEF PushInv
  <1> QED BY <1>2, <1>3, <1>4, <1>5, <1>6

LEMMA EndHandlerInv ==
  ASSUME PushInv, NEW c \in Push!Connections, Push!EndHandler(c)
  PROVE  PushInv'
  <1>0. /\ Push!TypeOK /\ Connected /\ Push!OpenIsRegistered
        /\ connection \in [Push!Connections -> {"new", "reading", "open", "left", "ended"}]
    BY DEF PushInv, Push!TypeOK
  <1>1. /\ connection[c] = "left" /\ connection' = [connection EXCEPT ![c] = "ended"]
        /\ registry' = Push!Unregistered(c)
        /\ UNCHANGED <<status, read, shown, publishing, channel, behind, misled>>
    BY DEF Push!EndHandler
  <1>2. /\ registry' \in [Push!Registries -> SUBSET Push!Connections]
        /\ \A r \in Push!Registries : /\ registry'[r] \subseteq registry[r]
                                      /\ registry[r] \subseteq registry'[r] \cup {c}
    BY <1>0, <1>1 DEF Push!Unregistered, Push!TypeOK
  <1>3. connection'[c] = "ended" /\ \A d \in Push!Connections \ {c} : connection'[d] = connection[d]
    BY <1>0, <1>1
  <1>4. ASSUME NEW a \in Push!Announcers
        PROVE  /\ job'[a] \in Push!Job
               /\ job'[a].message = job[a].message /\ job'[a].at = job[a].at
               /\ job'[a].visited = job[a].visited /\ job'[a].dead = job[a].dead
               /\ job'[a].crossed = job[a].crossed
    <2>1. job[a] \in Push!Job
      BY <1>0, PushTyped
    <2>2. job'[a] = [job[a] EXCEPT !.members = NULL] \/ job'[a] = job[a]
      BY DEF Push!EndHandler
    <2> QED BY <2>1, <2>2 DEF Push!Job
  <1>5. job' \in [Push!Announcers -> Push!Job]
    <2>1. job' = [a \in Push!Announcers |-> job'[a]]
      BY DEF Push!EndHandler
    <2> QED BY <1>4, <2>1
  <1>6. Push!TypeOK'
    BY <1>0, <1>1, <1>2, <1>5 DEF Push!TypeOK
  <1>7. Push!OpenIsRegistered'
    BY <1>0, <1>1, <1>2, <1>3 DEF Push!OpenIsRegistered, Push!Registries
  <1>8. Connected'
    BY <1>0, <1>1, <1>2, <1>3, <1>4, PushTyped DEF Connected
  <1>9. Telling' /\ Uncertain' /\ Push!ShowsTheStatus'
    BY <1>1, <1>3, <1>4, VisitorsStay DEF Astray
  <1> QED BY <1>6, <1>7, <1>8, <1>9 DEF PushInv

LEMMA PushStep == PushInv /\ [Push!Next]_Push!vars => PushInv'
  <1> SUFFICES ASSUME PushInv, [Push!Next]_Push!vars PROVE PushInv'
    OBVIOUS
  <1>1. ASSUME NEW r \in Requests, Push!Request(r) \/ Push!Uncommitted(r) PROVE PushInv'
    BY <1>1, RequestInv, UncommittedInv
  <1>2. ASSUME NEW a \in Push!Announcers, Push!Proceed(a) PROVE PushInv'
    BY <1>2, StartInv, SendInv, EndOfSetInv, AbortInv DEF Push!Proceed
  <1>3. ASSUME NEW c \in Push!Connections,
               \/ Push!ConnectUser(c) \/ Push!Subscribe(c) \/ Push!ReadRow(c)
               \/ Push!ConnectWatcher(c) \/ Push!Leave(c) \/ Push!EndHandler(c)
        PROVE PushInv'
    BY <1>3, ConnectionInv, EndHandlerInv
  <1>4. CASE UNCHANGED Push!vars
    <2>1. Push!TypeOK'
      BY <1>4 DEF Push!vars, PushInv, Push!TypeOK
    <2>2. Push!OpenIsRegistered' /\ Connected'
      BY <1>4 DEF Push!vars, PushInv, Push!OpenIsRegistered, Connected
    <2>3. Telling' /\ Uncertain' /\ Push!ShowsTheStatus'
      BY <1>4 DEF Push!vars, PushInv, Telling, Current, Open, Push!Announcing, Uncertain, Settling,
                  Push!Quiet, Push!ShowsTheStatus, Astray
    <2> QED BY <2>1, <2>2, <2>3 DEF PushInv
  <1> QED BY <1>1, <1>2, <1>3, <1>4, SyncInv, PublishInv, ListenInv,
         UnannouncedInv DEF Push!Next

-----------------------------------------------------------------------------
(***************************************************************************)
(* What follows.                                                           *)
(***************************************************************************)
LEMMA CheckInvariant == Spec => []CheckInv
  <1>1. CheckInv /\ [Next]_vars => CheckInv'
    BY CheckInvStep
  <1> QED BY CheckInit, <1>1, PTL DEF Spec

LEMMA DeskInvariant == Desk!Spec => []DeskInv
  <1>1. DeskInv /\ [Desk!Next]_Desk!vars => DeskInv'
    BY DeskStep
  <1> QED BY DeskInit, <1>1, PTL DEF Desk!Spec

LEMMA AccountInvariant == Acct!Spec => []AccountInv
  <1>1. AccountInv /\ [Acct!Next]_Acct!vars => AccountInv'
    BY AccountStep
  <1> QED BY AccountInit, <1>1, PTL DEF Acct!Spec

LEMMA PushInvariant == Push!Spec => []PushInv
  <1>1. PushInv /\ [Push!Next]_Push!vars => PushInv'
    BY PushStep
  <1> QED BY PushInit, <1>1, PTL DEF Push!Spec

\* What runs beside the other parts behaves as each part does alone: captchas,
\* codes and logins, tickets, accounts and the pushed status share no state.
THEOREM PartsAsAlone == PortalSpec => Spec /\ Desk!Spec /\ Acct!Spec /\ Push!Spec
  <1>1. PortalInit => Init /\ Desk!Init /\ Acct!Init /\ Push!Init
    BY DEF PortalInit
  <1>2. [PortalNext]_<<running, pushVars, acctVars, deskVars, vars>> =>
           [Next]_vars /\ [Desk!Next]_Desk!vars /\ [Acct!Next]_Acct!vars /\ [Push!Next]_Push!vars
    BY DEF PortalNext, pushVars, acctVars, deskVars, Push!vars, Acct!vars, Desk!vars
  <1> QED BY <1>1, <1>2, PTL DEF PortalSpec, Spec, Desk!Spec, Acct!Spec, Push!Spec

\* Every request and every table, cache and connection keeps its type: no
\* handler of auth.py, tickets.py, websocket.py and ws_manager.py leaves a
\* column, a key or a registry that another one could not go on with.
THEOREM TypesStay ==
  PortalSpec => [](TypeOK /\ Desk!TypeOK /\ Acct!TypeOK /\ Push!TypeOK)
  <1>1. CheckInv => TypeOK
    BY DEF CheckInv
  <1>2. DeskInv => Desk!TypeOK
    BY DEF DeskInv
  <1>3. AccountInv => Acct!TypeOK
    BY DEF AccountInv
  <1>4. PushInv => Push!TypeOK
    BY DEF PushInv
  <1> QED BY PartsAsAlone, CheckInvariant, DeskInvariant, AccountInvariant, PushInvariant,
             <1>1, <1>2, <1>3, <1>4, PTL

\* _get_and_delete_captcha and _pop_verify_code let every captcha and every
\* mailed code be compared once at most, whatever requests overlap.
THEOREM AnswersComparedOnce == (Spec => []ComparedOnce) /\ (PortalSpec => []ComparedOnce)
  <1>1. CheckInv => ComparedOnce
    BY DEF CheckInv, TypeOK, CaptchasFresh, CodesFresh, ComparedOnce
  <1> QED BY PartsAsAlone, CheckInvariant, <1>1, PTL

\* _check_login_rate lets no more logins of an address or an e-mail through in
\* any window than its limit, without Redis; with it at most one more for every
\* other request that had counted before.
THEOREM LoginsStayLimited == (Spec => []LoginsLimited) /\ (PortalSpec => []LoginsLimited)
  <1>1. CheckInv => LoginsLimited
    <2> SUFFICES ASSUME CheckInv, NEW k \in Kinds
                 PROVE  SumFunction(Recent(k)) <= Limit(k) + Excess
      BY DEF LoginsLimited, Excess
    <2>1. /\ SumFunction(Recent(k)) \in Nat /\ Limit(k) \in Nat /\ Excess \in Nat
          /\ Cardinality(Counting(k)) \in Nat
      BY RateTyped DEF CheckInv
    <2>2. SumFunction(Recent(k)) + Cardinality(Counting(k)) <= Limit(k) + Excess
      BY DEF CheckInv, RoomToAdd
    <2> QED BY <2>1, <2>2
  <1> QED BY PartsAsAlone, CheckInvariant, <1>1, PTL

\* The handler of a ticket is the administrator whose reply it shows, however
\* many administrators take turns, unless two requests overlapped.
THEOREM HandlerIsReplier == (Desk!Spec => []Desk!HandlerReplied) /\ (PortalSpec => []HandlerReplied)
  <1>1. DeskInv => Desk!HandlerReplied /\ HandlerReplied
    BY DEF DeskInv, HandlerReplied
  <1> QED BY PartsAsAlone, DeskInvariant, <1>1, PTL

\* The inviter of an account is rewarded once, and has been when the account is
\* active and nothing is underway, whatever was registered again, sent again or
\* used twice, unless two requests overlapped or the reward failed.
THEOREM RewardsAreOnce == (Acct!Spec => []Acct!RewardedOnce) /\ (PortalSpec => []RewardedOnce)
  <1>1. AccountInv => Acct!RewardedOnce /\ RewardedOnce
    BY AccountFacts DEF RewardedOnce
  <1> QED BY PartsAsAlone, AccountInvariant, <1>1, PTL

\* A link sets one password, unless two requests overlapped: the link in the
\* row, those on their way into it and those used are different ones.
THEOREM ResetsAreOnce == (Acct!Spec => []Acct!ResetOnce) /\ (PortalSpec => []ResetOnce)
  <1>1. AccountInv => Acct!ResetOnce /\ ResetOnce
    BY AccountFacts DEF ResetOnce
  <1> QED BY PartsAsAlone, AccountInvariant, <1>1, PTL

\* Whatever connections come, leave and end while broadcasts iterate their
\* registries, one that is open stays registered.
THEOREM OpenStaysRegistered ==
  (Push!Spec => []Push!OpenIsRegistered) /\ (PortalSpec => []OpenIsRegistered)
  <1>1. PushInv => Push!OpenIsRegistered /\ OpenIsRegistered
    BY DEF PushInv, OpenIsRegistered
  <1> QED BY PartsAsAlone, PushInvariant, <1>1, PTL

\* However broadcasts, lost messages, connections and committed changes interleave,
\* once nothing is underway an open connection shows the committed status, or
\* nothing yet, if it was there neither when a status was committed in silence
\* (GET /instances, billing and the others that Unannounced names) nor when a message
\* was lost, broke off or crossed another, or a whole broadcast has reached it since.
THEOREM StatusIsShown == (Push!Spec => []Push!ShowsTheStatus) /\ (PortalSpec => []ShowsTheStatus)
  <1>1. PushInv => Push!ShowsTheStatus /\ ShowsTheStatus
    BY DEF PushInv, ShowsTheStatus
  <1> QED BY PartsAsAlone, PushInvariant, <1>1, PTL

=============================================================================
