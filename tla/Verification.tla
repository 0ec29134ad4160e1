----------------------------- MODULE Verification -----------------------------
(***************************************************************************)
(* What app/api/v1/auth.py keeps beside the accounts: captchas, the code   *)
(* that was mailed to an address, and the times of recent logins, by which *)
(* it limits their rate.  They are in Redis, where every call is a step of *)
(* its own, or, if Redis did not answer the first time, in the memory of   *)
(* the process, where nothing comes in between.                            *)
(***************************************************************************)
EXTENDS Integers, FiniteSets, FiniteSetsExt

CONSTANTS
    Sessions,  \* slots for requests, of one client for one address
    Captchas,  \* identities of captchas
    Codes,     \* the random numbers, each generated once
    MaxIp,     \* LOGIN_MAX_ATTEMPTS_IP
    MaxEmail,  \* LOGIN_MAX_ATTEMPTS_EMAIL
    Window,    \* LOGIN_RATE_WINDOW
    Horizon,   \* bound on the clock
    NULL

ASSUME ConstantsAssumption ==
    /\ IsFiniteSet(Sessions) /\ Sessions # {}
    /\ Captchas \cap Codes = {} /\ NULL \notin Captchas \cup Codes
    /\ MaxIp \in Nat /\ MaxEmail \in Nat /\ Window \in Nat /\ Horizon \in Nat

VARIABLES
    redis,     \* _redis_available
    now,
    captcha,   \* each captcha: not drawn yet, stored, taken or expired
    code,      \* the stored code
    recent,    \* it was stored less than a minute ago
    attempts,  \* by address and by e-mail, the number of logins at each time
    sess,      \* what each request is doing
    mailed,    \* the codes that have been generated
    compared,  \* auxiliary: how often an answer was compared with each
    admitted   \* auxiliary: attempts, of all time

kept == <<captcha, code, recent, mailed, compared>>
rate == <<attempts, admitted>>
vars == <<redis, now, kept, rate, sess>>

Kinds == {"ip", "email"}
Limit(k) == IF k = "ip" THEN MaxIp ELSE MaxEmail
Times == 0 .. Horizon
Steps == {"idle", "ip", "addIp", "email", "addEmail", "captcha", "look", "set", "code"}

Session == [at   : Steps,
            item : Captchas \cup Codes \cup {NULL},  \* the captcha or the code of the request
            when : Times]

Idle == [at |-> "idle", item |-> NULL, when |-> 0]

Init ==
    /\ redis \in BOOLEAN /\ now = 0
    /\ captcha = [c \in Captchas |-> "new"]
    /\ code = NULL /\ recent = FALSE
    /\ attempts = [k \in Kinds |-> [t \in Times |-> 0]] /\ admitted = attempts
    /\ sess = [s \in Sessions |-> Idle]
    /\ mailed = {} /\ compared = [x \in Captchas \cup Codes |-> 0]

Goto(s, step) == sess' = [sess EXCEPT ![s].at = step]
Finish(s)     == sess' = [sess EXCEPT ![s] = Idle]

Begin(s, step, item) ==
    /\ sess[s].at = "idle"
    /\ sess' = [sess EXCEPT ![s] = [at |-> step, item |-> item, when |-> now]]
    /\ UNCHANGED <<redis, now, kept, rate>>

-----------------------------------------------------------------------------
(***************************************************************************)
(* The rate of logins.                                                     *)
(***************************************************************************)
\* A login with a captcha, or with none, which passes.
Login(s) == \E c \in {x \in Captchas : captcha[x] # "new"} \cup {NULL} : Begin(s, "ip", c)

\* Variant of Within: the oldest minute of the window is forgotten.
WithinShort(t) == now - t < Window - 1

\* The attempt at t counts.
Within(t) == now - t < Window

Counted(k)   == [t \in Times |-> IF Within(t) THEN attempts[k][t] ELSE 0]
Total(times) == SumFunction(times)
Adding(k)    == IF k = "ip" THEN "addIp" ELSE "addEmail"
After(k)     == IF k = "ip" THEN "email" ELSE "captcha"

Add(k, times, t) ==
    /\ attempts' = [attempts EXCEPT ![k] = [times EXCEPT ![t] = @ + 1]]
    /\ admitted' = [admitted EXCEPT ![k][t] = @ + 1]

\* _check_login_rate: drop what is old, count.  In Redis the attempt is added by
\* another call.
CheckLoginRate(s, k) ==
    /\ sess[s].at = k
    /\ IF Total(Counted(k)) < Limit(k) /\ ~redis
       THEN Add(k, Counted(k), now) /\ Goto(s, After(k))
       ELSE /\ attempts' = [attempts EXCEPT ![k] = Counted(k)] /\ UNCHANGED admitted
            /\ IF Total(Counted(k)) >= Limit(k) THEN Finish(s)
               ELSE sess' = [sess EXCEPT ![s].at = Adding(k), ![s].when = now]
    /\ UNCHANGED <<redis, now, kept>>

AddAttempt(s, k) ==
    /\ sess[s].at = Adding(k)
    /\ Add(k, attempts[k], sess[s].when)
    /\ Goto(s, After(k))
    /\ UNCHANGED <<redis, now, kept>>

-----------------------------------------------------------------------------
(***************************************************************************)
(* Captchas and codes.                                                     *)
(***************************************************************************)
GetCaptcha(c) ==
    /\ captcha[c] = "new"
    /\ captcha' = [captcha EXCEPT ![c] = "stored"]
    /\ UNCHANGED <<redis, now, code, recent, mailed, compared, rate, sess>>

Compared(x) == compared' = [compared EXCEPT ![x] = @ + 1]

\* _get_and_delete_captcha; right or wrong, what follows reads the account only.
TakeCaptcha(s) ==
    LET c == sess[s].item IN
    /\ sess[s].at = "captcha"
    /\ IF c \in Captchas /\ captcha[c] = "stored"
       THEN captcha' = [captcha EXCEPT ![c] = "gone"] /\ Compared(c)
       ELSE UNCHANGED <<captcha, compared>>
    /\ Finish(s)
    /\ UNCHANGED <<redis, now, code, recent, mailed, rate>>

SendCode(s) == Begin(s, "look", NULL)

Stored(c) == code' = c /\ recent' = TRUE

\* A new code, not within a minute of the last one.
NewCode(s) ==
    /\ sess[s].at = "look"
    /\ IF code # NULL /\ recent THEN Finish(s) /\ UNCHANGED <<code, recent, mailed>>
       ELSE \E c \in Codes \ mailed :
              /\ mailed' = mailed \cup {c}
              /\ IF redis THEN /\ sess' = [sess EXCEPT ![s].at = "set", ![s].item = c]
                               /\ UNCHANGED <<code, recent>>
                 ELSE Finish(s) /\ Stored(c)
    /\ UNCHANGED <<redis, now, captcha, compared, rate>>

SetCode(s) ==
    /\ sess[s].at = "set"
    /\ Stored(sess[s].item) /\ Finish(s)
    /\ UNCHANGED <<redis, now, captcha, mailed, compared, rate>>

LoginWithCode(s) == Begin(s, "code", NULL)

\* Variant of Popped: the code stays for another try.
PoppedNot == UNCHANGED <<code, recent>>

Popped == code' = NULL /\ recent' = FALSE

\* _pop_verify_code.
PopCode(s) ==
    /\ sess[s].at = "code"
    /\ IF code # NULL THEN Popped /\ Compared(code) ELSE UNCHANGED <<code, recent, compared>>
    /\ Finish(s)
    /\ UNCHANGED <<redis, now, captcha, mailed, rate>>

-----------------------------------------------------------------------------
\* Times to live.
Expire ==
    /\ \/ \E c \in Captchas : /\ captcha[c] = "stored" /\ captcha' = [captcha EXCEPT ![c] = "gone"]
                              /\ UNCHANGED <<code, recent>>
       \/ code # NULL /\ recent' = FALSE /\ code' \in {code, NULL} /\ UNCHANGED captcha
    /\ UNCHANGED <<redis, now, mailed, compared, rate, sess>>

Tick ==
    /\ now < Horizon /\ now' = now + 1
    /\ UNCHANGED <<redis, kept, rate, sess>>

\* An error of Redis, or the end of the request.
Lose(s) ==
    /\ sess[s].at # "idle" /\ redis
    /\ Finish(s)
    /\ UNCHANGED <<redis, now, kept, rate>>

Next ==
    \/ \E s \in Sessions :
          \/ Login(s) \/ TakeCaptcha(s) \/ SendCode(s) \/ NewCode(s) \/ SetCode(s)
          \/ LoginWithCode(s) \/ PopCode(s) \/ Lose(s)
          \/ \E k \in Kinds : CheckLoginRate(s, k) \/ AddAttempt(s, k)
    \/ \E c \in Captchas : GetCaptcha(c)
    \/ Expire \/ Tick

Spec == Init /\ [][Next]_vars

-----------------------------------------------------------------------------
TypeOK ==
    /\ redis \in BOOLEAN /\ now \in Times
    /\ captcha \in [Captchas -> {"new", "stored", "gone"}]
    /\ code \in Codes \cup {NULL} /\ recent \in BOOLEAN
    /\ attempts \in [Kinds -> [Times -> Nat]] /\ admitted \in [Kinds -> [Times -> Nat]]
    /\ sess \in [Sessions -> Session]
    /\ mailed \subseteq Codes /\ compared \in [Captchas \cup Codes -> Nat]

\* The logins that were let through within the window that ends now.
Recent(k) == [t \in Times |-> IF t <= now /\ now - t < Window THEN admitted[k][t] ELSE 0]

\* In any window of time no more logins pass the limit than it allows; in Redis,
\* where counting and adding are two calls, one more for every other request
\* that may have counted before.
LoginsLimited ==
    \A k \in Kinds : SumFunction(Recent(k)) <= Limit(k) + (IF redis THEN Cardinality(Sessions) - 1 ELSE 0)

\* An answer is compared with a captcha or a mailed code once, right or wrong,
\* however requests for the same one overlap.
ComparedOnce == \A x \in Captchas \cup Codes : compared[x] <= 1

=============================================================================
