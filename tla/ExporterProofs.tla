---------------------------- MODULE ExporterProofs ----------------------------
(***************************************************************************)
(* Proofs about the two exporters.  About ExporterRegister, by which       *)
(* x-monitor makes itself known to prometheus: for every configuration,    *)
(* every width of the fields and every sequence of answers.  About         *)
(* ProcessVM, the program of the eBPF exporter that keeps an account of    *)
(* the memory of every process: for any number of processes, threads and   *)
(* names, any sizes of the queues and any number of events.                *)
(***************************************************************************)
EXTENDS ExporterRegister, ProcessVM, WellFoundedInduction, FiniteSetTheorems,
        SequenceTheorems, TLAPS

-----------------------------------------------------------------------------
(*                        Registration at the manager                      *)
-----------------------------------------------------------------------------
(* Arithmetic *)

\* A narrowed value fits the width it is narrowed to.
LEMMA NarrowFits ==
  ASSUME NEW n \in Int, NEW w \in Nat \ {0}
  PROVE  n % w \in 0 .. w - 1
OBVIOUS

\* Narrowing a value that fits changes nothing.
LEMMA NarrowKeeps ==
  ASSUME NEW w \in Nat \ {0}, NEW n \in 0 .. w - 1
  PROVE  n % w = n
OBVIOUS

\* A delay drawn by BackoffAlgorithm_GetNextBackoff is at most the jitter.
LEMMA DrawBounded ==
  ASSUME NEW r \in Nat, NEW w \in Nat \ {0}, NEW j \in 0 .. w - 1
  PROVE  (r % (j + 1)) % w \in 0 .. j
<1>1. r % (j + 1) \in 0 .. j
  BY NarrowFits, j + 1 \in Nat \ {0}, (j + 1) - 1 = j
<1>2. r % (j + 1) \in 0 .. w - 1
  BY <1>1
<1>3. QED
  BY <1>1, <1>2, NarrowKeeps

\* The doubling of nextJitterMax neither wraps nor passes the maximum.
LEMMA JitterBounded ==
  ASSUME TypeOK
  PROVE  NextJitter \in 0 .. maxBackoffDelay
<1> USE ConfigsAssumption
<1>1. /\ nextJitterMax \in 0 .. Word16 - 1
      /\ maxBackoffDelay \in 0 .. Word16 - 1
  BY DEF TypeOK
<1>2. CASE nextJitterMax < maxBackoffDelay \div 2
  <2>1. nextJitterMax + nextJitterMax \in 0 .. maxBackoffDelay
    BY <1>1, <1>2
  <2>2. nextJitterMax + nextJitterMax \in 0 .. Word16 - 1
    BY <2>1, <1>1
  <2>3. (nextJitterMax + nextJitterMax) % Word16 = nextJitterMax + nextJitterMax
    BY <2>2, NarrowKeeps
  <2>4. QED
    BY <2>1, <2>3, <1>2 DEF NextJitter
<1>3. CASE ~(nextJitterMax < maxBackoffDelay \div 2)
  BY <1>1, <1>3 DEF NextJitter
<1>4. QED
  BY <1>2, <1>3

-----------------------------------------------------------------------------
(* The inductive invariants *)

\* Before the registration begins nothing has been drawn or asked for.
BeginInv ==
    /\ pc \in {"start", "client", "request"} => attemptsDone = 0 /\ tries = 0
    /\ pc = "start" => nextJitterMax = 0 /\ nextRetryBackoff = 0
    /\ pc \in {"start", "client"} => hc = "null"

\* Every answer but the last one used up an attempt.
TriesInv ==
    maxRetryAttempts # Forever =>
        /\ attemptsDone <= maxRetryAttempts
        /\ tries <= attemptsDone + 1
        /\ pc \in {"http", "sleep"} => tries <= attemptsDone

\* Until the offline request is sent, only register requests are under way.
ListedInv ==
    /\ pc \notin {"offline", "cleanup", "done"} => late \subseteq {"register"}
    /\ pc = "answered" /\ answer = "ok" => listed
    /\ AcceptedIsListed

RegisterInv == TypeOK /\ BeginInv /\ DelayBounded /\ TriesInv /\ ListedInv

\* It holds before the registration begins.
LEMMA RegisterInit == Init => RegisterInv
<1> USE ConfigsAssumption
<1> SUFFICES ASSUME Init PROVE RegisterInv
  OBVIOUS
<1>1. TypeOK
  <2>1. 0 \in 0 .. Word16 - 1 /\ 0 \in 0 .. Word32 - 1 /\ 0 \in 0 .. TriesCap
    OBVIOUS
  <2>2. /\ pc \in Pcs /\ hc \in {"null", "live", "freed"}
        /\ answer \in Answers \union {"none"}
        /\ late \subseteq {"register", "offline"}
    BY DEF Init, Pcs
  <2>3. enabled \in BOOLEAN /\ listed \in BOOLEAN
    BY DEF Init
  <2>4. QED
    BY <2>1, <2>2, <2>3 DEF Init, TypeOK
<1>2. BeginInv
  BY DEF Init, BeginInv
<1>3. DelayBounded
  BY DEF Init, DelayBounded, Max2
<1>4. TriesInv
  BY DEF Init, TriesInv
<1>5. ListedInv
  BY DEF Init, ListedInv, AcceptedIsListed
<1>6. QED
  BY <1>1, <1>2, <1>3, <1>4, <1>5 DEF RegisterInv

\* The counters and the manager after an answer.
LEMMA DeliverTypes ==
  ASSUME TypeOK, NEW kind \in {"register", "offline"}, NEW a \in Answers,
         Deliver(kind, a)
  PROVE  /\ listed' \in BOOLEAN
         /\ late' \subseteq late \union {kind}
         /\ late' \subseteq {"register", "offline"}
         /\ kind = "register" /\ a = "ok" => listed'
BY DEF TypeOK, Deliver, remoteVars

\* Every step keeps the width of every field.
LEMMA NextTypes == TypeOK /\ [Next]_vars => TypeOK'
<1> USE ConfigsAssumption
<1> SUFFICES ASSUME TypeOK, [Next]_vars PROVE TypeOK'
  OBVIOUS
<1>1. ASSUME NEW c \in Configs, InitConfig(c) PROVE TypeOK'
  <2>1. /\ c.enable \in BOOLEAN
        /\ c.base % Word16 \in 0 .. Word16 - 1
        /\ c.max % Word16 \in 0 .. Word16 - 1
        /\ c.attempts % Word32 \in 0 .. Word32 - 1
    BY NarrowFits
  <2>2. QED
    BY <1>1, <2>1 DEF InitConfig, TypeOK, Pcs, remoteVars
<1>2. CASE CreateClient
  BY <1>2 DEF CreateClient, TypeOK, Pcs, remoteVars, backoffVars
<1>3. CASE MakeRegisterRequest
  BY <1>3 DEF MakeRegisterRequest, InitializeParams, TypeOK, Pcs, mgrVars,
     remoteVars, backoffVars
<1>4. ASSUME NEW a \in Answers, HttpDo(a) PROVE TypeOK'
  <2>1. Deliver("register", a)
    BY <1>4 DEF HttpDo
  <2>2. listed' \in BOOLEAN /\ late' \subseteq {"register", "offline"}
    BY <2>1, DeliverTypes
  <2>3. QED
    BY <1>4, <2>2 DEF HttpDo, TypeOK, Pcs, mgrVars, backoffVars
<1>5. CASE Accept
  BY <1>5 DEF Accept, TypeOK, Pcs, mgrVars, remoteVars, backoffVars
<1>6. ASSUME NEW rand \in 0 .. RandMax, Backoff(rand) PROVE TypeOK'
  <2>1. /\ nextJitterMax \in 0 .. Word16 - 1
        /\ maxBackoffDelay \in 0 .. Word16 - 1
        /\ attemptsDone \in Int
    BY DEF TypeOK
  <2>2. nextRetryBackoff' \in 0 .. Word16 - 1
    BY <1>6, <2>1, DrawBounded DEF Backoff
  <2>3. nextJitterMax' \in 0 .. Word16 - 1
    BY <1>6, <2>1, JitterBounded DEF Backoff
  <2>4. attemptsDone' \in 0 .. Word32 - 1
    BY <1>6, <2>1, NarrowFits DEF Backoff
  <2>5. QED
    BY <1>6, <2>2, <2>3, <2>4 DEF Backoff, TypeOK, Pcs, mgrVars, remoteVars
<1>7. CASE GiveUp
  BY <1>7 DEF GiveUp, TypeOK, Pcs, mgrVars, remoteVars, backoffVars
<1>8. CASE Wake
  BY <1>8 DEF Wake, TypeOK, Pcs, mgrVars, remoteVars, backoffVars
<1>9. CASE Unregister
  BY <1>9 DEF Unregister, TypeOK, Pcs, mgrVars, remoteVars, backoffVars
<1>10. ASSUME NEW a \in Answers, OfflineDo(a) PROVE TypeOK'
  <2>1. Deliver("offline", a)
    BY <1>10 DEF OfflineDo
  <2>2. listed' \in BOOLEAN /\ late' \subseteq {"register", "offline"}
    BY <2>1, DeliverTypes
  <2>3. QED
    BY <1>10, <2>2 DEF OfflineDo, TypeOK, Pcs, mgrVars, backoffVars
<1>11. CASE OfflineDoNull
  BY <1>11 DEF OfflineDoNull, TypeOK, Pcs, mgrVars, remoteVars, backoffVars
<1>12. CASE Cleanup
  BY <1>12 DEF Cleanup, TypeOK, Pcs, remoteVars, backoffVars
<1>13. ASSUME NEW kind \in {"register", "offline"}, LateArrival(kind)
       PROVE  TypeOK'
  BY <1>13 DEF LateArrival, TypeOK, Pcs, mgrVars, backoffVars
<1>14. CASE HttpDoNull \/ UNCHANGED vars
  BY <1>14 DEF HttpDoNull, vars, TypeOK, mgrVars, remoteVars, backoffVars
<1>15. QED
  BY <1>1, <1>2, <1>3, <1>4, <1>5, <1>6, <1>7, <1>8, <1>9, <1>10, <1>11,
     <1>12, <1>13, <1>14 DEF Next, Register

\* Every step keeps what holds before the first answer.
LEMMA NextStart == RegisterInv /\ [Next]_vars => BeginInv'
<1> SUFFICES ASSUME RegisterInv, [Next]_vars PROVE BeginInv'
  OBVIOUS
<1> USE DEF mgrVars, remoteVars, backoffVars
<1>1. BeginInv /\ pc \in Pcs
  BY DEF RegisterInv, TypeOK
<1>2. ASSUME NEW c \in Configs, InitConfig(c) PROVE BeginInv'
  BY <1>1, <1>2 DEF InitConfig, BeginInv
<1>3. CASE CreateClient \/ MakeRegisterRequest
  BY <1>1, <1>3 DEF CreateClient, MakeRegisterRequest, InitializeParams, BeginInv
<1>4. ASSUME NEW a \in Answers, HttpDo(a) \/ OfflineDo(a) PROVE BeginInv'
  BY <1>1, <1>4 DEF HttpDo, OfflineDo, BeginInv
<1>5. ASSUME NEW rand \in 0 .. RandMax, Backoff(rand) PROVE BeginInv'
  BY <1>1, <1>5 DEF Backoff, BeginInv
<1>6. CASE Accept \/ GiveUp \/ Wake
  BY <1>1, <1>6 DEF Accept, GiveUp, Wake, BeginInv
<1>7. CASE Unregister \/ OfflineDoNull \/ Cleanup
  BY <1>1, <1>7 DEF Unregister, OfflineDoNull, Cleanup, BeginInv
<1>8. ASSUME NEW kind \in {"register", "offline"}, LateArrival(kind)
      PROVE  BeginInv'
  BY <1>1, <1>8 DEF LateArrival, BeginInv
<1>9. CASE HttpDoNull \/ UNCHANGED vars
  BY <1>1, <1>9 DEF HttpDoNull, vars, BeginInv
<1>10. QED
  BY <1>2, <1>3, <1>4, <1>5, <1>6, <1>7, <1>8, <1>9 DEF Next, Register

\* Only three actions touch the delays: the configuration, the
\* initialisation of the context and the draw of the next delay.
LEMMA NextDelay == RegisterInv /\ [Next]_vars => DelayBounded'
<1> USE ConfigsAssumption
<1> SUFFICES ASSUME RegisterInv, [Next]_vars PROVE DelayBounded'
  OBVIOUS
<1>1. TypeOK /\ TypeOK' /\ BeginInv /\ DelayBounded
  BY NextTypes DEF RegisterInv
<1>2. /\ base \in Int /\ base' \in 0 .. Word16 - 1
      /\ maxBackoffDelay \in Int /\ maxBackoffDelay' \in 0 .. Word16 - 1
      /\ nextJitterMax \in 0 .. Word16 - 1
      /\ nextRetryBackoff \in Int /\ attemptsDone \in Int
  BY <1>1 DEF TypeOK
<1>3. CASE UNCHANGED <<base, backoffVars>>
  BY <1>1, <1>3 DEF DelayBounded, Max2, backoffVars
<1>4. ASSUME NEW c \in Configs, InitConfig(c) PROVE DelayBounded'
  <2>1. nextJitterMax' = 0 /\ nextRetryBackoff' = 0 /\ attemptsDone' = 0
    BY <1>1, <1>4 DEF InitConfig, BeginInv
  <2>2. QED
    BY <2>1, <1>2 DEF DelayBounded, Max2
<1>5. CASE MakeRegisterRequest
  <2>1. CASE InitializeParams
    BY <1>1, <1>2, <1>5, <2>1 DEF MakeRegisterRequest, InitializeParams,
       DelayBounded, Max2, mgrVars
  <2>2. CASE UNCHANGED backoffVars
    BY <1>3, <1>5, <2>2 DEF MakeRegisterRequest, mgrVars
  <2>3. QED
    BY <1>5, <2>1, <2>2 DEF MakeRegisterRequest
<1>6. ASSUME NEW rand \in 0 .. RandMax, Backoff(rand) PROVE DelayBounded'
  <2>1. nextRetryBackoff' \in 0 .. nextJitterMax
    BY <1>2, <1>6, DrawBounded DEF Backoff
  <2>2. nextJitterMax' \in 0 .. maxBackoffDelay
    BY <1>1, <1>6, JitterBounded DEF Backoff
  <2>3. UNCHANGED <<base, maxBackoffDelay>>
    BY <1>6 DEF Backoff, mgrVars
  <2>4. QED
    BY <1>1, <1>2, <2>1, <2>2, <2>3 DEF DelayBounded, Max2
<1>7. QED
  BY <1>3, <1>4, <1>5, <1>6 DEF Next, Register, CreateClient, HttpDo, Accept,
     GiveUp, Wake, HttpDoNull, Unregister, OfflineDo, OfflineDoNull, Cleanup,
     LateArrival, mgrVars, vars

\* Every step keeps the account of tries and attempts.
LEMMA NextTries == RegisterInv /\ [Next]_vars => TriesInv'
<1> USE ConfigsAssumption DEF mgrVars, remoteVars
<1> SUFFICES ASSUME RegisterInv, [Next]_vars PROVE TriesInv'
  OBVIOUS
<1>1. TypeOK /\ TypeOK' /\ BeginInv /\ TriesInv
  BY NextTypes DEF RegisterInv
<1>2. /\ attemptsDone \in 0 .. Word32 - 1 /\ tries \in Nat
      /\ maxRetryAttempts \in 0 .. Word32 - 1
      /\ maxRetryAttempts' \in 0 .. Word32 - 1
  BY <1>1 DEF TypeOK
<1>3. CASE /\ UNCHANGED <<maxRetryAttempts, attemptsDone, tries>>
           /\ pc' \in {"http", "sleep"} => pc \in {"http", "sleep"}
  BY <1>1, <1>3 DEF TriesInv, Forever
<1>4. ASSUME NEW c \in Configs, InitConfig(c) PROVE TriesInv'
  <2>1. attemptsDone' = 0 /\ tries' = 0
    BY <1>1, <1>4 DEF InitConfig, BeginInv
  <2>2. QED
    BY <2>1, <1>2 DEF TriesInv
<1>5. CASE MakeRegisterRequest
  <2>1. attemptsDone' = 0 /\ tries' = 0
    BY <1>1, <1>5 DEF MakeRegisterRequest, InitializeParams, BeginInv,
       backoffVars
  <2>2. QED
    BY <2>1, <1>2 DEF TriesInv
<1>6. ASSUME NEW a \in Answers, HttpDo(a) PROVE TriesInv'
  <2>1. /\ pc = "http" /\ pc' = "answered"
        /\ UNCHANGED <<maxRetryAttempts, attemptsDone>>
        /\ tries' <= tries + 1
    BY <1>2, <1>6 DEF HttpDo, backoffVars
  <2>2. tries' \in Nat
    BY <1>1 DEF TypeOK
  <2>3. QED
    BY <1>1, <1>2, <2>1, <2>2 DEF TriesInv, Forever
<1>7. ASSUME NEW rand \in 0 .. RandMax, Backoff(rand) PROVE TriesInv'
  <2>1. /\ pc = "answered" /\ UNCHANGED <<maxRetryAttempts, tries>>
        /\ attemptsDone' = (attemptsDone + 1) % Word32
    BY <1>7 DEF Backoff
  <2>2. CASE maxRetryAttempts = Forever
    BY <2>1, <2>2 DEF TriesInv, Forever
  <2>3. CASE maxRetryAttempts # Forever
    <3>1. attemptsDone < maxRetryAttempts
      BY <1>7, <2>3 DEF Backoff, MayRetry
    <3>2. attemptsDone + 1 \in 0 .. Word32 - 1
      BY <3>1, <1>2
    <3>3. attemptsDone' = attemptsDone + 1
      BY <2>1, <3>2, NarrowKeeps
    <3>4. QED
      BY <1>1, <1>2, <2>1, <2>3, <3>1, <3>3 DEF TriesInv
  <2>4. QED
    BY <2>2, <2>3
<1>8. CASE CreateClient \/ Accept \/ GiveUp \/ Wake
  BY <1>3, <1>8 DEF CreateClient, Accept, GiveUp, Wake, backoffVars
<1>9. CASE Unregister \/ OfflineDoNull \/ Cleanup
  BY <1>3, <1>9 DEF Unregister, OfflineDoNull, Cleanup, backoffVars
<1>10. ASSUME NEW a \in Answers, OfflineDo(a) PROVE TriesInv'
  BY <1>3, <1>10 DEF OfflineDo, backoffVars
<1>11. ASSUME NEW kind \in {"register", "offline"}, LateArrival(kind)
       PROVE  TriesInv'
  BY <1>3, <1>11 DEF LateArrival, backoffVars
<1>12. CASE HttpDoNull \/ UNCHANGED vars
  BY <1>3, <1>12 DEF HttpDoNull, vars, backoffVars
<1>13. QED
  BY <1>4, <1>5, <1>6, <1>7, <1>8, <1>9, <1>10, <1>11, <1>12
     DEF Next, Register

\* Every step keeps the relation to the manager.
LEMMA NextListed == RegisterInv /\ [Next]_vars => ListedInv'
<1> USE DEF mgrVars, remoteVars, backoffVars
<1> SUFFICES ASSUME RegisterInv, [Next]_vars PROVE ListedInv'
  OBVIOUS
<1>1. TypeOK /\ BeginInv /\ ListedInv
  BY DEF RegisterInv
<1>2. ASSUME NEW c \in Configs, InitConfig(c) PROVE ListedInv'
  BY <1>1, <1>2 DEF InitConfig, BeginInv, ListedInv, AcceptedIsListed
<1>3. CASE CreateClient \/ MakeRegisterRequest
  BY <1>1, <1>3 DEF CreateClient, MakeRegisterRequest, BeginInv, ListedInv,
     AcceptedIsListed
<1>4. ASSUME NEW a \in Answers, HttpDo(a) PROVE ListedInv'
  <2>1. /\ late' \subseteq late \union {"register"}
        /\ a = "ok" => listed'
    BY <1>1, <1>4, DeliverTypes DEF HttpDo
  <2>2. QED
    BY <1>1, <1>4, <2>1 DEF HttpDo, ListedInv, AcceptedIsListed
<1>5. CASE Accept
  BY <1>1, <1>5 DEF Accept, Success, ListedInv, AcceptedIsListed
<1>6. ASSUME NEW rand \in 0 .. RandMax, Backoff(rand) PROVE ListedInv'
  BY <1>1, <1>6 DEF Backoff, ListedInv, AcceptedIsListed
<1>7. CASE GiveUp \/ Wake
  BY <1>1, <1>7 DEF GiveUp, Wake, ListedInv, AcceptedIsListed
<1>8. CASE Unregister
  BY <1>1, <1>8 DEF Unregister, ListedInv, AcceptedIsListed
<1>9. ASSUME NEW a \in Answers, OfflineDo(a) PROVE ListedInv'
  BY <1>9 DEF OfflineDo, ListedInv, AcceptedIsListed
<1>10. CASE OfflineDoNull \/ Cleanup
  BY <1>1, <1>10 DEF OfflineDoNull, Cleanup, ListedInv, AcceptedIsListed
<1>11. ASSUME NEW kind \in {"register", "offline"}, LateArrival(kind)
       PROVE  ListedInv'
  BY <1>1, <1>11 DEF LateArrival, ListedInv, AcceptedIsListed
<1>12. CASE HttpDoNull \/ UNCHANGED vars
  BY <1>1, <1>12 DEF HttpDoNull, vars, ListedInv, AcceptedIsListed
<1>13. QED
  BY <1>2, <1>3, <1>4, <1>5, <1>6, <1>7, <1>8, <1>9, <1>10, <1>11, <1>12
     DEF Next, Register

-----------------------------------------------------------------------------
(* The theorems *)

\* The conjunction of the parts is an invariant of the registration.
THEOREM RegisterInvariant == Spec => []RegisterInv
<1>1. RegisterInv /\ [Next]_vars => RegisterInv'
  BY NextTypes, NextStart, NextDelay, NextTries, NextListed DEF RegisterInv
<1>2. QED
  BY RegisterInit, <1>1, PTL DEF Spec

\* Every field of __register_mgr and of the backoff context has its width, and
\* BackoffAlgorithm_GetNextBackoff never draws a delay above the larger of
\* base and maximum, for every width and every configured value.
THEOREM DelaysBounded == Spec => []BackoffIsSound
<1>1. RegisterInv => BackoffIsSound
  BY DEF RegisterInv, BackoffIsSound
<1>2. QED
  BY RegisterInvariant, <1>1, PTL

\* __do_register asks at most retry_max_attempts + 1 times.
THEOREM RetriesBounded == Spec => []TriesBounded
<1>1. RegisterInv => TriesBounded
  <2>1. SUFFICES ASSUME RegisterInv, maxRetryAttempts # Forever
                 PROVE  tries <= maxRetryAttempts + 1
    BY DEF TriesBounded
  <2>2. /\ attemptsDone \in Int /\ tries \in Int /\ maxRetryAttempts \in Int
    BY <2>1, ConfigsAssumption DEF RegisterInv, TypeOK
  <2>3. QED
    BY <2>1, <2>2 DEF RegisterInv, TriesInv
<1>2. QED
  BY RegisterInvariant, <1>1, PTL

\* A registration that succeeded on a parsed answer is one the manager holds.
THEOREM SuccessIsListed == Spec => []AcceptedIsListed
<1>1. RegisterInv => AcceptedIsListed
  BY DEF RegisterInv, ListedInv
<1>2. QED
  BY RegisterInvariant, <1>1, PTL

-----------------------------------------------------------------------------
(*                     The account of the memory of a process              *)
-----------------------------------------------------------------------------
(* Induction *)

(* The least-number principle: induction over numbers, for a set.          *)
LEMMA LeastNumber ==
    ASSUME NEW T \in SUBSET Nat, T # {}
    PROVE  \E m \in T : \A k \in T : m <= k
<1> DEFINE R == {ss \in Nat \X Nat : ss[1] < ss[2]}
<1>1. IsWellFoundedOn(R, Nat)
  BY NatLessThanWellFounded, Zenon DEF OpToRel
<1>2. PICK x \in T : \A y \in T : ~(<<y, x>> \in R)
  BY <1>1, WFMin, Zenon
<1>3. \A y \in T : ~(y < x)
  BY <1>2
<1>4. QED
  BY <1>3

-----------------------------------------------------------------------------
(* What the records of a queue make of an account *)

(* f is the account of p after each of the first n records of q.           *)
Steps(p, e, q, n, f) ==
    f = [i \in 0..n |-> IF i = 0 THEN e ELSE Applied(p, f[i - 1], q[i])]

(* There are such accounts, however many records there are.                *)
LEMMA StepsExist ==
    ASSUME NEW p, NEW e, NEW q, NEW n \in Nat
    PROVE  \E f : Steps(p, e, q, n, f)
<1> DEFINE T == {m \in Nat : ~ \E f : Steps(p, e, q, m, f)}
<1>1. SUFFICES ASSUME T # {} PROVE FALSE
  OBVIOUS
<1>2. PICK m \in T : \A k \in T : m <= k
  BY <1>1, LeastNumber, Zenon
<1>3. CASE m = 0
  <2> DEFINE f == [i \in 0..0 |-> e]
  <2>1. f = [i \in 0..0 |-> IF i = 0 THEN e ELSE Applied(p, f[i - 1], q[i])]
    OBVIOUS
  <2>2. Steps(p, e, q, 0, f)
    BY <2>1 DEF Steps
  <2>3. QED
    BY <1>2, <1>3, <2>2
<1>4. CASE m # 0
  <2>1. m - 1 \in Nat /\ m - 1 \notin T /\ m \in Nat
    BY <1>2, <1>4
  <2>2. PICK f : Steps(p, e, q, m - 1, f)
    BY <2>1
  <2> DEFINE g == [i \in 0..m |-> IF i = m THEN Applied(p, f[m - 1], q[m]) ELSE f[i]]
  <2>3. \A i \in 0..(m - 1) : f[i] = IF i = 0 THEN e ELSE Applied(p, f[i - 1], q[i])
    BY <2>2 DEF Steps
  <2>4. \A i \in 0..m : g[i] = IF i = 0 THEN e ELSE Applied(p, g[i - 1], q[i])
    BY <2>1, <2>3, <1>4
  <2>5. g = [i \in 0..m |-> IF i = 0 THEN e ELSE Applied(p, g[i - 1], q[i])]
    <3> DEFINE h == [i \in 0..m |-> IF i = 0 THEN e ELSE Applied(p, g[i - 1], q[i])]
    <3>1. g = [i \in 0..m |-> g[i]]
      OBVIOUS
    <3>2. \A i \in 0..m : g[i] = h[i]
      BY <2>4
    <3> HIDE DEF g
    <3>3. h = [i \in 0..m |-> h[i]]
      OBVIOUS
    <3>4. QED
      BY <3>1, <3>2, <3>3
  <2>6. Steps(p, e, q, m, g)
    BY <2>5 DEF Steps
  <2>7. QED
    BY <1>2, <2>6
<1>5. QED
  BY <1>3, <1>4

(* They are determined.                                                    *)
LEMMA StepsUnique ==
    ASSUME NEW p, NEW e, NEW q, NEW n \in Nat, NEW f, NEW g,
           Steps(p, e, q, n, f), Steps(p, e, q, n, g)
    PROVE  f[n] = g[n]
<1> DEFINE T == {i \in 0..n : f[i] # g[i]}
<1>1. SUFFICES ASSUME T # {} PROVE FALSE
  OBVIOUS
<1>a. T \in SUBSET Nat
  OBVIOUS
<1>2. PICK m \in T : \A k \in T : m <= k
  BY <1>1, <1>a, LeastNumber, Zenon
<1>3. /\ f[m] = IF m = 0 THEN e ELSE Applied(p, f[m - 1], q[m])
      /\ g[m] = IF m = 0 THEN e ELSE Applied(p, g[m - 1], q[m])
  BY <1>2 DEF Steps
<1>4. m # 0 => f[m - 1] = g[m - 1]
  BY <1>2
<1>5. QED
  BY <1>2, <1>3, <1>4

(* Settle gives the last of them.                                          *)
LEMMA SettleSteps ==
    ASSUME NEW p, NEW e, NEW q, Len(q) \in Nat, NEW f, Steps(p, e, q, Len(q), f)
    PROVE  Settle(p, e, q) = f[Len(q)]
<1> DEFINE s == CHOOSE g : Steps(p, e, q, Len(q), g)
<1>1. Steps(p, e, q, Len(q), s)
  BY Zenon
<1>2. Settle(p, e, q) = s[Len(q)]
  BY Zenon DEF Settle, Steps
<1>3. QED
  BY <1>1, <1>2, StepsUnique

(* No record.                                                              *)
LEMMA SettleEmpty ==
    ASSUME NEW p, NEW e
    PROVE  Settle(p, e, << >>) = e
<1>1. Len(<< >>) = 0
  OBVIOUS
<1>2. PICK f : Steps(p, e, << >>, 0, f)
  BY StepsExist
<1>3. f[0] = e
  BY <1>2 DEF Steps
<1>4. QED
  BY <1>1, <1>2, <1>3, SettleSteps

(* One more record at the end.                                             *)
LEMMA SettleAppend ==
    ASSUME NEW S, NEW q \in Seq(S), NEW x \in S, NEW p, NEW e
    PROVE  Settle(p, e, Append(q, x)) = Applied(p, Settle(p, e, q), x)
<1> DEFINE n == Len(q)
           a == Append(q, x)
<1>1. n \in Nat /\ Len(a) = n + 1 /\ a[n + 1] = x /\ \A i \in 1..n : a[i] = q[i]
  OBVIOUS
<1> HIDE DEF a, n
<1>2. PICK f : Steps(p, e, a, n + 1, f)
  <2>1. n + 1 \in Nat
    BY <1>1
  <2>2. QED
    BY <2>1, StepsExist, Zenon
<1>3. \A i \in 0..(n + 1) : f[i] = IF i = 0 THEN e ELSE Applied(p, f[i - 1], a[i])
  BY <1>2 DEF Steps
<1> DEFINE g == [i \in 0..n |-> f[i]]
<1>4. \A i \in 0..n : f[i] = IF i = 0 THEN e ELSE Applied(p, g[i - 1], q[i])
  BY <1>1, <1>3
<1>5. g = [i \in 0..n |-> IF i = 0 THEN e ELSE Applied(p, g[i - 1], q[i])]
  BY <1>4
<1>6. Steps(p, e, q, n, g)
  BY <1>5 DEF Steps
<1>7. Settle(p, e, q) = g[n] /\ g[n] = f[n]
  BY <1>1, <1>6, SettleSteps DEF n
<1>8. Settle(p, e, a) = f[n + 1]
  BY <1>1, <1>2, SettleSteps
<1>9. f[n + 1] = Applied(p, f[n], x)
  BY <1>1, <1>3
<1>10. QED
  BY <1>7, <1>8, <1>9 DEF a

(* One less in front.                                                      *)
LEMMA SettleHead ==
    ASSUME NEW S, NEW q \in Seq(S), q # << >>, NEW p, NEW e
    PROVE  Settle(p, e, q) = Settle(p, Applied(p, e, Head(q)), Tail(q))
<1> DEFINE n == Len(q)
           t == Tail(q)
           d == Applied(p, e, Head(q))
<1>1. /\ n \in Nat \ {0} /\ Len(t) = n - 1 /\ Head(q) = q[1]
      /\ \A i \in 1..(n - 1) : t[i] = q[i + 1]
  OBVIOUS
<1>2. PICK f : Steps(p, e, q, n, f)
  BY <1>1, StepsExist
<1> HIDE DEF n, t
<1>3. \A i \in 0..n : f[i] = IF i = 0 THEN e ELSE Applied(p, f[i - 1], q[i])
  BY <1>2 DEF Steps
<1>4. f[1] = d
  <2>1. 0 \in 0..n /\ 1 \in 0..n /\ 1 - 1 = 0
    BY <1>1
  <2>2. QED
    BY <1>1, <1>3, <2>1
<1> HIDE DEF d
<1> DEFINE g == [i \in 0..(n - 1) |-> f[i + 1]]
<1>5. \A i \in 0..(n - 1) : f[i + 1] = IF i = 0 THEN d ELSE Applied(p, g[i - 1], t[i])
  <2>1. TAKE i \in 0..(n - 1)
  <2>2. CASE i = 0
    BY <1>4, <2>2
  <2>3. CASE i # 0
    <3>1. i \in 1..(n - 1) /\ i - 1 \in 0..(n - 1) /\ (i - 1) + 1 = i
          /\ i + 1 \in 0..n /\ i + 1 # 0 /\ (i + 1) - 1 = i
      BY <1>1, <2>3
    <3>2. g[i - 1] = f[i]
      BY <3>1
    <3>3. t[i] = q[i + 1]
      BY <1>1, <3>1
    <3> HIDE DEF g
    <3>4. f[i + 1] = Applied(p, f[i], q[i + 1])
      BY <1>3, <3>1
    <3>5. QED
      BY <2>3, <3>2, <3>3, <3>4
  <2>4. QED
    BY <2>2, <2>3
<1>6. g = [i \in 0..(n - 1) |-> IF i = 0 THEN d ELSE Applied(p, g[i - 1], t[i])]
  BY <1>5
<1>7. Steps(p, d, t, n - 1, g)
  BY <1>6 DEF Steps
<1>8. Settle(p, d, t) = g[n - 1] /\ g[n - 1] = f[n]
  <2>1. n - 1 \in 0..(n - 1) /\ (n - 1) + 1 = n /\ n - 1 \in Nat
    BY <1>1
  <2>2. Settle(p, d, t) = g[n - 1]
    BY <1>1, <1>7, <2>1, SettleSteps
  <2>3. QED
    BY <2>1, <2>2
<1>9. Settle(p, e, q) = f[n]
  BY <1>1, <1>2, SettleSteps DEF n
<1>10. QED
  BY <1>8, <1>9 DEF d, t

(* What every record preserves, all of them do.                            *)
LEMMA SettleInvariant ==
    ASSUME NEW q, Len(q) \in Nat, NEW p, NEW V, NEW e \in V,
           \A v \in V : \A i \in 1..Len(q) : Applied(p, v, q[i]) \in V
    PROVE  Settle(p, e, q) \in V
<1> DEFINE n == Len(q)
<1>1. PICK f : Steps(p, e, q, n, f)
  BY StepsExist
<1>2. \A i \in 0..n : f[i] = IF i = 0 THEN e ELSE Applied(p, f[i - 1], q[i])
  BY <1>1 DEF Steps
<1> DEFINE T == {i \in 0..n : f[i] \notin V}
<1>3. T = {}
  <2>1. SUFFICES ASSUME T # {} PROVE FALSE
    OBVIOUS
  <2>2. T \in SUBSET Nat
    OBVIOUS
  <2>3. PICK m \in T : \A k \in T : m <= k
    BY <2>1, <2>2, LeastNumber, Zenon
  <2>4. m # 0
    BY <1>2, <2>3
  <2>5. f[m - 1] \in V /\ m \in 1..n
    BY <2>3, <2>4
  <2>6. f[m] = Applied(p, f[m - 1], q[m])
    BY <1>2, <2>5
  <2>7. QED
    BY <2>3, <2>5, <2>6
<1>4. f[n] \in V
  BY <1>3
<1>5. QED
  BY <1>1, <1>4, SettleSteps

-----------------------------------------------------------------------------
(* The inductive invariant *)

(* The entry that sys_enter_brk makes when the heap is to shrink.          *)
BrkEntry == Info("BRK_SHRINK", 0, 0)
Rec == [pid : Pids, comm : Comms \cup {""}, info : Infos]
Exit == [pid : Pids, gen : Nat, comm : Comms \cup {""}, last : BOOLEAN]

(* The parts of the type invariant.                                        *)
HostTypes ==
    /\ live \subseteq Tids /\ comm \in [Tids -> Comms \cup {""}]
    /\ gen \in [Pids -> Nat] /\ events \in 0..MaxEvents
    /\ \A p \in Pids : gen[p] <= events
    /\ top \in [Pids -> 1..MaxTop] /\ call \in [Tids -> 0..MaxTop]
    /\ \A t \in Tids : call[t] # 0 => t \in live

AreaTypes ==
    /\ areas \in [Pids -> SUBSET Regions]
    /\ \A p \in Pids : \A r, s \in areas[p] : r = s \/ Apart(r, s)

OpTypes == op \in [Tids -> {NoInfo, BrkEntry}]

WayTypes ==
    /\ ring \in Seq(Rec) /\ Len(ring) <= RingSize
    /\ chan \in Seq(Rec) /\ Len(chan) <= ChanSize
    /\ exits \in Seq(Exit) /\ Len(exits) <= ExitSize

AccountTypes == vm \in [Pids -> Entries]

ProgTypes ==
    /\ tracer \in {"run", "done"} /\ handler \in {"run", "done"}
    /\ stop \in {"run", "closed", "wait", "stopped"}
    /\ odd \subseteq Pids /\ unheard \subseteq Pids

Types == HostTypes /\ AreaTypes /\ OpTypes /\ WayTypes /\ AccountTypes /\ ProgTypes

(* Nothing is left of the address space of a process that is gone.         *)
EmptyInv == \A p \in Pids : Threads(p) = {} => areas[p] = {} /\ top[p] = 1

(* The threads of a process that is not odd share one name.                *)
NameInv == \A p \in Pids \ odd : \A t, u \in Threads(p) : comm[t] = comm[u]

(* The account comes to the areas, one by one, and to the heap.            *)
Matches(s, p) ==
    /\ s.mmapSize = Size(areas[p]) /\ s.brkSize = top[p] - 1
    /\ s.addrs = {r.addr : r \in areas[p]}

Exact(p, c) ==
    /\ Settled(p).comm = c => Matches(Settled(p), p)
    /\ Settled(p).comm # c => areas[p] = {} /\ top[p] = 1

(* The account of every running process that is not odd is exact.          *)
ExactInv ==
    \A p \in Pids \ odd : \A t \in Threads(p) : comm[t] \in Watched => Exact(p, comm[t])

(* There is something to remove, or there will be.                         *)
Remains(p) == vm[p] # NoEntry \/ \E x \in Queued(p) : x.comm \in Watched

(* The exit of the last thread is on the way.                              *)
IsLast(e, p) == e.pid = p /\ e.last /\ e.gen = gen[p] /\ e.comm \in Watched
Leaving(p) == \E i \in 1..Len(exits) : IsLast(exits[i], p)

(* An account that is left, or will be, has its exit on the way.           *)
DeadInv ==
    \A p \in Pids : Threads(p) = {} /\ Remains(p) => Leaving(p) \/ p \in unheard

(* The inductive invariant.                                                *)
VMInv == Types /\ EmptyInv /\ NameInv /\ ExactInv /\ DeadInv

-----------------------------------------------------------------------------
(* Areas *)

(* What a set of areas covers.                                             *)
Cover(S) == UNION {r.addr .. r.addr + r.len - 1 : r \in S}

(* What it is to be a region.                                              *)
LEMMA RegionFacts ==
    ASSUME NEW r \in Regions
    PROVE  /\ r.addr \in 1..Pages /\ r.len \in 1..MaxLen /\ r.addr + r.len <= Pages + 1
           /\ Pages \in Nat /\ MaxLen \in Nat
           /\ r = [addr |-> r.addr, len |-> r.len]
  BY ConstAssumption DEF Regions

(* What makes a region.                                                    *)
LEMMA RegionIntro ==
    ASSUME NEW a \in 1..Pages, NEW n \in 1..MaxLen, a + n <= Pages + 1
    PROVE  [addr |-> a, len |-> n] \in Regions
  BY DEF Regions

(* Areas cover finitely many pages.                                        *)
LEMMA CoverFinite ==
    ASSUME NEW S \in SUBSET Regions
    PROVE  IsFiniteSet(Cover(S)) /\ Cardinality(Cover(S)) \in Nat
<1>1. Pages \in Nat
  BY ConstAssumption
<1>2. Cover(S) \subseteq 1..Pages
  <2>1. \A r \in S : r.addr .. r.addr + r.len - 1 \subseteq 1..Pages
    BY RegionFacts
  <2>2. QED
    BY <2>1 DEF Cover
<1>3. IsFiniteSet(1..Pages)
  BY <1>1, FS_Interval
<1>4. IsFiniteSet(Cover(S))
  BY <1>2, <1>3, FS_Subset
<1>5. QED
  BY <1>4, FS_CardinalityType

(* No area, no page.                                                       *)
LEMMA SizeEmpty == Size({}) = 0
  BY FS_EmptySet DEF Size

(* An area counts with its length, beside those it is apart from.          *)
LEMMA SizeAdd ==
    ASSUME NEW S \in SUBSET Regions, NEW r \in Regions, \A s \in S : Apart(r, s)
    PROVE  Size(S \cup {r}) = Size(S) + r.len /\ Size(S) \in Nat
<1> DEFINE I == r.addr .. r.addr + r.len - 1
<1>1. /\ r.addr \in Nat /\ r.len \in Nat \ {0}
  BY RegionFacts
<1>2. IsFiniteSet(I) /\ Cardinality(I) = r.len
  <2> DEFINE a == r.addr
             b == r.addr + r.len - 1
  <2>1. a \in Int /\ b \in Int /\ ~(a > b) /\ b - a + 1 = r.len
    BY <1>1
  <2> HIDE DEF a, b
  <2>2. IsFiniteSet(a .. b) /\ Cardinality(a .. b) = IF a > b THEN 0 ELSE b - a + 1
    BY <2>1, FS_Interval
  <2>3. IsFiniteSet(a .. b) /\ Cardinality(a .. b) = r.len
    BY <2>1, <2>2
  <2>4. QED
    BY <2>3 DEF a, b
<1>3. Cover(S) \cap I = {}
  <2>1. \A s \in S : (s.addr .. s.addr + s.len - 1) \cap I = {}
    <3>1. TAKE s \in S
    <3>2. s.addr \in Nat /\ s.len \in Nat /\ Apart(r, s)
      BY RegionFacts
    <3>3. QED
      BY <1>1, <3>2 DEF Apart
  <2>2. QED
    BY <2>1 DEF Cover
<1>4. Cover(S \cup {r}) = Cover(S) \cup I
  BY DEF Cover
<1>5. IsFiniteSet(Cover(S)) /\ Cardinality(Cover(S)) \in Nat
  BY CoverFinite
<1> HIDE DEF I
<1>6. Cardinality(Cover(S) \cup I) =
          Cardinality(Cover(S)) + Cardinality(I) - Cardinality(Cover(S) \cap I)
  BY <1>2, <1>5, FS_Union
<1>7. Cardinality({}) = 0
  BY FS_EmptySet
<1>8. Cardinality(Cover(S \cup {r})) = Cardinality(Cover(S)) + r.len
  <2>1. Cardinality(Cover(S) \cap I) = 0
    BY <1>3, <1>7, Zenon
  <2>2. Cardinality(Cover(S \cup {r})) = Cardinality(Cover(S) \cup I)
    BY <1>4, Zenon
  <2>3. QED
    BY <1>1, <1>2, <1>5, <1>6, <2>1, <2>2
<1>9. QED
  BY <1>5, <1>8 DEF Size, Cover

(* An area that is none of the others goes with its length.                *)
LEMMA SizeRemove ==
    ASSUME NEW S \in SUBSET Regions, NEW r \in S,
           \A x, y \in S : x = y \/ Apart(x, y)
    PROVE  Size(S \ {r}) = Size(S) - r.len
<1>1. r \in Regions /\ r.len \in Nat /\ S \ {r} \in SUBSET Regions
  BY RegionFacts
<1>2. \A s \in S \ {r} : Apart(r, s)
  OBVIOUS
<1>3. (S \ {r}) \cup {r} = S
  OBVIOUS
<1>4. Size((S \ {r}) \cup {r}) = Size(S \ {r}) + r.len /\ Size(S \ {r}) \in Nat
  BY <1>1, <1>2, SizeAdd
<1>5. Size(S) = Size(S \ {r}) + r.len
  BY <1>3, <1>4, Zenon
<1>6. QED
  BY <1>1, <1>4, <1>5

(* Unmapping what nothing is mapped at.                                    *)
LEMMA CutFree ==
    ASSUME NEW S, NEW r, \A s \in S : Apart(r, s)
    PROVE  Cut(S, r) = S
  BY DEF Cut

(* Unmapping one area as a whole.                                          *)
LEMMA CutWhole ==
    ASSUME NEW S \in SUBSET Regions, NEW r \in S,
           \A x, y \in S : x = y \/ Apart(x, y)
    PROVE  Cut(S, r) = S \ {r}
<1>1. r.addr \in Nat /\ r.len \in Nat \ {0}
  BY RegionFacts
<1>2. ~Apart(r, r)
  BY <1>1 DEF Apart
<1>3. {s \in S : ~Apart(r, s)} = {r}
  BY <1>2
<1>4. {x \in {r} : x.addr < r.addr} = {} /\ {x \in {r} : x.addr + x.len > r.addr + r.len} = {}
  BY <1>1
<1>5. QED
  BY <1>3, <1>4 DEF Cut

(* Unmapping the upper half of one area.                                   *)
LEMMA CutHalf ==
    ASSUME NEW S \in SUBSET Regions, NEW r \in Regions, NEW s \in S,
           \A x, y \in S : x = y \/ Apart(x, y),
           s.addr = r.addr - r.len, s.len = 2 * r.len,
           NEW h, h = [addr |-> s.addr, len |-> r.len]
    PROVE  /\ Cut(S, r) = (S \ {s}) \cup {h}
           /\ Size(Cut(S, r)) = Size(S) - r.len
           /\ \A x \in S : x.addr # r.addr
           /\ ~Apart(r, s)
<1>1. /\ r.addr \in 1..Pages /\ r.len \in 1..MaxLen /\ r.addr + r.len <= Pages + 1
      /\ s.addr \in 1..Pages /\ s.len \in 1..MaxLen /\ Pages \in Nat /\ MaxLen \in Nat
  BY RegionFacts
<1>2. ~Apart(r, s) /\ s.addr < r.addr /\ r.addr - s.addr = r.len
      /\ s.addr + s.len = r.addr + r.len
  BY <1>1 DEF Apart
<1>3. ASSUME NEW x \in S, x # s
      PROVE  Apart(x, s) /\ Apart(r, x) /\ Apart(h, x) /\ x.addr # r.addr
  <2>1. Apart(x, s) /\ x.addr \in Nat /\ x.len \in Nat \ {0}
    BY <1>3, RegionFacts
  <2>2. Apart(r, x) /\ x.addr # r.addr
    BY <1>1, <1>2, <2>1 DEF Apart
  <2>3. h.addr = s.addr /\ h.len = r.len
    OBVIOUS
  <2>4. Apart(h, x)
    BY <1>1, <1>2, <2>1, <2>3 DEF Apart
  <2>5. QED
    BY <2>1, <2>2, <2>4
<1>4. {x \in S : ~Apart(r, x)} = {s}
  BY <1>2, <1>3
<1>5. /\ {x \in {s} : x.addr < r.addr} = {s}
      /\ {x \in {s} : x.addr + x.len > r.addr + r.len} = {}
  BY <1>1, <1>2
<1>6. Cut(S, r) = (S \ {s}) \cup {h}
  <2>1. Cut(S, r) = (S \ {s}) \cup {[addr |-> x.addr, len |-> r.addr - x.addr] : x \in {s}}
    BY <1>4, <1>5, Zenon DEF Cut
  <2>2. {[addr |-> x.addr, len |-> r.addr - x.addr] : x \in {s}} = {h}
    BY <1>2
  <2>3. QED
    BY <2>1, <2>2
<1>7. h \in Regions /\ h.len = r.len
  BY <1>1, <1>2, RegionIntro
<1>8. Size((S \ {s}) \cup {h}) = Size(S \ {s}) + r.len /\ Size(S \ {s}) \in Nat
  <2>1. S \ {s} \in SUBSET Regions /\ \A x \in S \ {s} : Apart(h, x)
    BY <1>3
  <2>2. QED
    BY <1>7, <2>1, SizeAdd
<1>9. Size(S \ {s}) = Size(S) - s.len /\ Size(S) \in Nat
  <2>1. Size(S) \in Nat
    BY CoverFinite DEF Size, Cover
  <2>2. QED
    BY <2>1, SizeRemove
<1>10. Size(Cut(S, r)) = Size(S) - r.len
  BY <1>1, <1>6, <1>8, <1>9
<1>11. \A x \in S : x.addr # r.addr
  BY <1>1, <1>2, <1>3
<1>12. QED
  BY <1>2, <1>6, <1>10, <1>11

(* c is what unmapping r leaves of area s, or a half of it.                *)
Before(s, r) == [addr |-> s.addr, len |-> r.addr - s.addr]
After(s, r) == [addr |-> r.addr + r.len, len |-> s.addr + s.len - r.addr - r.len]
Part(c, s, r) ==
    \/ Apart(r, s) /\ c = s
    \/ ~Apart(r, s) /\ s.addr < r.addr /\ c = Before(s, r)
    \/ ~Apart(r, s) /\ s.addr + s.len > r.addr + r.len /\ c = After(s, r)

(* What is left of areas is part of one of them.                           *)
LEMMA CutParts ==
    ASSUME NEW S, NEW r, NEW c \in Cut(S, r)
    PROVE  \E s \in S : Part(c, s, r)
  BY Zenon DEF Cut, Part, Before, After

(* A part of an area is an area.                                           *)
LEMMA PartRegion ==
    ASSUME NEW r \in Regions, NEW s \in Regions, NEW c, Part(c, s, r)
    PROVE  c \in Regions
<1>1. /\ r.addr \in 1..Pages /\ r.len \in 1..MaxLen /\ r.addr + r.len <= Pages + 1
      /\ s.addr \in 1..Pages /\ s.len \in 1..MaxLen /\ s.addr + s.len <= Pages + 1
      /\ Pages \in Nat /\ MaxLen \in Nat
  BY RegionFacts
<1>2. CASE Apart(r, s) /\ c = s
  BY <1>2
<1>3. CASE ~Apart(r, s) /\ s.addr < r.addr /\ c = Before(s, r)
  <2>1. r.addr - s.addr \in 1..MaxLen /\ s.addr + (r.addr - s.addr) <= Pages + 1
    BY <1>1, <1>3 DEF Apart
  <2>2. QED
    BY <1>1, <1>3, <2>1, RegionIntro DEF Before
<1>4. CASE ~Apart(r, s) /\ s.addr + s.len > r.addr + r.len /\ c = After(s, r)
  <2>1. /\ r.addr + r.len \in 1..Pages
        /\ s.addr + s.len - r.addr - r.len \in 1..MaxLen
        /\ (r.addr + r.len) + (s.addr + s.len - r.addr - r.len) <= Pages + 1
    BY <1>1, <1>4 DEF Apart
  <2>2. QED
    BY <1>4, <2>1, RegionIntro DEF After
<1>5. QED
  BY <1>2, <1>3, <1>4 DEF Part

(* Parts of areas that are apart are apart.                                *)
LEMMA PartApart ==
    ASSUME NEW r \in Regions, NEW s \in Regions, NEW u \in Regions, NEW c, NEW d,
           s = u \/ Apart(s, u), Part(c, s, r), Part(d, u, r)
    PROVE  c = d \/ Apart(c, d)
<1>1. /\ r.addr \in Nat /\ r.len \in Nat \ {0}
      /\ s.addr \in Nat /\ s.len \in Nat \ {0}
      /\ u.addr \in Nat /\ u.len \in Nat \ {0}
  BY RegionFacts
<1>2. c.addr \in Nat /\ c.len \in Int /\ d.addr \in Nat /\ d.len \in Int
  BY <1>1 DEF Part, Before, After
<1>3. s # u => Apart(c, d)
  BY <1>1, <1>2 DEF Part, Before, After, Apart
<1>4. s = u => c = d \/ Apart(c, d)
  BY <1>1, <1>2 DEF Part, Before, After, Apart
<1>5. QED
  BY <1>3, <1>4

(* Unmapping leaves areas that are apart.                                  *)
LEMMA CutFacts ==
    ASSUME NEW S \in SUBSET Regions, NEW r \in Regions,
           \A x, y \in S : x = y \/ Apart(x, y)
    PROVE  /\ Cut(S, r) \in SUBSET Regions
           /\ \A x, y \in Cut(S, r) : x = y \/ Apart(x, y)
<1>1. \A c \in Cut(S, r) : \E s \in S : Part(c, s, r)
  BY CutParts
<1>2. \A c \in Cut(S, r) : c \in Regions
  BY <1>1, PartRegion
<1>3. ASSUME NEW x \in Cut(S, r), NEW y \in Cut(S, r) PROVE x = y \/ Apart(x, y)
  <2>1. PICK s \in S : Part(x, s, r)
    BY <1>1
  <2>2. PICK u \in S : Part(y, u, r)
    BY <1>1
  <2>3. s \in Regions /\ u \in Regions /\ (s = u \/ Apart(s, u))
    OBVIOUS
  <2>4. QED
    BY <2>1, <2>2, <2>3, PartApart
<1>4. QED
  BY <1>2, <1>3

-----------------------------------------------------------------------------
(* Queues *)

(* The records of a queue with one more at the end.                        *)
LEMMA RangeAppend ==
    ASSUME NEW S, NEW q \in Seq(S), NEW x \in S
    PROVE  /\ Append(q, x) \in Seq(S) /\ Len(Append(q, x)) = Len(q) + 1
           /\ Range(Append(q, x)) = Range(q) \cup {x}
<1> DEFINE a == Append(q, x)
<1>1. /\ a \in Seq(S) /\ Len(a) = Len(q) + 1 /\ Len(q) \in Nat /\ a[Len(q) + 1] = x
      /\ \A i \in 1..Len(q) : a[i] = q[i]
      /\ DOMAIN a = 1..(Len(q) + 1) /\ DOMAIN q = 1..Len(q)
  OBVIOUS
<1> HIDE DEF a
<1>2. 1..(Len(q) + 1) = (1..Len(q)) \cup {Len(q) + 1}
  BY <1>1
<1>3. Range(a) = Range(q) \cup {x}
  BY <1>1, <1>2 DEF Range
<1>4. QED
  BY <1>1, <1>3 DEF a

(* The records of a queue with one less in front.                          *)
LEMMA RangeTail ==
    ASSUME NEW S, NEW q \in Seq(S), q # << >>
    PROVE  /\ Head(q) \in S /\ Tail(q) \in Seq(S) /\ Len(Tail(q)) = Len(q) - 1
           /\ Range(q) = Range(Tail(q)) \cup {Head(q)}
<1> DEFINE t == Tail(q)
<1>1. /\ t \in Seq(S) /\ Len(q) \in Nat \ {0} /\ Len(t) = Len(q) - 1
      /\ Head(q) = q[1] /\ Head(q) \in S
      /\ \A i \in 1..Len(t) : t[i] = q[i + 1]
      /\ DOMAIN t = 1..Len(t) /\ DOMAIN q = 1..Len(q)
  OBVIOUS
<1> HIDE DEF t
<1>2. \A i \in 1..Len(q) : i = 1 \/ (i - 1 \in 1..Len(t) /\ t[i - 1] = q[i])
  BY <1>1
<1>3. \A i \in 1..Len(t) : i + 1 \in 1..Len(q)
  BY <1>1
<1>4. 1 \in 1..Len(q)
  BY <1>1
<1>5. Range(q) = Range(t) \cup {Head(q)}
  <2>1. \A i \in 1..Len(q) : q[i] \in Range(t) \cup {Head(q)}
    BY <1>1, <1>2 DEF Range
  <2>2. \A i \in 1..Len(t) : t[i] \in Range(q)
    BY <1>1, <1>3 DEF Range
  <2>3. Head(q) \in Range(q)
    BY <1>1, <1>4 DEF Range
  <2>4. QED
    <3>1. Range(q) = {q[i] : i \in 1..Len(q)} /\ Range(t) = {t[i] : i \in 1..Len(t)}
      BY <1>1, Zenon DEF Range
    <3>2. Range(q) \subseteq Range(t) \cup {Head(q)}
      BY <2>1, <3>1
    <3>3. Range(t) \subseteq Range(q)
      BY <2>2, <3>1
    <3>4. QED
      BY <2>3, <3>2, <3>3
<1>6. QED
  BY <1>1, <1>5 DEF t

-----------------------------------------------------------------------------
(* Accounts *)

(* What makes an account.                                                  *)
LEMMA EntryIntro ==
    ASSUME NEW c \in Watched \cup {""}, NEW m \in Int, NEW b \in Int, NEW a \in SUBSET Nat
    PROVE  [comm |-> c, mmapSize |-> m, brkSize |-> b, addrs |-> a] \in Entries
  BY DEF Entries

(* A new account bears the name of the record.                             *)
LEMMA NewAccountFacts ==
    ASSUME NEW c \in Watched, NEW info \in Infos
    PROVE  NewAccount(c, info) \in Entries /\ NewAccount(c, info).comm = c
<1>1. info.addr \in Nat /\ info.len \in Int
  BY DEF Infos
<1>2. QED
  <2> DEFINE m == IF info.type \in Mmaps THEN info.len ELSE 0
             b == IF info.type = "BRK" THEN info.len ELSE 0
             a == IF info.type \in Mmaps THEN {info.addr} ELSE {}
  <2>1. c \in Watched \cup {""} /\ m \in Int /\ b \in Int /\ a \in SUBSET Nat
    <3>1. m \in Int /\ b \in Int
      BY <1>1
    <3>2. a \in SUBSET Nat
      BY <1>1
    <3>3. QED
      BY <3>1, <3>2
  <2>2. NewAccount(c, info) = [comm |-> c, mmapSize |-> m, brkSize |-> b, addrs |-> a]
    BY Zenon DEF NewAccount
  <2> HIDE DEF m, b, a
  <2>3. [comm |-> c, mmapSize |-> m, brkSize |-> b, addrs |-> a] \in Entries
    BY <2>1, EntryIntro
  <2>4. QED
    BY <2>2, <2>3

(* The cases of Changed, written out.                                      *)
LEMMA ChangedForms ==
    ASSUME NEW e \in Entries, NEW info
    PROVE  /\ info.type \in Mmaps => Changed(e, info) =
                 [comm |-> e.comm, mmapSize |-> e.mmapSize + info.len,
                  brkSize |-> e.brkSize, addrs |-> e.addrs \cup {info.addr}]
           /\ info.type = "BRK" => Changed(e, info) =
                 [comm |-> e.comm, mmapSize |-> e.mmapSize,
                  brkSize |-> e.brkSize + info.len, addrs |-> e.addrs]
           /\ info.type = "BRK_SHRINK" => Changed(e, info) =
                 [comm |-> e.comm, mmapSize |-> e.mmapSize,
                  brkSize |-> e.brkSize - info.len, addrs |-> e.addrs]
           /\ info.type = "MUNMAP" /\ info.addr \in e.addrs => Changed(e, info) =
                 [comm |-> e.comm, mmapSize |-> e.mmapSize - info.len,
                  brkSize |-> e.brkSize, addrs |-> e.addrs \ {info.addr}]
           /\ info.type = "MUNMAP" /\ info.addr \notin e.addrs
              /\ info.addr - info.len \in e.addrs => Changed(e, info) =
                 [comm |-> e.comm, mmapSize |-> e.mmapSize - info.len,
                  brkSize |-> e.brkSize, addrs |-> e.addrs]
           /\ info.type = "MUNMAP" /\ info.addr \notin e.addrs
              /\ info.addr - info.len \notin e.addrs => Changed(e, info) = e
           /\ info.type = "NONE" => Changed(e, info) = e
<1>0. e = [comm |-> e.comm, mmapSize |-> e.mmapSize, brkSize |-> e.brkSize, addrs |-> e.addrs]
  BY DEF Entries
<1>1. CASE info.type \in Mmaps
  BY <1>0, <1>1 DEF Changed, Mmaps
<1>2. CASE info.type = "BRK"
  BY <1>0, <1>2 DEF Changed, Mmaps
<1>3. CASE info.type = "BRK_SHRINK"
  BY <1>0, <1>3 DEF Changed, Mmaps
<1>4. CASE info.type = "MUNMAP"
  BY <1>0, <1>4 DEF Changed, Mmaps
<1>5. CASE info.type \notin Mmaps \cup {"BRK", "BRK_SHRINK", "MUNMAP"}
  BY <1>0, <1>5 DEF Changed, Mmaps
<1>6. QED
  BY <1>1, <1>2, <1>3, <1>4, <1>5

(* A record changes no name.                                               *)
LEMMA ChangedFacts ==
    ASSUME NEW e \in Entries, NEW info \in Infos
    PROVE  Changed(e, info) \in Entries /\ Changed(e, info).comm = e.comm
<1> DEFINE more == e.mmapSize + info.len
           less == e.mmapSize - info.len
           grown == e.brkSize + info.len
           shrunk == e.brkSize - info.len
<1>1. info.len \in Int /\ e.mmapSize \in Int /\ e.brkSize \in Int
  <2>1. info.len \in Int
    BY DEF Infos
  <2>2. e.mmapSize \in Int /\ e.brkSize \in Int
    BY DEF Entries
  <2>3. QED
    BY <2>1, <2>2
<1>2. more \in Int /\ less \in Int /\ grown \in Int /\ shrunk \in Int
  BY <1>1
<1>3. info.addr \in Nat /\ e.comm \in Watched \cup {""} /\ e.addrs \in SUBSET Nat
      /\ info.type \in Mmaps \cup {"NONE", "BRK", "BRK_SHRINK", "MUNMAP"}
  BY DEF Infos, Entries
<1>4. e.addrs \cup {info.addr} \in SUBSET Nat /\ e.addrs \ {info.addr} \in SUBSET Nat
  BY <1>3
<1> HIDE DEF more, less, grown, shrunk
<1>5. /\ [comm |-> e.comm, mmapSize |-> more, brkSize |-> e.brkSize,
          addrs |-> e.addrs \cup {info.addr}] \in Entries
      /\ [comm |-> e.comm, mmapSize |-> e.mmapSize, brkSize |-> grown,
          addrs |-> e.addrs] \in Entries
      /\ [comm |-> e.comm, mmapSize |-> e.mmapSize, brkSize |-> shrunk,
          addrs |-> e.addrs] \in Entries
      /\ [comm |-> e.comm, mmapSize |-> less, brkSize |-> e.brkSize,
          addrs |-> e.addrs \ {info.addr}] \in Entries
      /\ [comm |-> e.comm, mmapSize |-> less, brkSize |-> e.brkSize,
          addrs |-> e.addrs] \in Entries
  BY <1>1, <1>2, <1>3, <1>4, EntryIntro
<1>6. \/ Changed(e, info) = [comm |-> e.comm, mmapSize |-> more, brkSize |-> e.brkSize,
                             addrs |-> e.addrs \cup {info.addr}]
      \/ Changed(e, info) = [comm |-> e.comm, mmapSize |-> e.mmapSize, brkSize |-> grown,
                             addrs |-> e.addrs]
      \/ Changed(e, info) = [comm |-> e.comm, mmapSize |-> e.mmapSize, brkSize |-> shrunk,
                             addrs |-> e.addrs]
      \/ Changed(e, info) = [comm |-> e.comm, mmapSize |-> less, brkSize |-> e.brkSize,
                             addrs |-> e.addrs \ {info.addr}]
      \/ Changed(e, info) = [comm |-> e.comm, mmapSize |-> less, brkSize |-> e.brkSize,
                             addrs |-> e.addrs]
      \/ Changed(e, info) = e
  BY <1>3, ChangedForms, Zenon DEF more, less, grown, shrunk
<1>7. QED
  BY <1>5, <1>6

(* An account takes the name of a record or keeps its own, and changes     *)
(* only for a name that is watched.                                        *)
LEMMA AccountFacts ==
    ASSUME NEW e \in Entries, NEW rec \in Rec
    PROVE  /\ Account(e, rec) \in Entries
           /\ Account(e, rec).comm \in {e.comm, rec.comm}
           /\ Account(e, rec) # e => rec.comm \in Watched
<1>1. rec.info \in Infos
  BY DEF Rec
<1>2. CASE rec.comm \notin Watched
  BY <1>2 DEF Account
<1>3. CASE rec.comm \in Watched /\ e.comm = rec.comm
  BY <1>1, <1>3, ChangedFacts DEF Account
<1>4. CASE rec.comm \in Watched /\ e.comm # rec.comm
  BY <1>1, <1>4, NewAccountFacts DEF Account
<1>5. QED
  BY <1>2, <1>3, <1>4

(* The same of a record that may be one of another process.                *)
LEMMA AppliedFacts ==
    ASSUME NEW p, NEW e \in Entries, NEW rec \in Rec
    PROVE  /\ Applied(p, e, rec) \in Entries
           /\ Applied(p, e, rec).comm \in {e.comm, rec.comm}
           /\ rec.pid # p => Applied(p, e, rec) = e
  BY AccountFacts DEF Applied

(* An account stays one under any number of records.                       *)
LEMMA SettleType ==
    ASSUME NEW p, NEW e \in Entries, NEW q \in Seq(Rec)
    PROVE  Settle(p, e, q) \in Entries
<1>1. Len(q) \in Nat /\ \A i \in 1..Len(q) : q[i] \in Rec
  OBVIOUS
<1>2. \A v \in Entries : \A i \in 1..Len(q) : Applied(p, v, q[i]) \in Entries
  BY <1>1, AppliedFacts
<1>3. QED
  BY <1>1, <1>2, SettleInvariant

(* The accounts now, past the channel, and past the ring buffer.           *)
LEMMA SettledType ==
    ASSUME WayTypes, AccountTypes, NEW p \in Pids
    PROVE  Settled(p) \in Entries /\ vm[p] \in Entries /\ Settle(p, vm[p], chan) \in Entries
<1>1. vm[p] \in Entries /\ chan \in Seq(Rec) /\ ring \in Seq(Rec)
  BY DEF WayTypes, AccountTypes
<1>2. QED
  BY <1>1, SettleType DEF Settled

(* No record of a name, no account of it.                                  *)
LEMMA SettleName ==
    ASSUME NEW p, NEW c, NEW e \in Entries, e.comm # c, NEW q \in Seq(Rec),
           \A x \in Range(q) : x.pid = p => x.comm # c
    PROVE  Settle(p, e, q) \in Entries /\ Settle(p, e, q).comm # c
<1> DEFINE V == {v \in Entries : v.comm # c}
<1>1. Len(q) \in Nat /\ \A i \in 1..Len(q) : q[i] \in Rec /\ q[i] \in Range(q)
  BY DEF Range
<1>2. ASSUME NEW v \in V, NEW i \in 1..Len(q) PROVE Applied(p, v, q[i]) \in V
  <2>1. v \in Entries /\ v.comm # c /\ q[i] \in Rec /\ (q[i].pid = p => q[i].comm # c)
    BY <1>1
  <2>2. QED
    BY <2>1, AppliedFacts
<1>3. e \in V
  OBVIOUS
<1> HIDE DEF V
<1>4. Settle(p, e, q) \in V
  BY <1>1, <1>2, <1>3, SettleInvariant
<1>5. QED
  BY <1>4 DEF V

(* A name that is nowhere is not the name of the account to come.          *)
LEMMA ForeignFacts ==
    ASSUME WayTypes, AccountTypes, NEW p \in Pids, NEW c, Foreign(p, c)
    PROVE  Settled(p).comm # c
<1>1. vm[p] \in Entries /\ vm[p].comm # c /\ chan \in Seq(Rec) /\ ring \in Seq(Rec)
  BY DEF WayTypes, AccountTypes, Foreign
<1>2. /\ \A x \in Range(chan) : x.pid = p => x.comm # c
      /\ \A x \in Range(ring) : x.pid = p => x.comm # c
  BY DEF Foreign, Queued
<1>3. Settle(p, vm[p], chan) \in Entries /\ Settle(p, vm[p], chan).comm # c
  BY <1>1, <1>2, SettleName
<1>4. QED
  BY <1>1, <1>2, <1>3, SettleName DEF Settled

-----------------------------------------------------------------------------
(* The probes *)

InfoTypes == Mmaps \cup {"NONE", "BRK", "BRK_SHRINK", "MUNMAP"}

(* The bounds are positive numbers.                                        *)
LEMMA Sizes ==
    /\ Pages \in Nat \ {0} /\ MaxLen \in Nat \ {0} /\ MaxTop \in Nat \ {0}
    /\ RingSize \in Nat \ {0} /\ ChanSize \in Nat \ {0} /\ ExitSize \in Nat \ {0}
    /\ MaxEvents \in Nat
  BY ConstAssumption

(* What it is to be the information of a record.                           *)
LEMMA InfoFacts ==
    ASSUME NEW type \in InfoTypes, NEW addr \in Nat, NEW len \in Nat
    PROVE  /\ Info(type, addr, len) \in Infos
           /\ Info(type, addr, len).type = type
           /\ Info(type, addr, len).addr = addr
           /\ Info(type, addr, len).len = len
  BY DEF Info, Infos, InfoTypes

(* The two entries that may be found are different.                        *)
LEMMA TwoEntries ==
    /\ NoInfo \in Infos /\ NoInfo.type = "NONE"
    /\ BrkEntry.type = "BRK_SHRINK" /\ BrkEntry.len = 0 /\ BrkEntry # NoInfo
  BY InfoFacts DEF NoInfo, BrkEntry, InfoTypes, Info, Infos

(* What is told of an unmapping depends on the entry that is there.        *)
LEMMA UnmappingFacts ==
    ASSUME OpTypes, NEW t \in Tids, NEW addr \in Nat, NEW len \in Nat
    PROVE  /\ Unmapping(t, addr, len) \in Infos
           /\ \/ op[t] = NoInfo /\ Unmapping(t, addr, len) = Info("MUNMAP", addr, len)
              \/ op[t] = BrkEntry /\ Unmapping(t, addr, len) = Info("BRK_SHRINK", addr, len)
<1>1. op[t] \in {NoInfo, BrkEntry}
  BY DEF OpTypes
<1>2. CASE op[t] = NoInfo
  BY <1>2, InfoFacts DEF Unmapping, InfoTypes
<1>3. CASE op[t] = BrkEntry
  <2>1. op[t] # NoInfo /\ op[t].type = "BRK_SHRINK" /\ op[t].len + len = len
    BY <1>3, TwoEntries
  <2>2. Unmapping(t, addr, len) = Info("BRK_SHRINK", addr, len)
    BY <2>1 DEF Unmapping
  <2>3. QED
    BY <1>3, <2>2, InfoFacts DEF InfoTypes
<1>4. QED
  BY <1>1, <1>2, <1>3

(* The record of a call of thread t.                                       *)
RecordOf(t, info) == [pid |-> Owner[t], comm |-> comm[t], info |-> info]

(* A record gets into the ring, or the process is odd, or there is nothing *)
(* to report.                                                              *)
Reported(t, right, info) ==
    /\ odd \subseteq odd' /\ odd' \subseteq odd \cup {Owner[t]}
    /\ ring' = ring \/ ring' = Append(ring, RecordOf(t, info))
    /\ Owner[t] \notin odd' =>
          /\ info \in right
          /\ info # NoInfo => ring' = Append(ring, RecordOf(t, info))
          /\ info = NoInfo => ring' = ring

(* Report does what Reported says, within the bound of the ring.           *)
LEMMA ReportFacts ==
    ASSUME HostTypes, WayTypes, ProgTypes, NEW t \in Tids, NEW right, NEW info \in Infos,
           Report(t, right, info), misread' \in {misread, misread \cup {Owner[t]}}
    PROVE  /\ Reported(t, right, info)
           /\ RecordOf(t, info) \in Rec
           /\ ring' \in Seq(Rec) /\ Len(ring') <= RingSize
           /\ odd' \subseteq Pids
<1>1. Owner[t] \in Pids /\ comm[t] \in Comms \cup {""}
  BY ConstAssumption DEF HostTypes
<1>2. RecordOf(t, info) \in Rec
  BY <1>1 DEF RecordOf, Rec
<1>3. ring \in Seq(Rec) /\ Len(ring) <= RingSize /\ Len(ring) \in Nat /\ RingSize \in Nat
  BY Sizes DEF WayTypes
<1> DEFINE a == Append(ring, RecordOf(t, info))
<1>4. a \in Seq(Rec) /\ Len(a) = Len(ring) + 1
  BY <1>2, <1>3
<1>5. Report(t, right, info) <=>
          /\ ring' = IF info = NoInfo \/ Len(ring) = RingSize THEN ring ELSE a
          /\ untold' = IF info \in right /\ (info = NoInfo \/ Len(ring) # RingSize)
                       THEN untold ELSE untold \cup {Owner[t]}
  BY DEF Report, RecordOf
<1> HIDE DEF a
<1>6. ring' = ring \/ (Len(ring) < RingSize /\ ring' = a)
  BY <1>3, <1>5
<1>7. ring' \in Seq(Rec) /\ Len(ring') <= RingSize
  BY <1>3, <1>4, <1>6
<1>8. odd' \subseteq Pids
  BY <1>1, <1>5 DEF ProgTypes, odd
<1>9. Reported(t, right, info)
  BY <1>5 DEF Reported, a, odd
<1>10. QED
  BY <1>2, <1>7, <1>8, <1>9

(* What the calls of a thread have in common.                              *)
CallStep(t) ==
    /\ t \in live
    /\ UNCHANGED <<live, comm, gen, chan, exits, vm, progVars, unheard>>
    /\ odd \subseteq odd' /\ odd' \subseteq odd \cup {Owner[t]}
    /\ \A p \in Pids : p # Owner[t] => areas'[p] = areas[p] /\ top'[p] = top[p]
    /\ ring' = ring \/ \E info \in Infos : ring' = Append(ring, RecordOf(t, info))

(* A call changes of the host only what the thread is in.                  *)
LEMMA ReadyTypes ==
    ASSUME HostTypes, NEW t \in Tids, Ready(t), events' = events + 1,
           UNCHANGED <<live, comm, gen, top>>, call' \in [Tids -> 0..MaxTop],
           \A u \in Tids : u # t => call'[u] = call[u]
    PROVE  HostTypes'
<1>1. events \in Nat /\ events + 1 \in 0..MaxEvents
  <2>1. events \in 0..MaxEvents /\ events < MaxEvents /\ MaxEvents \in Nat
    BY Sizes DEF Ready, HostTypes
  <2>2. QED
    BY <2>1
<1>2. \A p \in Pids : gen'[p] <= events'
  <2>1. \A p \in Pids : gen[p] \in Nat /\ gen[p] <= events /\ gen'[p] = gen[p]
    BY DEF HostTypes
  <2>2. QED
    BY <1>1, <2>1
<1>3. \A u \in Tids : call'[u] # 0 => u \in live'
  BY DEF Ready, HostTypes
<1>4. QED
  BY <1>1, <1>2, <1>3 DEF HostTypes

(* An entry is set to one of the two.                                      *)
LEMMA SetOpTypes ==
    ASSUME OpTypes, NEW t \in Tids, NEW info \in {NoInfo, BrkEntry}, SetOp(t, info)
    PROVE  OpTypes'
  BY DEF OpTypes, SetOp

(* The areas of one process change, and stay apart.                        *)
LEMMA AreaStep ==
    ASSUME AreaTypes, NEW q \in Pids, NEW S \in SUBSET Regions,
           \A x, y \in S : x = y \/ Apart(x, y), areas' = [areas EXCEPT ![q] = S]
    PROVE  AreaTypes' /\ \A p \in Pids : p # q => areas'[p] = areas[p]
<1>1. areas' \in [Pids -> SUBSET Regions]
  BY DEF AreaTypes
<1>2. areas'[q] = S /\ \A p \in Pids : p # q => areas'[p] = areas[p]
  BY DEF AreaTypes
<1>3. \A p \in Pids : \A x, y \in areas'[p] : x = y \/ Apart(x, y)
  <2>1. TAKE p \in Pids
  <2>2. CASE p = q
    BY <1>2, <2>2
  <2>3. CASE p # q
    BY <1>2, <2>3 DEF AreaTypes
  <2>4. QED
    BY <2>2, <2>3
<1>4. QED
  BY <1>1, <1>2, <1>3, Zenon DEF AreaTypes, Apart

(* The arguments of a call.                                                *)
LEMMA CallArgs ==
    ASSUME NEW t \in Tids, NEW r \in Regions
    PROVE  Owner[t] \in Pids /\ r.addr \in Nat /\ r.len \in Nat
<1>1. Owner[t] \in Pids
  BY ConstAssumption
<1>2. r.addr \in Nat /\ r.len \in Nat
  BY RegionFacts
<1>3. QED
  BY <1>1, <1>2

(* The types and the common part, call by call.                            *)
LEMMA MmapStep ==
    ASSUME Types, NEW t \in Tids, NEW type \in Mmaps, NEW r \in Regions, Mmap(t, type, r)
    PROVE  Types' /\ CallStep(t)
<1> DEFINE p == Owner[t]
           kind == IF type = "MMAP_ANON_PRIV" /\ op[t] # NoInfo THEN op[t].type ELSE type
           info == Info(kind, r.addr, r.len)
<1>1. p \in Pids /\ r.addr \in Nat /\ r.len \in Nat
  BY CallArgs
<1>2. kind \in InfoTypes
  <2>1. op[t] \in {NoInfo, BrkEntry}
    BY DEF Types, OpTypes
  <2>2. QED
    BY <2>1, TwoEntries DEF InfoTypes
<1>3. info \in Infos
  BY <1>1, <1>2, InfoFacts
<1>4. Report(t, {Info(type, r.addr, r.len)}, info) /\ misread' = misread
  BY DEF Mmap
<1>5. /\ Reported(t, {Info(type, r.addr, r.len)}, info)
      /\ ring' \in Seq(Rec) /\ Len(ring') <= RingSize /\ odd' \subseteq Pids
  <2> HIDE DEF info
  <2>1. QED
    BY <1>3, <1>4, ReportFacts DEF Types
<1> HIDE DEF kind, info
<1>6. AreaTypes' /\ \A q \in Pids : q # p => areas'[q] = areas[q]
  <2> DEFINE S == areas[p] \cup {r}
  <2>1. areas' = [areas EXCEPT ![p] = S]
    BY DEF Mmap
  <2>2. S \in SUBSET Regions
    BY <1>1 DEF Types, AreaTypes
  <2>3. \A x, y \in S : x = y \/ Apart(x, y)
    <3>1. \A s \in areas[p] : Apart(r, s) /\ Apart(s, r)
      BY DEF Mmap, Free, Apart
    <3>2. QED
      BY <1>1, <3>1 DEF Types, AreaTypes
  <2> HIDE DEF S
  <2>4. QED
    BY <1>1, <2>1, <2>2, <2>3, AreaStep DEF Types
<1>7. HostTypes'
  <2>1. /\ Ready(t) /\ events' = events + 1 /\ UNCHANGED <<live, comm, gen, top, call>>
    BY DEF Mmap
  <2>2. QED
    BY <2>1, ReadyTypes DEF Types, HostTypes
<1>8. OpTypes'
  BY SetOpTypes DEF Mmap, Types
<1>9. WayTypes' /\ AccountTypes' /\ ProgTypes'
  BY <1>5 DEF Mmap, Types, WayTypes, AccountTypes, ProgTypes, progVars
<1>10. CallStep(t)
  <2>1. /\ t \in live
        /\ UNCHANGED <<live, comm, gen, top, chan, exits, vm, progVars, unheard>>
    BY DEF Mmap, Ready
  <2>2. QED
    BY <1>3, <1>5, <1>6, <2>1 DEF CallStep, Reported
<1>11. QED
  BY <1>6, <1>7, <1>8, <1>9, <1>10 DEF Types

(* A call of mmap that fails.                                              *)
LEMMA MmapFailsStep ==
    ASSUME Types, NEW t \in Tids, NEW type \in Mmaps, MmapFails(t, type)
    PROVE  Types' /\ CallStep(t)
<1>1. /\ Ready(t) /\ events' = events + 1
      /\ UNCHANGED <<live, comm, gen, areas, top, call, ring, chan, exits, vm, progVars, odd,
                     unheard>>
  BY DEF MmapFails, odd
<1>2. HostTypes'
  BY <1>1, ReadyTypes DEF Types, HostTypes
<1>3. OpTypes'
  BY SetOpTypes DEF MmapFails, Types
<1>4. AreaTypes' /\ WayTypes' /\ AccountTypes' /\ ProgTypes'
  BY <1>1 DEF Types, AreaTypes, WayTypes, AccountTypes, ProgTypes, progVars
<1>5. CallStep(t)
  BY <1>1 DEF CallStep, Ready
<1>6. QED
  BY <1>2, <1>3, <1>4, <1>5 DEF Types

(* A call of mmap that is not counted.                                     *)
LEMMA MmapOtherStep ==
    ASSUME Types, NEW t \in Tids, NEW r \in Regions, MmapOther(t, r)
    PROVE  Types' /\ CallStep(t)
<1> DEFINE p == Owner[t]
           right == IF Free(p, r) THEN {NoInfo} ELSE {}
           info == IF Free(p, r) /\ op[t] # NoInfo THEN Info(op[t].type, r.addr, r.len) ELSE NoInfo
<1>1. p \in Pids /\ r.addr \in Nat /\ r.len \in Nat
  BY CallArgs
<1>2. op[t].type \in InfoTypes
  <2>1. op[t] \in {NoInfo, BrkEntry}
    BY DEF Types, OpTypes
  <2>2. QED
    BY <2>1, TwoEntries DEF InfoTypes
<1>3. info \in Infos
  BY <1>1, <1>2, InfoFacts, TwoEntries
<1>4. Report(t, right, info) /\ misread' = misread
  BY DEF MmapOther
<1> HIDE DEF right, info
<1>5. /\ Reported(t, right, info)
      /\ ring' \in Seq(Rec) /\ Len(ring') <= RingSize /\ odd' \subseteq Pids
  BY <1>3, <1>4, ReportFacts DEF Types
<1>6. AreaTypes' /\ \A q \in Pids : q # p => areas'[q] = areas[q]
  <2> DEFINE S == Cut(areas[p], r)
  <2>1. areas' = [areas EXCEPT ![p] = S]
    BY DEF MmapOther
  <2>2. S \in SUBSET Regions /\ \A x, y \in S : x = y \/ Apart(x, y)
    BY <1>1, CutFacts DEF Types, AreaTypes
  <2> HIDE DEF S
  <2>3. QED
    BY <1>1, <2>1, <2>2, AreaStep DEF Types
<1>7. /\ Ready(t) /\ events' = events + 1
      /\ UNCHANGED <<live, comm, gen, top, call, chan, exits, vm, progVars, unheard>>
  BY DEF MmapOther
<1>8. HostTypes'
  BY <1>7, ReadyTypes DEF Types, HostTypes
<1>9. OpTypes'
  BY SetOpTypes DEF MmapOther, Types
<1>10. WayTypes' /\ AccountTypes' /\ ProgTypes'
  BY <1>5, <1>7 DEF Types, WayTypes, AccountTypes, ProgTypes, progVars
<1>11. CallStep(t)
  BY <1>3, <1>5, <1>6, <1>7 DEF CallStep, Reported, Ready
<1>12. QED
  BY <1>6, <1>8, <1>9, <1>10, <1>11 DEF Types

(* A call of munmap.                                                       *)
LEMMA MunmapStep ==
    ASSUME Types, NEW t \in Tids, NEW r \in Regions, NEW ret \in BOOLEAN, Munmap(t, r, ret)
    PROVE  Types' /\ CallStep(t)
<1> DEFINE p == Owner[t]
           told == Info("MUNMAP", r.addr, r.len)
           right == IF Free(p, r) THEN {told, NoInfo} ELSE {told}
           info == IF ret THEN Unmapping(t, r.addr, r.len) ELSE NoInfo
<1>1. p \in Pids /\ r.addr \in Nat /\ r.len \in Nat
  BY CallArgs
<1>2. info \in Infos
  BY <1>1, UnmappingFacts, TwoEntries DEF Types
<1>3. Report(t, right, info) /\ misread' \in {misread, misread \cup {p}}
  BY DEF Munmap
<1> HIDE DEF right, info
<1>4. /\ Reported(t, right, info)
      /\ ring' \in Seq(Rec) /\ Len(ring') <= RingSize /\ odd' \subseteq Pids
  BY <1>2, <1>3, ReportFacts DEF Types
<1>5. AreaTypes' /\ \A q \in Pids : q # p => areas'[q] = areas[q]
  <2> DEFINE S == Cut(areas[p], r)
  <2>1. areas' = [areas EXCEPT ![p] = S]
    BY DEF Munmap
  <2>2. S \in SUBSET Regions /\ \A x, y \in S : x = y \/ Apart(x, y)
    BY <1>1, CutFacts DEF Types, AreaTypes
  <2> HIDE DEF S
  <2>3. QED
    BY <1>1, <2>1, <2>2, AreaStep DEF Types
<1>6. /\ Ready(t) /\ events' = events + 1
      /\ UNCHANGED <<live, comm, gen, top, call, chan, exits, vm, progVars, unheard>>
  BY DEF Munmap
<1>7. HostTypes'
  BY <1>6, ReadyTypes DEF Types, HostTypes
<1>8. OpTypes'
  BY SetOpTypes DEF Munmap, Types
<1>9. WayTypes' /\ AccountTypes' /\ ProgTypes'
  BY <1>4, <1>6 DEF Types, WayTypes, AccountTypes, ProgTypes, progVars
<1>10. CallStep(t)
  BY <1>2, <1>4, <1>5, <1>6 DEF CallStep, Reported, Ready
<1>11. QED
  BY <1>5, <1>7, <1>8, <1>9, <1>10 DEF Types

(* A thread enters brk.                                                    *)
LEMMA BrkEnterStep ==
    ASSUME Types, NEW t \in Tids, NEW n \in 1..MaxTop, BrkEnter(t, n)
    PROVE  Types' /\ CallStep(t)
<1>1. /\ Ready(t) /\ events' = events + 1 /\ call' = [call EXCEPT ![t] = n]
      /\ UNCHANGED <<live, comm, gen, areas, top, ring, chan, exits, vm, progVars, odd, unheard>>
  BY DEF BrkEnter, odd
<1>2. HostTypes'
  <2>1. call' \in [Tids -> 0..MaxTop] /\ \A u \in Tids : u # t => call'[u] = call[u]
    <3>1. n \in 0..MaxTop
      BY Sizes
    <3>2. call \in [Tids -> 0..MaxTop]
      BY DEF Types, HostTypes
    <3>3. QED
      BY <1>1, <3>1, <3>2
  <2>2. QED
    BY <1>1, <2>1, ReadyTypes DEF Types
<1>3. OpTypes'
  BY DEF BrkEnter, Types, OpTypes, BrkEntry
<1>4. AreaTypes' /\ WayTypes' /\ AccountTypes' /\ ProgTypes'
  BY <1>1 DEF Types, AreaTypes, WayTypes, AccountTypes, ProgTypes, progVars
<1>5. CallStep(t)
  BY <1>1 DEF CallStep, Ready
<1>6. QED
  BY <1>2, <1>3, <1>4, <1>5 DEF Types

(* The heap and the call of one thread change.                             *)
LEMMA BrkTypes ==
    ASSUME HostTypes, NEW t \in Tids, BrkReturns(t),
           top' = top \/ top' = [top EXCEPT ![Owner[t]] = call[t]]
    PROVE  /\ HostTypes' /\ t \in live /\ call[t] \in 1..MaxTop
           /\ \A p \in Pids : p # Owner[t] => top'[p] = top[p]
           /\ UNCHANGED <<live, comm, gen, areas, chan, exits, vm, progVars, unheard>>
<1>1. /\ call[t] # 0 /\ call' = [call EXCEPT ![t] = 0]
      /\ UNCHANGED <<live, comm, gen, areas, events, chan, exits, vm, progVars, unheard>>
  BY DEF BrkReturns
<1>2. MaxTop \in Nat /\ call[t] \in 0..MaxTop
  BY Sizes DEF HostTypes
<1>3. call[t] \in 1..MaxTop
  BY <1>1, <1>2
<1>4. /\ call' \in [Tids -> 0..MaxTop]
      /\ \A u \in Tids : call'[u] # 0 => call[u] # 0
  <2>1. call \in [Tids -> 0..MaxTop]
    BY DEF HostTypes
  <2>2. 0 \in 0..MaxTop
    BY <1>2
  <2>3. QED
    BY <1>1, <2>1, <2>2
<1>5. top' \in [Pids -> 1..MaxTop] /\ \A p \in Pids : p # Owner[t] => top'[p] = top[p]
  BY <1>3 DEF HostTypes
<1>6. t \in live
  BY <1>1 DEF HostTypes
<1>7. HostTypes'
  BY <1>1, <1>4, <1>5 DEF HostTypes
<1>8. QED
  BY <1>1, <1>3, <1>5, <1>6, <1>7

(* The argument of brk and the top of the heap are addresses.              *)
LEMMA HeapFacts ==
    ASSUME Types, NEW t \in Tids
    PROVE  /\ Owner[t] \in Pids
           /\ top[Owner[t]] \in 1..MaxTop /\ call[t] \in 0..MaxTop
           /\ Heap(top[Owner[t]]) \in Nat /\ Heap(call[t]) \in Nat
<1>1. Owner[t] \in Pids
  BY ConstAssumption
<1>2. top[Owner[t]] \in 1..MaxTop /\ call[t] \in 0..MaxTop
  BY <1>1 DEF Types, HostTypes
<1>3. QED
  BY <1>1, <1>2, Sizes DEF Heap

(* The heap grows, or does not.                                            *)
LEMMA BrkGrowsStep ==
    ASSUME Types, NEW t \in Tids, NEW ok \in BOOLEAN, BrkGrows(t, ok)
    PROVE  Types' /\ CallStep(t)
<1> DEFINE p == Owner[t]
           info == Info("BRK", Heap(top[p]), call[t] - top[p])
<1>1. /\ p \in Pids /\ top[p] \in 1..MaxTop /\ call[t] \in 0..MaxTop /\ Heap(top[p]) \in Nat
  BY HeapFacts
<1>2. BrkReturns(t) /\ call[t] > top[p] /\ SetOp(t, NoInfo)
  BY DEF BrkGrows
<1>3. \/ /\ Report(t, {info}, info) /\ misread' = misread
         /\ top' = [top EXCEPT ![p] = call[t]]
      \/ UNCHANGED <<ring, odd, top>>
  BY DEF BrkGrows, BrkReturns, odd
<1>4. call[t] - top[p] \in Nat
  BY <1>1, <1>2
<1>5. info \in Infos
  BY <1>1, <1>4, InfoFacts DEF InfoTypes
<1> HIDE DEF info
<1>6. /\ HostTypes' /\ t \in live
      /\ \A q \in Pids : q # p => top'[q] = top[q]
      /\ UNCHANGED <<live, comm, gen, areas, chan, exits, vm, progVars, unheard>>
  BY <1>2, <1>3, BrkTypes DEF Types
<1>7. OpTypes'
  BY <1>2, SetOpTypes DEF Types
<1>8. /\ ring' \in Seq(Rec) /\ Len(ring') <= RingSize /\ odd' \subseteq Pids
      /\ odd \subseteq odd' /\ odd' \subseteq odd \cup {p}
      /\ ring' = ring \/ ring' = Append(ring, RecordOf(t, info))
  <2>1. CASE Report(t, {info}, info) /\ misread' = misread
    BY <1>5, <2>1, ReportFacts DEF Types, Reported
  <2>2. CASE UNCHANGED <<ring, odd, top>>
    BY <2>2 DEF Types, WayTypes, ProgTypes
  <2>3. QED
    BY <1>3, <2>1, <2>2
<1>9. AreaTypes' /\ WayTypes' /\ AccountTypes' /\ ProgTypes'
  BY <1>6, <1>8 DEF Types, AreaTypes, WayTypes, AccountTypes, ProgTypes, progVars
<1>10. CallStep(t)
  BY <1>5, <1>6, <1>8 DEF CallStep
<1>11. QED
  BY <1>6, <1>7, <1>9, <1>10 DEF Types

(* The heap shrinks.                                                       *)
LEMMA BrkShrinksStep ==
    ASSUME Types, NEW t \in Tids, NEW ret \in BOOLEAN, BrkShrinks(t, ret)
    PROVE  Types' /\ CallStep(t)
<1> DEFINE p == Owner[t]
           len == top[p] - call[t]
           right == {Info("BRK_SHRINK", Heap(call[t]), len)}
           info == IF ret THEN Unmapping(t, Heap(call[t]), len) ELSE NoInfo
<1>1. /\ p \in Pids /\ top[p] \in 1..MaxTop /\ call[t] \in 0..MaxTop /\ Heap(call[t]) \in Nat
  BY HeapFacts
<1>2. /\ BrkReturns(t) /\ call[t] < top[p] /\ SetOp(t, NoInfo)
      /\ top' = [top EXCEPT ![p] = call[t]]
      /\ Report(t, right, info) /\ misread' = misread
  BY DEF BrkShrinks, BrkReturns
<1>3. len \in Nat
  BY <1>1, <1>2
<1> HIDE DEF len
<1>4. info \in Infos
  BY <1>1, <1>3, UnmappingFacts, TwoEntries DEF Types
<1> HIDE DEF right, info
<1>5. /\ HostTypes' /\ t \in live
      /\ \A q \in Pids : q # p => top'[q] = top[q]
      /\ UNCHANGED <<live, comm, gen, areas, chan, exits, vm, progVars, unheard>>
  BY <1>2, BrkTypes DEF Types
<1>6. OpTypes'
  BY <1>2, SetOpTypes DEF Types
<1>7. /\ ring' \in Seq(Rec) /\ Len(ring') <= RingSize /\ odd' \subseteq Pids
      /\ odd \subseteq odd' /\ odd' \subseteq odd \cup {p}
      /\ ring' = ring \/ ring' = Append(ring, RecordOf(t, info))
  BY <1>2, <1>4, ReportFacts DEF Types, Reported
<1>8. AreaTypes' /\ WayTypes' /\ AccountTypes' /\ ProgTypes'
  BY <1>5, <1>7 DEF Types, AreaTypes, WayTypes, AccountTypes, ProgTypes, progVars
<1>9. CallStep(t)
  BY <1>4, <1>5, <1>7 DEF CallStep
<1>10. QED
  BY <1>5, <1>6, <1>8, <1>9 DEF Types

(* The heap stays, with or without the entry.                              *)
LEMMA BrkStaysStep ==
    ASSUME Types, NEW t \in Tids, BrkStays(t) \/ BrkShrinkFails(t)
    PROVE  Types' /\ CallStep(t)
<1>1. BrkReturns(t) /\ UNCHANGED <<top, ring, odd>> /\ (op' = op \/ SetOp(t, NoInfo))
  BY DEF BrkStays, BrkShrinkFails, BrkReturns, odd
<1>2. /\ HostTypes' /\ t \in live
      /\ UNCHANGED <<live, comm, gen, areas, chan, exits, vm, progVars, unheard>>
  BY <1>1, BrkTypes DEF Types
<1>3. AreaTypes' /\ WayTypes' /\ AccountTypes' /\ ProgTypes'
  BY <1>1, <1>2 DEF Types, AreaTypes, WayTypes, AccountTypes, ProgTypes, progVars
<1>4. OpTypes'
  BY <1>1, SetOpTypes DEF Types, OpTypes
<1>5. CallStep(t)
  BY <1>1, <1>2 DEF CallStep
<1>6. QED
  BY <1>2, <1>3, <1>4, <1>5 DEF Types

-----------------------------------------------------------------------------
(* The types under the other steps *)

(* One event more, of which one pid may make use.                          *)
LEMMA MoreEvents ==
    ASSUME HostTypes, events < MaxEvents
    PROVE  /\ events + 1 \in 0..MaxEvents
           /\ \A p \in Pids : gen[p] <= events + 1 /\ gen[p] + 1 <= events + 1
<1>1. events \in 0..MaxEvents /\ MaxEvents \in Nat
  BY Sizes DEF HostTypes
<1>2. \A p \in Pids : gen[p] \in Nat /\ gen[p] <= events
  BY DEF HostTypes
<1>3. QED
  BY <1>1, <1>2

(* What a new address space makes of the history.                          *)
LEMMA BeginsFacts ==
    ASSUME NEW p, NEW c, Begins(p, c)
    PROVE  odd' = IF Foreign(p, c) THEN odd \ {p} ELSE odd \cup {p}
<1>1. CASE Foreign(p, c)
  BY <1>1 DEF Begins, odd
<1>2. CASE ~Foreign(p, c)
  BY <1>2 DEF Begins, odd
<1>3. QED
  BY <1>1, <1>2

(* The types after each of the other steps.                                *)
LEMMA StartTypes ==
    ASSUME Types, NEW t \in Tids, NEW c \in Comms, Start(t, c)
    PROVE  Types'
<1> DEFINE p == Owner[t]
<1>1. p \in Pids
  BY ConstAssumption
<1>2. /\ events < MaxEvents /\ events' = events + 1 /\ gen' = [gen EXCEPT ![p] = @ + 1]
      /\ live' = live \cup {t} /\ comm' = [comm EXCEPT ![t] = c]
      /\ UNCHANGED <<areas, top, call, op, ring, chan, exits, vm, progVars>>
      /\ odd' \in {odd \ {p}, odd \cup {p}} /\ unheard' = unheard \ {p}
  BY BeginsFacts DEF Start
<1>3. gen' \in [Pids -> Nat] /\ \A q \in Pids : gen'[q] <= events'
  <2>1. gen \in [Pids -> Nat]
    BY DEF Types, HostTypes
  <2>2. QED
    <3>1. \A q \in Pids : gen[q] \in Nat /\ gen[q] <= events + 1 /\ gen[q] + 1 <= events + 1
      BY <1>2, <2>1, MoreEvents DEF Types
    <3>2. gen' = [gen EXCEPT ![p] = @ + 1]
      BY <1>2
    <3>4. gen' \in [Pids -> Nat]
      <4>1. gen[p] + 1 \in Nat
        BY <1>1, <2>1
      <4>2. QED
        BY <1>1, <2>1, <3>2, <4>1
    <3>5. \A q \in Pids : gen'[q] = gen[q] \/ gen'[q] = gen[q] + 1
      BY <2>1, <3>2
    <3>3. events' = events + 1
      BY <1>2
    <3>6. QED
      BY <3>1, <3>3, <3>4, <3>5
<1>4. events' \in 0..MaxEvents
  BY <1>2, MoreEvents DEF Types
<1>5. live' \subseteq Tids /\ comm' \in [Tids -> Comms \cup {""}]
      /\ \A u \in Tids : call'[u] # 0 => u \in live'
  BY <1>2 DEF Types, HostTypes
<1>6. HostTypes'
  BY <1>2, <1>3, <1>4, <1>5 DEF Types, HostTypes
<1>7. AreaTypes' /\ OpTypes' /\ WayTypes' /\ AccountTypes' /\ ProgTypes'
  BY <1>1, <1>2 DEF Types, AreaTypes, OpTypes, WayTypes, AccountTypes, ProgTypes, progVars
<1>8. QED
  BY <1>6, <1>7 DEF Types

LEMMA CloneTypes ==
    ASSUME Types, NEW t \in Tids, NEW u \in Tids, Clone(t, u)
    PROVE  Types'
<1>1. /\ events < MaxEvents /\ events' = events + 1
      /\ live' = live \cup {u} /\ comm' = [comm EXCEPT ![u] = comm[t]]
      /\ UNCHANGED <<gen, areas, top, call, op, ring, chan, exits, vm, progVars, odd, unheard>>
  BY DEF Clone, Ready, odd
<1>2. events' \in 0..MaxEvents /\ \A q \in Pids : gen'[q] <= events'
  BY <1>1, MoreEvents DEF Types
<1>3. live' \subseteq Tids /\ comm' \in [Tids -> Comms \cup {""}]
      /\ \A v \in Tids : call'[v] # 0 => v \in live'
  BY <1>1 DEF Types, HostTypes
<1>4. HostTypes'
  BY <1>1, <1>2, <1>3 DEF Types, HostTypes
<1>5. AreaTypes' /\ OpTypes' /\ WayTypes' /\ AccountTypes' /\ ProgTypes'
  BY <1>1 DEF Types, AreaTypes, OpTypes, WayTypes, AccountTypes, ProgTypes, progVars
<1>6. QED
  BY <1>4, <1>5 DEF Types

(* What execve leaves of an address space, and the end of a process.       *)
LEMMA NoAreas ==
    ASSUME Types, NEW p \in Pids,
           areas' = [areas EXCEPT ![p] = {}], top' = [top EXCEPT ![p] = 1]
    PROVE  /\ AreaTypes' /\ top' \in [Pids -> 1..MaxTop]
           /\ areas'[p] = {} /\ top'[p] = 1
           /\ \A q \in Pids : q # p => areas'[q] = areas[q] /\ top'[q] = top[q]
<1>1. AreaTypes' /\ \A q \in Pids : q # p => areas'[q] = areas[q]
  <2>1. {} \in SUBSET Regions /\ \A x, y \in {} : x = y \/ Apart(x, y)
    OBVIOUS
  <2>2. AreaTypes
    BY DEF Types
  <2>3. QED
    BY <2>1, <2>2, AreaStep
<1>2. top \in [Pids -> 1..MaxTop] /\ 1 \in 1..MaxTop
  <2>1. 1 \in 1..MaxTop
    BY Sizes
  <2>2. QED
    BY <2>1 DEF Types, HostTypes
<1>3. areas'[p] = {}
  BY DEF Types, AreaTypes
<1>4. QED
  BY <1>1, <1>2, <1>3

LEMMA ExecTypes ==
    ASSUME Types, NEW t \in Tids, NEW c \in Comms, Exec(t, c)
    PROVE  Types'
<1> DEFINE p == Owner[t]
<1>1. p \in Pids
  BY ConstAssumption
<1>2. /\ events < MaxEvents /\ events' = events + 1 /\ comm' = [comm EXCEPT ![t] = c]
      /\ areas' = [areas EXCEPT ![p] = {}] /\ top' = [top EXCEPT ![p] = 1]
      /\ odd' \in {odd \ {p}, odd \cup {p}}
      /\ UNCHANGED <<live, gen, call, op, ring, chan, exits, vm, progVars, unheard>>
  BY BeginsFacts DEF Exec, Ready
<1>3. events' \in 0..MaxEvents /\ \A q \in Pids : gen'[q] <= events'
  BY <1>2, MoreEvents DEF Types
<1>4. AreaTypes' /\ top' \in [Pids -> 1..MaxTop]
  BY <1>1, <1>2, NoAreas
<1>5. comm' \in [Tids -> Comms \cup {""}]
  BY <1>2 DEF Types, HostTypes
<1>6. HostTypes'
  BY <1>2, <1>3, <1>4, <1>5 DEF Types, HostTypes
<1>7. OpTypes' /\ WayTypes' /\ AccountTypes' /\ ProgTypes'
  BY <1>1, <1>2 DEF Types, OpTypes, WayTypes, AccountTypes, ProgTypes, progVars
<1>8. QED
  BY <1>4, <1>6, <1>7 DEF Types

LEMMA RenameTypes ==
    ASSUME Types, NEW t \in Tids, NEW c \in Comms, Rename(t, c)
    PROVE  Types'
<1> DEFINE p == Owner[t]
<1>1. p \in Pids
  BY ConstAssumption
<1>2. /\ events < MaxEvents /\ events' = events + 1 /\ comm' = [comm EXCEPT ![t] = c]
      /\ odd' \in {odd, odd \cup {p}}
      /\ UNCHANGED <<live, gen, areas, top, call, op, ring, chan, exits, vm, progVars, unheard>>
  BY DEF Rename, Ready, odd
<1>3. events' \in 0..MaxEvents /\ \A q \in Pids : gen'[q] <= events'
  BY <1>2, MoreEvents DEF Types
<1>4. comm' \in [Tids -> Comms \cup {""}]
  BY <1>2 DEF Types, HostTypes
<1>5. HostTypes'
  BY <1>2, <1>3, <1>4 DEF Types, HostTypes
<1>6. AreaTypes' /\ OpTypes' /\ WayTypes' /\ AccountTypes' /\ ProgTypes'
  BY <1>1, <1>2 DEF Types, AreaTypes, OpTypes, WayTypes, AccountTypes, ProgTypes, progVars
<1>7. QED
  BY <1>5, <1>6 DEF Types

(* The event of the end of thread t.                                       *)
ExitOf(t) == [pid |-> Owner[t], gen |-> gen[Owner[t]], comm |-> comm[t],
              last |-> Threads(Owner[t]) = {t}]

(* What makes such an event.                                               *)
LEMMA ExitIntro ==
    ASSUME NEW p \in Pids, NEW g \in Nat, NEW c \in Comms \cup {""}, NEW b \in BOOLEAN
    PROVE  [pid |-> p, gen |-> g, comm |-> c, last |-> b] \in Exit
  BY DEF Exit

LEMMA ThreadExitTypes ==
    ASSUME Types, NEW t \in Tids, NEW heard \in BOOLEAN, ThreadExit(t, heard)
    PROVE  /\ Types'
           /\ ExitOf(t) \in Exit
           /\ exits' = IF heard THEN Append(exits, ExitOf(t)) ELSE exits
<1> DEFINE p == Owner[t]
           last == Threads(p) = {t}
<1>1. p \in Pids
  BY ConstAssumption
<1>2. /\ events < MaxEvents /\ events' = events + 1 /\ call[t] = 0
      /\ live' = live \ {t} /\ comm' = [comm EXCEPT ![t] = ""]
      /\ heard => Len(exits) < ExitSize
      /\ exits' = IF heard THEN Append(exits, ExitOf(t)) ELSE exits
      /\ areas' = IF last THEN [areas EXCEPT ![p] = {}] ELSE areas
      /\ top' = IF last THEN [top EXCEPT ![p] = 1] ELSE top
      /\ unheard' \in {unheard, unheard \cup {p}}
      /\ UNCHANGED <<gen, call, op, ring, chan, vm, progVars, odd>>
  BY Zenon DEF ThreadExit, Ready, ExitOf, odd
<1>3. events' \in 0..MaxEvents /\ \A q \in Pids : gen'[q] <= events'
  BY <1>2, MoreEvents DEF Types
<1>4. AreaTypes' /\ top' \in [Pids -> 1..MaxTop]
  <2>1. CASE last
    BY <1>1, <1>2, <2>1, NoAreas
  <2>2. CASE ~last
    BY <1>2, <2>2 DEF Types, AreaTypes, HostTypes
  <2>3. QED
    BY <2>1, <2>2
<1>5. live' \subseteq Tids /\ comm' \in [Tids -> Comms \cup {""}]
      /\ \A u \in Tids : call'[u] # 0 => u \in live'
  BY <1>2 DEF Types, HostTypes
<1>6. HostTypes'
  BY <1>2, <1>3, <1>4, <1>5 DEF Types, HostTypes
<1>7. ExitOf(t) \in Exit
  <2>1. gen[p] \in Nat /\ comm[t] \in Comms \cup {""} /\ last \in BOOLEAN
    BY <1>1 DEF Types, HostTypes
  <2> HIDE DEF last
  <2>2. ExitOf(t) = [pid |-> p, gen |-> gen[p], comm |-> comm[t], last |-> last]
    BY Zenon DEF ExitOf, last
  <2>3. QED
    BY <1>1, <2>1, <2>2, ExitIntro
<1>8. exits' \in Seq(Exit) /\ Len(exits') <= ExitSize
  <2>1. exits \in Seq(Exit) /\ Len(exits) \in Nat /\ Len(exits) <= ExitSize /\ ExitSize \in Nat
    BY Sizes DEF Types, WayTypes
  <2>2. Append(exits, ExitOf(t)) \in Seq(Exit) /\ Len(Append(exits, ExitOf(t))) = Len(exits) + 1
    BY <1>7, <2>1
  <2>3. CASE heard
    <3>1. Len(exits) < ExitSize /\ exits' = Append(exits, ExitOf(t))
      BY <1>2, <2>3, Zenon
    <3>2. QED
      BY <2>1, <2>2, <3>1
  <2>4. CASE ~heard
    BY <1>2, <2>1, <2>4
  <2>5. QED
    BY <2>3, <2>4
<1>9. OpTypes' /\ WayTypes' /\ AccountTypes' /\ ProgTypes'
  BY <1>1, <1>2, <1>8 DEF Types, OpTypes, WayTypes, AccountTypes, ProgTypes, progVars
<1>10. QED
  BY <1>2, <1>4, <1>6, <1>7, <1>9 DEF Types

LEMMA TraceEventTypes ==
    ASSUME Types, TraceEvent
    PROVE  /\ Types' /\ Head(ring) \in Rec
           /\ chan' = chan \/ chan' = Append(chan, Head(ring))
<1>1. /\ ring # << >> /\ ring' = Tail(ring)
      /\ chan' = IF Len(chan) = ChanSize THEN chan ELSE Append(chan, Head(ring))
      /\ odd' \in {odd, odd \cup {Head(ring).pid}}
      /\ UNCHANGED <<hostVars, op, exits, vm, progVars, unheard>>
  BY DEF TraceEvent, odd
<1>2. /\ ring \in Seq(Rec) /\ Len(ring) <= RingSize /\ Len(ring) \in Nat
      /\ chan \in Seq(Rec) /\ Len(chan) <= ChanSize /\ Len(chan) \in Nat
      /\ RingSize \in Nat /\ ChanSize \in Nat
  BY Sizes DEF Types, WayTypes
<1>3. Head(ring) \in Rec /\ Tail(ring) \in Seq(Rec) /\ Len(Tail(ring)) = Len(ring) - 1
  BY <1>1, <1>2
<1>4. Append(chan, Head(ring)) \in Seq(Rec) /\ Len(Append(chan, Head(ring))) = Len(chan) + 1
  BY <1>2, <1>3
<1>5. ring' \in Seq(Rec) /\ Len(ring') <= RingSize
  BY <1>1, <1>2, <1>3
<1>6. chan' \in Seq(Rec) /\ Len(chan') <= ChanSize
  <2>1. CASE Len(chan) = ChanSize
    BY <1>1, <1>2, <2>1
  <2>2. CASE Len(chan) # ChanSize
    BY <1>1, <1>2, <1>4, <2>2
  <2>3. QED
    BY <2>1, <2>2
<1>7. odd' \subseteq Pids
  <2>1. Head(ring).pid \in Pids
    BY <1>3 DEF Rec
  <2>2. QED
    BY <1>1, <2>1 DEF Types, ProgTypes
<1>8. HostTypes' /\ AreaTypes' /\ OpTypes'
  BY <1>1 DEF Types, HostTypes, AreaTypes, OpTypes, hostVars
<1>9. WayTypes' /\ AccountTypes' /\ ProgTypes'
  BY <1>1, <1>5, <1>6, <1>7 DEF Types, WayTypes, AccountTypes, ProgTypes, progVars
<1>10. QED
  BY <1>1, <1>3, <1>8, <1>9 DEF Types

LEMMA HandleRecordTypes ==
    ASSUME Types, HandleRecord
    PROVE  /\ Types' /\ Head(chan) \in Rec
           /\ \A p \in Pids : vm'[p] = Applied(p, vm[p], Head(chan))
<1> DEFINE rec == Head(chan)
<1>1. /\ chan # << >> /\ chan' = Tail(chan)
      /\ vm' = [vm EXCEPT ![rec.pid] = Account(vm[rec.pid], rec)]
      /\ UNCHANGED <<hostVars, op, ring, exits, progVars, odd, unheard>>
  BY DEF HandleRecord, odd
<1>2. chan \in Seq(Rec) /\ Len(chan) <= ChanSize /\ Len(chan) \in Nat /\ ChanSize \in Nat
  BY Sizes DEF Types, WayTypes
<1>3. rec \in Rec /\ Tail(chan) \in Seq(Rec) /\ Len(Tail(chan)) = Len(chan) - 1
  BY <1>1, <1>2
<1>4. chan' \in Seq(Rec) /\ Len(chan') <= ChanSize
  BY <1>1, <1>2, <1>3
<1> HIDE DEF rec
<1>5. rec.pid \in Pids
  BY <1>3 DEF Rec
<1>6. vm[rec.pid] \in Entries /\ Account(vm[rec.pid], rec) \in Entries
  BY <1>3, <1>5, AccountFacts DEF Types, AccountTypes
<1>7. AccountTypes'
  BY <1>1, <1>6 DEF Types, AccountTypes
<1>8. \A p \in Pids : vm'[p] = Applied(p, vm[p], rec)
  BY <1>1 DEF Types, AccountTypes, Applied
<1>9. HostTypes' /\ AreaTypes' /\ OpTypes'
  BY <1>1 DEF Types, HostTypes, AreaTypes, OpTypes, hostVars
<1>10. WayTypes' /\ ProgTypes'
  BY <1>1, <1>4 DEF Types, WayTypes, ProgTypes, progVars
<1>11. QED
  BY <1>3, <1>7, <1>8, <1>9, <1>10 DEF Types, rec

(* No account is an account.                                               *)
LEMMA NoEntryType == NoEntry \in Entries
  BY DEF NoEntry, Entries

LEMMA HandleExitTypes ==
    ASSUME Types, HandleExit
    PROVE  Types' /\ Head(exits) \in Exit
<1> DEFINE e == Head(exits)
<1>1. /\ exits # << >> /\ exits' = Tail(exits)
      /\ vm' = vm \/ vm' = [vm EXCEPT ![e.pid] = NoEntry]
      /\ odd' \in {odd, odd \cup {e.pid}} /\ unheard' \in {unheard, unheard \cup {e.pid}}
      /\ UNCHANGED <<hostVars, op, ring, chan, progVars>>
  BY DEF HandleExit, odd
<1>2. exits \in Seq(Exit) /\ Len(exits) <= ExitSize /\ Len(exits) \in Nat /\ ExitSize \in Nat
  BY Sizes DEF Types, WayTypes
<1>3. e \in Exit /\ Tail(exits) \in Seq(Exit) /\ Len(Tail(exits)) = Len(exits) - 1
  BY <1>1, <1>2
<1>4. exits' \in Seq(Exit) /\ Len(exits') <= ExitSize
  BY <1>1, <1>2, <1>3
<1> HIDE DEF e
<1>5. e.pid \in Pids
  BY <1>3 DEF Exit
<1>6. AccountTypes'
  BY <1>1, <1>5, NoEntryType DEF Types, AccountTypes
<1>7. HostTypes' /\ AreaTypes' /\ OpTypes'
  BY <1>1 DEF Types, HostTypes, AreaTypes, OpTypes, hostVars
<1>8. WayTypes' /\ ProgTypes'
  BY <1>1, <1>4, <1>5 DEF Types, WayTypes, ProgTypes, progVars
<1>9. QED
  BY <1>3, <1>6, <1>7, <1>8 DEF Types, e

LEMMA StopReaderTypes ==
    ASSUME Types, StopReader
    PROVE  Types'
<1>1. /\ live' = {} /\ comm' = [t \in Tids |-> ""] /\ gen' = [p \in Pids |-> 0]
      /\ areas' = [p \in Pids |-> {}] /\ top' = [p \in Pids |-> 1]
      /\ call' = [t \in Tids |-> 0] /\ events' = 0 /\ op' = [t \in Tids |-> NoInfo]
      /\ odd' = Pids /\ unheard' = Pids /\ stop' = "closed"
      /\ UNCHANGED <<ring, chan, exits, vm, tracer, handler>>
  BY DEF StopReader, odd
<1>2. 1 \in 1..MaxTop /\ 0 \in 0..MaxTop /\ 0 \in 0..MaxEvents
  BY Sizes
<1>3. HostTypes'
  <2>1. top' \in [Pids -> 1..MaxTop] /\ call' \in [Tids -> 0..MaxTop]
    BY <1>1, <1>2
  <2>2. gen' \in [Pids -> Nat] /\ \A p \in Pids : gen'[p] <= events'
    <3>1. gen' = [p \in Pids |-> 0] /\ events' = 0
      BY <1>1
    <3>2. gen' \in [Pids -> Nat] /\ \A p \in Pids : gen'[p] = 0
      BY <3>1
    <3>3. 0 <= 0
      OBVIOUS
    <3>4. QED
      BY <3>1, <3>2, <3>3
  <2>3. \A t \in Tids : call'[t] = 0
    BY <1>1
  <2>4. live' \subseteq Tids /\ comm' \in [Tids -> Comms \cup {""}] /\ events' \in 0..MaxEvents
    BY <1>1, <1>2
  <2>5. QED
    BY <2>1, <2>2, <2>3, <2>4 DEF HostTypes
<1>4. AreaTypes' /\ OpTypes'
  BY <1>1 DEF AreaTypes, OpTypes
<1>5. WayTypes' /\ AccountTypes' /\ ProgTypes'
  BY <1>1 DEF Types, WayTypes, AccountTypes, ProgTypes
<1>6. QED
  BY <1>3, <1>4, <1>5 DEF Types

(* The types at the start.                                                 *)
LEMMA InitTypes == VMInit => Types
<1>1. SUFFICES ASSUME VMInit PROVE Types
  OBVIOUS
<1>2. 1 \in 1..MaxTop /\ 0 \in 0..MaxTop /\ 0 \in 0..MaxEvents
  BY Sizes
<1>3. HostTypes
  <2>1. top \in [Pids -> 1..MaxTop] /\ call \in [Tids -> 0..MaxTop]
    BY <1>1, <1>2 DEF VMInit
  <2>2. gen \in [Pids -> Nat] /\ \A p \in Pids : gen[p] <= events
    <3>1. gen = [p \in Pids |-> 0] /\ events = 0
      BY <1>1 DEF VMInit
    <3>2. gen \in [Pids -> Nat] /\ \A p \in Pids : gen[p] = 0
      BY <3>1
    <3>3. 0 <= 0
      OBVIOUS
    <3>4. QED
      BY <3>1, <3>2, <3>3
  <2>3. \A t \in Tids : call[t] = 0
    BY <1>1 DEF VMInit
  <2>4. live \subseteq Tids /\ comm \in [Tids -> Comms \cup {""}] /\ events \in 0..MaxEvents
    BY <1>1, <1>2 DEF VMInit
  <2>5. QED
    BY <2>1, <2>2, <2>3, <2>4 DEF HostTypes
<1>4. AreaTypes /\ OpTypes
  BY <1>1 DEF AreaTypes, OpTypes, VMInit
<1>5. WayTypes
  <2>1. << >> \in Seq(Rec) /\ << >> \in Seq(Exit) /\ Len(<< >>) = 0
    OBVIOUS
  <2>2. QED
    <3>1. ring = << >> /\ chan = << >> /\ exits = << >>
      BY <1>1 DEF VMInit
    <3>2. 0 <= RingSize /\ 0 <= ChanSize /\ 0 <= ExitSize
      BY Sizes
    <3>3. QED
      BY <2>1, <3>1, <3>2 DEF WayTypes
<1>6. AccountTypes /\ ProgTypes
  BY <1>1, NoEntryType DEF AccountTypes, ProgTypes, VMInit, odd
<1>7. QED
  BY <1>3, <1>4, <1>5, <1>6 DEF Types

(* The steps that move only the goroutines and Stop.                       *)
Control == TracerEnds \/ HandlerStops \/ Stop

(* They leave the host, the queues and the accounts alone.                 *)
LEMMA ControlFacts ==
    ASSUME Control
    PROVE  UNCHANGED <<hostVars, op, ring, chan, exits, vm, odd, unheard>>
  BY DEF Control, TracerEnds, HandlerStops, Stop, StopSignal, StopReturns, StopStep, odd

LEMMA ControlTypes ==
    ASSUME Types, Control
    PROVE  Types'
<1>1. HostTypes' /\ AreaTypes' /\ OpTypes'
  BY ControlFacts DEF Types, HostTypes, AreaTypes, OpTypes, hostVars
<1>2. WayTypes' /\ AccountTypes'
  BY ControlFacts DEF Types, WayTypes, AccountTypes
<1>3. ProgTypes'
  BY ControlFacts DEF Types, ProgTypes, Control, TracerEnds, HandlerStops, Stop, StopSignal,
     StopReturns, StopStep
<1>4. QED
  BY <1>1, <1>2, <1>3 DEF Types

-----------------------------------------------------------------------------
(* The invariant under the calls *)

(* A call of one process changes nothing for another.                      *)
LEMMA SettledOther ==
    ASSUME Types, NEW t \in Tids, CallStep(t), NEW q \in Pids, q # Owner[t]
    PROVE  Settled(q)' = Settled(q) /\ Queued(q)' = Queued(q)
<1>1. chan' = chan /\ vm' = vm /\ ring \in Seq(Rec)
  BY DEF CallStep, Types, WayTypes
<1>2. CASE ring' = ring
  BY <1>1, <1>2 DEF Settled, Queued
<1>3. CASE ring' # ring
  <2>1. PICK info \in Infos : ring' = Append(ring, RecordOf(t, info))
    BY <1>3 DEF CallStep
  <2> DEFINE r == RecordOf(t, info)
             e == Settle(q, vm[q], chan)
  <2>2. r.pid = Owner[t] /\ r \in Rec
    <3>1. Owner[t] \in Pids /\ comm[t] \in Comms \cup {""}
      BY ConstAssumption DEF Types, HostTypes
    <3>2. QED
      BY <3>1 DEF RecordOf, Rec
  <2> HIDE DEF r
  <2>3. ring' = Append(ring, r)
    BY <2>1 DEF r
  <2>4. Settle(q, e, Append(ring, r)) = Applied(q, Settle(q, e, ring), r)
    BY <1>1, <2>2, SettleAppend
  <2>5. Applied(q, Settle(q, e, ring), r) = Settle(q, e, ring)
    BY <2>2 DEF Applied
  <2>6. Settled(q)' = Settle(q, e, Append(ring, r))
    BY <1>1, <2>3 DEF Settled
  <2>7. Settled(q)' = Settled(q)
    BY <2>4, <2>5, <2>6 DEF Settled
  <2>8. Range(ring') = Range(ring) \cup {r}
    BY <1>1, <2>2, <2>3, RangeAppend
  <2>9. Queued(q)' = Queued(q)
    BY <1>1, <2>2, <2>8 DEF Queued
  <2>10. QED
    BY <2>7, <2>9
<1>4. QED
  BY <1>2, <1>3

(* A record that was not lost counts for its own process.                  *)
LEMMA SettledOwn ==
    ASSUME Types, NEW t \in Tids, NEW info \in Infos, chan' = chan, vm' = vm,
           ring' = Append(ring, RecordOf(t, info))
    PROVE  Settled(Owner[t])' = Account(Settled(Owner[t]), RecordOf(t, info))
<1> DEFINE p == Owner[t]
           r == RecordOf(t, info)
           e == Settle(p, vm[p], chan)
<1>1. ring \in Seq(Rec)
  BY DEF Types, WayTypes
<1>2. r.pid = p /\ r \in Rec
  <2>1. Owner[t] \in Pids /\ comm[t] \in Comms \cup {""}
    BY ConstAssumption DEF Types, HostTypes
  <2>2. QED
    BY <2>1 DEF RecordOf, Rec
<1> HIDE DEF r
<1>3. Settle(p, e, Append(ring, r)) = Applied(p, Settle(p, e, ring), r)
  BY <1>1, <1>2, SettleAppend
<1>4. Applied(p, Settle(p, e, ring), r) = Account(Settle(p, e, ring), r)
  BY <1>2 DEF Applied
<1>5. Settled(p)' = Settle(p, e, Append(ring, r))
  BY DEF Settled, r
<1>6. QED
  BY <1>3, <1>4, <1>5 DEF Settled, r

(* The threads of a process depend on the threads alone.                   *)
LEMMA ThreadsSame ==
    ASSUME live' = live, NEW p
    PROVE  Threads(p)' = Threads(p)
  BY DEF Threads

(* A call that keeps its own account exact keeps the invariant.            *)
LEMMA CallInv ==
    ASSUME VMInv, NEW t \in Tids, CallStep(t), Types',
           NEW c, c = comm[t],
           Owner[t] \notin odd' /\ c \in Watched /\ Exact(Owner[t], c) => Exact(Owner[t], c)'
    PROVE  VMInv'
<1> DEFINE o == Owner[t]
<1>1. /\ t \in live /\ o \in Pids /\ odd \subseteq odd'
      /\ UNCHANGED <<live, comm, gen, chan, exits, vm, unheard>>
      /\ \A p \in Pids : p # o => areas'[p] = areas[p] /\ top'[p] = top[p]
  BY ConstAssumption DEF CallStep
<1>2. \A p : Threads(p)' = Threads(p)
  BY <1>1 DEF Threads
<1>3. t \in Threads(o)
  BY <1>1 DEF Threads
<1>4. EmptyInv'
  <2>1. ASSUME NEW p \in Pids, Threads(p)' = {} PROVE areas'[p] = {} /\ top'[p] = 1
    <3>1. p # o /\ Threads(p) = {}
      BY <1>2, <1>3, <2>1
    <3>2. QED
      BY <1>1, <3>1 DEF VMInv, EmptyInv
  <2>2. QED
    BY <2>1 DEF EmptyInv
<1>5. NameInv'
  BY <1>1, <1>2 DEF VMInv, NameInv
<1>6. ExactInv'
  <2>1. SUFFICES ASSUME NEW p \in Pids, p \notin odd', NEW u \in Threads(p), comm[u] \in Watched
                 PROVE  Exact(p, comm[u])'
    BY <1>1, <1>2 DEF ExactInv
  <2>2. Exact(p, comm[u])
    BY <1>1, <2>1 DEF VMInv, ExactInv
  <2>3. CASE p = o
    <3>1. comm[u] = c
      BY <1>1, <1>3, <2>1, <2>3 DEF VMInv, NameInv
    <3>2. Exact(p, c)'
      BY <2>1, <2>2, <2>3, <3>1
    <3>3. comm'[u] = c
      BY <1>1, <3>1
    <3>4. QED
      BY <3>2, <3>3 DEF Exact
  <2>4. CASE p # o
    <3>1. Settled(p)' = Settled(p)
      BY <2>4, SettledOther DEF VMInv
    <3>2. areas'[p] = areas[p] /\ top'[p] = top[p] /\ comm' = comm
      BY <1>1, <2>4
    <3>3. QED
      BY <2>2, <3>1, <3>2 DEF Exact, Matches
  <2>5. QED
    BY <2>3, <2>4
<1>7. DeadInv'
  <2>1. SUFFICES ASSUME NEW p \in Pids, Threads(p) = {}, Remains(p)'
                 PROVE  Leaving(p)' \/ p \in unheard'
    BY <1>2 DEF DeadInv
  <2>2. p # o
    BY <1>3, <2>1
  <2>3. Queued(p)' = Queued(p)
    BY <2>2, SettledOther DEF VMInv
  <2>4. Remains(p)
    BY <1>1, <2>1, <2>3 DEF Remains
  <2>5. Leaving(p)' <=> Leaving(p)
    BY <1>1 DEF Leaving, IsLast
  <2>6. QED
    BY <1>1, <2>1, <2>4, <2>5 DEF VMInv, DeadInv
<1>8. QED
  BY <1>4, <1>5, <1>6, <1>7 DEF VMInv

(* The sizes and addresses that a record of name c is added to: those of   *)
(* account e, or none when e goes by another name.                         *)
Base(e, c, m, b, a) ==
    IF e.comm = c THEN m = e.mmapSize /\ b = e.brkSize /\ a = e.addrs
    ELSE m = 0 /\ b = 0 /\ a = {}

(* A record under the name of the account, and one under another name.     *)
LEMMA AccountCases ==
    ASSUME NEW e \in Entries, NEW rec, rec.comm \in Watched
    PROVE  /\ e.comm = rec.comm => Account(e, rec) = Changed(e, rec.info)
           /\ e.comm # rec.comm => Account(e, rec) =
                 [comm     |-> rec.comm,
                  mmapSize |-> IF rec.info.type \in Mmaps THEN rec.info.len ELSE 0,
                  brkSize  |-> IF rec.info.type = "BRK" THEN rec.info.len ELSE 0,
                  addrs    |-> IF rec.info.type \in Mmaps THEN {rec.info.addr} ELSE {}]
  BY Zenon DEF Account, NewAccount

(* The record of an area.                                                  *)
LEMMA AccountMmap ==
    ASSUME NEW e \in Entries, NEW rec, NEW c \in Watched, NEW addr, NEW len \in Nat,
           rec.comm = c, rec.info.type \in Mmaps, rec.info.addr = addr, rec.info.len = len,
           NEW m, NEW b, NEW a, Base(e, c, m, b, a)
    PROVE  Account(e, rec) = [comm |-> c, mmapSize |-> m + len, brkSize |-> b,
                              addrs |-> a \cup {addr}]
<1>1. CASE e.comm = rec.comm
  BY <1>1, AccountCases, ChangedForms DEF Base
<1>2. CASE e.comm # rec.comm
  <2>1. rec.info.type # "BRK"
    BY DEF Mmaps
  <2>2. Account(e, rec) = [comm |-> rec.comm, mmapSize |-> rec.info.len, brkSize |-> 0,
                           addrs |-> {rec.info.addr}]
    BY <1>2, <2>1, AccountCases
  <2>3. m + rec.info.len = rec.info.len /\ a \cup {rec.info.addr} = {rec.info.addr} /\ b = 0
    BY <1>2 DEF Base
  <2>4. QED
    BY <2>2, <2>3
<1>3. QED
  BY <1>1, <1>2

(* The record of a heap that grows.                                        *)
Growth(e, rec, m, b, a) ==
    /\ e \in Entries /\ Base(e, rec.comm, m, b, a)
    /\ rec.comm \in Watched /\ rec.info.type = "BRK" /\ rec.info.len \in Nat
Grown(e, rec, m, b, a) ==
    Account(e, rec) = [comm |-> rec.comm, mmapSize |-> m, brkSize |-> b + rec.info.len,
                       addrs |-> a]
LEMMA AccountBrk ==
    ASSUME NEW e, NEW rec, NEW m, NEW b, NEW a, Growth(e, rec, m, b, a)
    PROVE  Grown(e, rec, m, b, a)
<1>0. /\ e \in Entries /\ Base(e, rec.comm, m, b, a)
      /\ rec.comm \in Watched /\ rec.info.type = "BRK" /\ rec.info.len \in Nat
  BY DEF Growth
<1>1. CASE e.comm = rec.comm
  BY <1>0, <1>1, AccountCases, ChangedForms DEF Base, Grown
<1>2. CASE e.comm # rec.comm
  <2>1. rec.info.type \notin Mmaps
    BY <1>0 DEF Mmaps
  <2>2. Account(e, rec) = [comm |-> rec.comm, mmapSize |-> 0, brkSize |-> rec.info.len,
                           addrs |-> {}]
    BY <1>0, <1>2, <2>1, AccountCases
  <2>3. b + rec.info.len = rec.info.len /\ a = {} /\ m = 0
    BY <1>0, <1>2 DEF Base
  <2>4. QED
    BY <2>2, <2>3 DEF Grown
<1>3. QED
  BY <1>1, <1>2

(* The addresses of areas.                                                 *)
Starts(S) == {r.addr : r \in S}

(* What the account of p starts from: the areas and the heap.              *)
LEMMA ExactBase ==
    ASSUME Types, NEW p \in Pids, NEW c, Exact(p, c)
    PROVE  /\ Settled(p) \in Entries
           /\ Base(Settled(p), c, Size(areas[p]), top[p] - 1, Starts(areas[p]))
<1>1. Settled(p) \in Entries
  BY SettledType DEF Types
<1>2. CASE Settled(p).comm = c
  BY <1>1, <1>2, Zenon DEF Exact, Matches, Starts, Base
<1>3. CASE Settled(p).comm # c
  <2>1. areas[p] = {} /\ top[p] = 1
    BY <1>3 DEF Exact
  <2>2. Size(areas[p]) = 0
    BY <2>1, SizeEmpty
  <2>3. top[p] - 1 = 0
    BY <2>1
  <2>4. Starts(areas[p]) = {}
    BY <2>1 DEF Starts
  <2>5. QED
    BY <1>1, <1>3, <2>2, <2>3, <2>4, Zenon DEF Base
<1>4. QED
  BY <1>2, <1>3

(* What makes an account exact.                                            *)
LEMMA ExactIntro ==
    ASSUME NEW p, NEW c, NEW m, NEW b, NEW a,
           Settled(p)' = [comm |-> c, mmapSize |-> m, brkSize |-> b, addrs |-> a],
           m = Size(areas'[p]), b = top'[p] - 1, a = Starts(areas'[p])
    PROVE  Exact(p, c)'
<1>1. /\ Settled(p)'.comm = c /\ Settled(p)'.mmapSize = m /\ Settled(p)'.brkSize = b
      /\ Settled(p)'.addrs = a
  <2>1. \A s : s = [comm |-> c, mmapSize |-> m, brkSize |-> b, addrs |-> a] =>
               s.comm = c /\ s.mmapSize = m /\ s.brkSize = b /\ s.addrs = a
    OBVIOUS
  <2>2. QED
    BY <2>1, Zenon
<1>2. QED
  BY <1>1, Zenon DEF Exact, Matches, Starts

(* A call of mmap that is counted keeps the account exact.                 *)
LEMMA MmapExact ==
    ASSUME Types, NEW t \in Tids, NEW type \in Mmaps, NEW r \in Regions, Mmap(t, type, r),
           NEW c \in Watched, c = comm[t], Owner[t] \notin odd', Exact(Owner[t], c)
    PROVE  Exact(Owner[t], c)'
<1> DEFINE p == Owner[t]
           kind == IF type = "MMAP_ANON_PRIV" /\ op[t] # NoInfo THEN op[t].type ELSE type
           info == Info(type, r.addr, r.len)
           rec == RecordOf(t, info)
<1>1. p \in Pids /\ r.addr \in Nat /\ r.len \in Nat
  BY CallArgs
<1>2. /\ info \in Infos /\ info.type = type /\ info.addr = r.addr /\ info.len = r.len
      /\ info # NoInfo
  <2>1. type \in InfoTypes /\ type # "NONE"
    BY DEF InfoTypes, Mmaps
  <2>2. QED
    BY <1>1, <2>1, InfoFacts, TwoEntries
<1>3. Info(kind, r.addr, r.len) \in Infos
  <2>1. op[t] \in {NoInfo, BrkEntry}
    BY DEF Types, OpTypes
  <2>2. kind \in InfoTypes
    BY <2>1, TwoEntries DEF InfoTypes
  <2> HIDE DEF kind
  <2>3. QED
    BY <1>1, <2>2, InfoFacts
<1>4. /\ Report(t, {info}, Info(kind, r.addr, r.len)) /\ misread' = misread
      /\ chan' = chan /\ vm' = vm /\ top' = top
  BY DEF Mmap
<1> HIDE DEF kind, info
<1>5. ring' = Append(ring, rec)
  <2>1. Reported(t, {info}, Info(kind, r.addr, r.len))
    BY <1>3, <1>4, ReportFacts DEF Types
  <2>2. QED
    BY <1>2, <2>1 DEF Reported
<1>6. rec.comm = c /\ rec.info = info
  BY DEF RecordOf
<1> HIDE DEF rec
<1>7. Settled(p)' = Account(Settled(p), rec)
  BY <1>2, <1>4, <1>5, SettledOwn DEF rec
<1>8. Account(Settled(p), rec) =
          [comm |-> c, mmapSize |-> Size(areas[p]) + r.len, brkSize |-> top[p] - 1,
           addrs |-> Starts(areas[p]) \cup {r.addr}]
  <2> DEFINE m == Size(areas[p])
             b == top[p] - 1
             a == Starts(areas[p])
  <2>1. /\ Settled(p) \in Entries
        /\ Base(Settled(p), rec.comm, m, b, a)
    BY <1>1, <1>6, ExactBase, Zenon
  <2>2. rec.comm = c /\ rec.info.type \in Mmaps /\ rec.info.addr = r.addr /\ rec.info.len = r.len
    BY <1>1, <1>2, <1>6
  <2> HIDE DEF m, b, a
  <2>3. Account(Settled(p), rec) = [comm |-> c, mmapSize |-> m + r.len,
                                    brkSize |-> b, addrs |-> a \cup {r.addr}]
    BY <1>1, <1>6, <2>1, <2>2, AccountMmap
  <2>4. QED
    BY <2>3 DEF m, b, a
<1>9. areas'[p] = areas[p] \cup {r} /\ areas[p] \in SUBSET Regions
  BY <1>1 DEF Mmap, Types, AreaTypes
<1>10. Size(areas'[p]) = Size(areas[p]) + r.len
  <2>1. \A s \in areas[p] : Apart(r, s)
    BY DEF Mmap, Free
  <2>2. QED
    BY <1>9, <2>1, SizeAdd
<1>11. Starts(areas'[p]) = Starts(areas[p]) \cup {r.addr}
  BY <1>9 DEF Starts
<1>12. QED
  BY <1>4, <1>7, <1>8, <1>10, <1>11, ExactIntro

(* An account stays exact when nothing of its process changes.             *)
LEMMA ExactSame ==
    ASSUME NEW p, NEW c, Exact(p, c), UNCHANGED <<ring, chan, vm>>,
           areas'[p] = areas[p], top'[p] = top[p]
    PROVE  Exact(p, c)'
<1>1. Settled(p)' = Settled(p)
  BY DEF Settled
<1>2. QED
  BY <1>1 DEF Exact, Matches

(* So does a call of mmap that is not counted, if it hits nothing.         *)
LEMMA MmapOtherExact ==
    ASSUME Types, NEW t \in Tids, NEW r \in Regions, MmapOther(t, r),
           NEW c, Owner[t] \notin odd', Exact(Owner[t], c)
    PROVE  Exact(Owner[t], c)'
<1> DEFINE p == Owner[t]
           right == IF Free(p, r) THEN {NoInfo} ELSE {}
           info == IF Free(p, r) /\ op[t] # NoInfo THEN Info(op[t].type, r.addr, r.len) ELSE NoInfo
<1>1. p \in Pids /\ r.addr \in Nat /\ r.len \in Nat
  BY CallArgs
<1>2. op[t].type \in InfoTypes
  <2>1. op[t] \in {NoInfo, BrkEntry}
    BY DEF Types, OpTypes
  <2>2. QED
    BY <2>1, TwoEntries DEF InfoTypes
<1>3. info \in Infos
  BY <1>1, <1>2, InfoFacts, TwoEntries
<1>4. Report(t, right, info) /\ UNCHANGED <<chan, vm, top, misread>>
  BY DEF MmapOther
<1> HIDE DEF info, right
<1>5. info \in right /\ (info = NoInfo => ring' = ring)
  <2>1. Reported(t, right, info)
    BY <1>3, <1>4, ReportFacts DEF Types
  <2>2. QED
    BY <2>1 DEF Reported
<1>6. Free(p, r) /\ ring' = ring
  BY <1>5 DEF right
<1>7. areas'[p] = areas[p]
  <2>1. areas'[p] = Cut(areas[p], r)
    BY <1>1 DEF MmapOther, Types, AreaTypes
  <2>2. QED
    BY <1>6, <2>1, CutFree DEF Free
<1>8. QED
  BY <1>4, <1>6, <1>7, ExactSame

(* An unmapped address that the account does not know.                     *)
LEMMA AccountUnknown ==
    ASSUME NEW e \in Entries, NEW rec, NEW c \in Watched, NEW addr \in Nat, NEW len \in Nat,
           rec.comm = c, rec.info.type = "MUNMAP", rec.info.addr = addr, rec.info.len = len,
           NEW m, NEW b, NEW a, Base(e, c, m, b, a), addr \notin a, addr - len \notin a
    PROVE  Account(e, rec) = [comm |-> c, mmapSize |-> m, brkSize |-> b, addrs |-> a]
<1>1. CASE e.comm = c
  <2>1. a = e.addrs /\ m = e.mmapSize /\ b = e.brkSize
    BY <1>1 DEF Base
  <2>2. Account(e, rec) = e
    BY <1>1, <2>1, AccountCases, ChangedForms
  <2>3. e = [comm |-> e.comm, mmapSize |-> e.mmapSize, brkSize |-> e.brkSize, addrs |-> e.addrs]
    BY DEF Entries
  <2>4. QED
    BY <1>1, <2>1, <2>2, <2>3
<1>2. CASE e.comm # c
  <2>1. rec.info.type \notin Mmaps /\ rec.info.type # "BRK"
    BY DEF Mmaps
  <2>2. Account(e, rec) = [comm |-> c, mmapSize |-> 0, brkSize |-> 0, addrs |-> {}]
    BY <1>2, <2>1, AccountCases
  <2>3. QED
    BY <1>2, <2>2 DEF Base
<1>3. QED
  BY <1>1, <1>2

(* An unmapped address that the account knows.                             *)
LEMMA AccountKnown ==
    ASSUME NEW e \in Entries, NEW rec, NEW c \in Watched, NEW addr, NEW len,
           rec.comm = c, rec.info.type = "MUNMAP", rec.info.addr = addr, rec.info.len = len,
           e.comm = c, addr \in e.addrs
    PROVE  Account(e, rec) = [comm |-> c, mmapSize |-> e.mmapSize - len, brkSize |-> e.brkSize,
                              addrs |-> e.addrs \ {addr}]
  BY AccountCases, ChangedForms

(* An unmapped address a length behind one that the account knows.         *)
LEMMA AccountHalf ==
    ASSUME NEW e \in Entries, NEW rec, NEW c \in Watched, NEW addr, NEW len,
           rec.comm = c, rec.info.type = "MUNMAP", rec.info.addr = addr, rec.info.len = len,
           e.comm = c, addr \notin e.addrs, addr - len \in e.addrs
    PROVE  Account(e, rec) = [comm |-> c, mmapSize |-> e.mmapSize - len, brkSize |-> e.brkSize,
                              addrs |-> e.addrs]
  BY AccountCases, ChangedForms

(* The record of a heap that shrinks.                                      *)
LEMMA AccountShrink ==
    ASSUME NEW e \in Entries, NEW rec, NEW c \in Watched, NEW len,
           rec.comm = c, rec.info.type = "BRK_SHRINK", rec.info.len = len, e.comm = c
    PROVE  Account(e, rec) = [comm |-> c, mmapSize |-> e.mmapSize, brkSize |-> e.brkSize - len,
                              addrs |-> e.addrs]
  BY AccountCases, ChangedForms

(* A call of munmap keeps it exact, if it is told and followed.            *)
LEMMA MunmapExact ==
    ASSUME Types, NEW t \in Tids, NEW r \in Regions, NEW ret \in BOOLEAN, Munmap(t, r, ret),
           NEW c \in Watched, c = comm[t], Owner[t] \notin odd', Exact(Owner[t], c)
    PROVE  Exact(Owner[t], c)'
<1> DEFINE p == Owner[t]
           told == Info("MUNMAP", r.addr, r.len)
           right == IF Free(p, r) THEN {told, NoInfo} ELSE {told}
           info == IF ret THEN Unmapping(t, r.addr, r.len) ELSE NoInfo
           rec == RecordOf(t, told)
           e == Settled(p)
<1>1. p \in Pids /\ r.addr \in Nat /\ r.len \in Nat
  BY CallArgs
<1>2. info \in Infos
  BY <1>1, UnmappingFacts, TwoEntries DEF Types
<1>3. /\ told \in Infos /\ told.type = "MUNMAP" /\ told.addr = r.addr /\ told.len = r.len
      /\ told # NoInfo
  BY <1>1, InfoFacts, TwoEntries DEF InfoTypes
<1>4. /\ Report(t, right, info) /\ UNCHANGED <<chan, vm, top>>
      /\ misread' = IF info = told /\ ~Follows(p, r) THEN misread \cup {p} ELSE misread
  BY DEF Munmap
<1> HIDE DEF info, right, told
<1>5. /\ info \in right
      /\ info # NoInfo => ring' = Append(ring, RecordOf(t, info))
      /\ info = NoInfo => ring' = ring
      /\ info = told => Follows(p, r)
  <2>1. misread' \in {misread, misread \cup {p}}
    BY <1>4
  <2>2. Reported(t, right, info)
    BY <1>2, <1>4, <2>1, ReportFacts DEF Types
  <2>3. info = told => Follows(p, r)
    BY <1>4 DEF odd
  <2>4. QED
    BY <2>2, <2>3 DEF Reported
<1>6. areas'[p] = Cut(areas[p], r) /\ areas[p] \in SUBSET Regions
      /\ \A x, y \in areas[p] : x = y \/ Apart(x, y)
  BY <1>1 DEF Munmap, Types, AreaTypes
<1>7. rec.comm = c /\ rec.info = told
  BY DEF RecordOf
<1>8. info = told => e' = Account(e, rec)
  BY <1>2, <1>3, <1>4, <1>5, SettledOwn
<1>9. e \in Entries /\ Base(e, c, Size(areas[p]), top[p] - 1, Starts(areas[p]))
  BY <1>1, ExactBase
<1> HIDE DEF rec
<1>10. CASE r \in areas[p]
  <2>1. info = told
    <3>1. ~Apart(r, r)
      BY <1>1, RegionFacts DEF Apart
    <3>2. QED
      BY <1>5, <1>10, <3>1 DEF right, Free
  <2>2. e.comm = c
    BY <1>10 DEF Exact
  <2>3. /\ e.mmapSize = Size(areas[p]) /\ e.brkSize = top[p] - 1 /\ e.addrs = Starts(areas[p])
    BY <2>2 DEF Exact, Matches, Starts
  <2>4. r.addr \in e.addrs
    BY <1>10, <2>3 DEF Starts
  <2> HIDE DEF e
  <2>5. Account(e, rec) = [comm |-> c, mmapSize |-> e.mmapSize - r.len, brkSize |-> e.brkSize,
                           addrs |-> e.addrs \ {r.addr}]
    BY <1>3, <1>7, <1>9, <2>2, <2>4, AccountKnown
  <2>6. areas'[p] = areas[p] \ {r}
    BY <1>6, <1>10, CutWhole
  <2>7. Size(areas'[p]) = Size(areas[p]) - r.len
    BY <1>6, <1>10, <2>6, SizeRemove
  <2>8. Starts(areas'[p]) = Starts(areas[p]) \ {r.addr}
    <3>1. \A s \in areas[p] : s # r => s.addr # r.addr
      <4>1. TAKE s \in areas[p]
      <4>2. HAVE s # r
      <4>3. Apart(s, r) /\ s.addr \in Nat /\ s.len \in Nat \ {0} /\ r.len \in Nat \ {0}
        BY <1>6, <1>10, <4>2, RegionFacts
      <4>4. QED
        BY <1>1, <4>3 DEF Apart
    <3>2. QED
      BY <2>6, <3>1 DEF Starts
  <2>9. Settled(p)' = [comm |-> c, mmapSize |-> Size(areas[p]) - r.len, brkSize |-> top[p] - 1,
                       addrs |-> Starts(areas[p]) \ {r.addr}]
    BY <1>8, <2>1, <2>3, <2>5 DEF e
  <2>10. QED
    BY <1>4, <2>7, <2>8, <2>9, ExactIntro
<1>11. CASE [addr |-> r.addr - r.len, len |-> 2 * r.len] \in areas[p]
  <2>1. PICK s \in areas[p] : s.addr = r.addr - r.len /\ s.len = 2 * r.len
    BY <1>11
  <2>2. PICK h : h = [addr |-> s.addr, len |-> r.len]
    OBVIOUS
  <2>3. /\ areas'[p] = (areas[p] \ {s}) \cup {h}
        /\ Size(areas'[p]) = Size(areas[p]) - r.len
        /\ \A x \in areas[p] : x.addr # r.addr
        /\ ~Apart(r, s)
    BY <1>6, <2>1, <2>2, CutHalf
  <2>4. info = told
    BY <1>5, <2>1, <2>3 DEF right, Free
  <2>5. e.comm = c
    BY <2>1 DEF Exact
  <2>6. /\ e.mmapSize = Size(areas[p]) /\ e.brkSize = top[p] - 1 /\ e.addrs = Starts(areas[p])
    BY <2>5 DEF Exact, Matches, Starts
  <2>7. r.addr \notin e.addrs
    BY <2>3, <2>6 DEF Starts
  <2>8. r.addr - r.len \in e.addrs
    BY <2>1, <2>6 DEF Starts
  <2> HIDE DEF e
  <2>9. Account(e, rec) = [comm |-> c, mmapSize |-> e.mmapSize - r.len, brkSize |-> e.brkSize,
                           addrs |-> e.addrs]
    BY <1>3, <1>7, <1>9, <2>5, <2>7, <2>8, AccountHalf
  <2>10. Starts(areas'[p]) = Starts(areas[p])
    <3>1. h.addr = s.addr
      BY <2>2
    <3>2. QED
      BY <2>3, <3>1 DEF Starts
  <2>11. Settled(p)' = [comm |-> c, mmapSize |-> Size(areas[p]) - r.len, brkSize |-> top[p] - 1,
                        addrs |-> Starts(areas[p])]
    BY <1>8, <2>4, <2>6, <2>9 DEF e
  <2>12. QED
    BY <1>4, <2>3, <2>10, <2>11, ExactIntro
<1>12. CASE /\ r \notin areas[p] /\ Free(p, r)
            /\ [addr |-> r.addr - r.len, len |-> 2 * r.len] \notin areas[p]
  <2>1. /\ Free(p, r) /\ info \in {told, NoInfo}
        /\ info = told => \A s \in areas[p] : s.addr # r.addr - r.len
    <3>1. info \in {told, NoInfo}
      BY <1>5, <1>12 DEF right
    <3>2. info = told => \A s \in areas[p] : s.addr # r.addr - r.len
      BY <1>5, <1>12, Zenon DEF Follows
    <3>3. QED
      BY <1>12, <3>1, <3>2
  <2>2. areas'[p] = areas[p]
    BY <1>6, <2>1, CutFree DEF Free
  <2>3. CASE info = NoInfo
    BY <1>4, <1>5, <2>2, <2>3, ExactSame
  <2>4. CASE info = told
    <3>1. r.addr \notin Starts(areas[p])
      <4>1. ASSUME NEW s \in areas[p] PROVE s.addr # r.addr
        <5>1. Apart(r, s) /\ s.len \in Nat \ {0} /\ r.len \in Nat \ {0} /\ s.addr \in Nat
          BY <1>6, <2>1, RegionFacts DEF Free
        <5>2. QED
          BY <1>1, <5>1 DEF Apart
      <4>2. QED
        BY <4>1 DEF Starts
    <3>2. r.addr - r.len \notin Starts(areas[p])
      BY <2>1, <2>4 DEF Starts
    <3> DEFINE m == Size(areas[p])
               b == top[p] - 1
               a == Starts(areas[p])
    <3> HIDE DEF m, b, a, e
    <3>3. Base(e, c, m, b, a) /\ r.addr \notin a /\ r.addr - r.len \notin a
      BY <1>9, <3>1, <3>2 DEF m, b, a
    <3>4. Account(e, rec) = [comm |-> c, mmapSize |-> m, brkSize |-> b, addrs |-> a]
      <4>1. /\ rec.comm = c /\ rec.info.type = "MUNMAP"
            /\ rec.info.addr = r.addr /\ rec.info.len = r.len
        BY <1>3, <1>7
      <4>2. e \in Entries
        BY <1>9
      <4>3. QED
        BY <1>1, <3>3, <4>1, <4>2, AccountUnknown
    <3>5. Settled(p)' = [comm |-> c, mmapSize |-> m, brkSize |-> b, addrs |-> a]
      BY <1>8, <2>4, <3>4 DEF e
    <3>6. m = Size(areas'[p]) /\ b = top'[p] - 1 /\ a = Starts(areas'[p])
      BY <1>4, <2>2, Zenon DEF m, b, a
    <3>7. QED
      BY <3>5, <3>6, ExactIntro
  <2>5. QED
    BY <2>1, <2>3, <2>4
<1>13. CASE /\ r \notin areas[p] /\ ~Free(p, r)
            /\ [addr |-> r.addr - r.len, len |-> 2 * r.len] \notin areas[p]
  <2>1. info = told
    BY <1>5, <1>13 DEF right
  <2>2. QED
    BY <1>5, <1>13, <2>1, Zenon DEF Follows
<1>14. QED
  BY <1>10, <1>11, <1>12, <1>13, Zenon

(* A heap that grows keeps it exact.                                       *)
LEMMA BrkGrowsExact ==
    ASSUME Types, NEW t \in Tids, NEW ok \in BOOLEAN, BrkGrows(t, ok),
           NEW c \in Watched, c = comm[t], Owner[t] \notin odd', Exact(Owner[t], c)
    PROVE  Exact(Owner[t], c)'
<1> DEFINE p == Owner[t]
           len == call[t] - top[p]
           info == Info("BRK", Heap(top[p]), len)
           rec == RecordOf(t, info)
           e == Settled(p)
<1>1. /\ p \in Pids /\ top[p] \in 1..MaxTop /\ call[t] \in 0..MaxTop /\ Heap(top[p]) \in Nat
  BY HeapFacts
<1>2. call[t] > top[p] /\ UNCHANGED <<areas, chan, vm>>
  BY DEF BrkGrows, BrkReturns
<1>3. len \in Nat /\ (top[p] - 1) + len = call[t] - 1
  BY <1>1, <1>2, Sizes
<1> HIDE DEF len
<1>4. /\ info \in Infos /\ info.type = "BRK" /\ info.len = len /\ info # NoInfo
  <2>1. "BRK" \in InfoTypes /\ Heap(top[p]) \in Nat /\ len \in Nat
    BY <1>1, <1>3 DEF InfoTypes
  <2>2. /\ info \in Infos /\ info.type = "BRK" /\ info.len = len
    BY <2>1, InfoFacts
  <2>3. QED
    BY <2>2, TwoEntries
<1>5. \/ /\ Report(t, {info}, info) /\ misread' = misread
         /\ top' = [top EXCEPT ![p] = call[t]]
      \/ UNCHANGED <<ring, odd, top>>
  BY DEF BrkGrows, BrkReturns, len, odd
<1> HIDE DEF info
<1>6. CASE UNCHANGED <<ring, odd, top>>
  BY <1>2, <1>6, ExactSame
<1>7. CASE /\ Report(t, {info}, info) /\ misread' = misread
           /\ top' = [top EXCEPT ![p] = call[t]]
  <2>1. ring' = Append(ring, rec)
    <3>1. Reported(t, {info}, info)
      BY <1>4, <1>7, ReportFacts DEF Types
    <3>2. QED
      BY <1>4, <3>1 DEF Reported
  <2>2. e' = Account(e, rec)
    BY <1>2, <1>4, <2>1, SettledOwn
  <2>3. rec.comm = c /\ rec.info.type = "BRK" /\ rec.info.len = len
    BY <1>4 DEF RecordOf
  <2> DEFINE m == Size(areas[p])
             b == top[p] - 1
             a == Starts(areas[p])
  <2>4. e \in Entries /\ Base(e, c, m, b, a)
    BY <1>1, ExactBase
  <2> HIDE DEF rec, m, b, a, e
  <2>5. Account(e, rec) = [comm |-> c, mmapSize |-> m, brkSize |-> b + len, addrs |-> a]
    <3>1. Growth(e, rec, m, b, a)
      BY <1>3, <2>3, <2>4, Zenon DEF Growth
    <3>2. Grown(e, rec, m, b, a)
      BY <3>1, AccountBrk
    <3>3. QED
      BY <2>3, <3>2, Zenon DEF Grown
  <2>6. Settled(p)' = [comm |-> c, mmapSize |-> m, brkSize |-> b + len, addrs |-> a]
    BY <2>2, <2>5 DEF e
  <2>7. top'[p] = call[t]
    BY <1>1, <1>7 DEF Types, HostTypes
  <2>8. b + len = top'[p] - 1
    BY <1>3, <2>7 DEF b
  <2>9. m = Size(areas'[p]) /\ a = Starts(areas'[p])
    BY <1>2 DEF m, a
  <2>10. QED
    BY <2>6, <2>8, <2>9, ExactIntro
<1>8. QED
  BY <1>5, <1>6, <1>7

(* A heap that shrinks keeps it exact, if it is told.                      *)
LEMMA BrkShrinksExact ==
    ASSUME Types, NEW t \in Tids, NEW ret \in BOOLEAN, BrkShrinks(t, ret),
           NEW c \in Watched, c = comm[t], Owner[t] \notin odd', Exact(Owner[t], c)
    PROVE  Exact(Owner[t], c)'
<1> DEFINE p == Owner[t]
           len == top[p] - call[t]
           told == Info("BRK_SHRINK", Heap(call[t]), len)
           info == IF ret THEN Unmapping(t, Heap(call[t]), len) ELSE NoInfo
           rec == RecordOf(t, told)
           e == Settled(p)
<1>1. /\ p \in Pids /\ top[p] \in 1..MaxTop /\ call[t] \in 0..MaxTop /\ Heap(call[t]) \in Nat
  BY HeapFacts
<1>2. /\ call[t] < top[p] /\ call[t] # 0 /\ UNCHANGED <<areas, chan, vm>>
      /\ top' = [top EXCEPT ![p] = call[t]]
  BY DEF BrkShrinks, BrkReturns
<1>3. len \in Nat /\ (top[p] - 1) - len = call[t] - 1 /\ top[p] # 1
  BY <1>1, <1>2, Sizes
<1>4. Report(t, {told}, info) /\ misread' = misread
  BY DEF BrkShrinks, BrkReturns
<1> HIDE DEF len
<1>5. /\ told \in Infos /\ told.type = "BRK_SHRINK" /\ told.len = len /\ told # NoInfo
  <2>1. "BRK_SHRINK" \in InfoTypes /\ Heap(call[t]) \in Nat /\ len \in Nat
    BY <1>1, <1>3 DEF InfoTypes
  <2>2. told \in Infos /\ told.type = "BRK_SHRINK" /\ told.len = len
    BY <2>1, InfoFacts
  <2>3. QED
    BY <2>2, TwoEntries
<1>6. info \in Infos
  BY <1>1, <1>3, UnmappingFacts, TwoEntries DEF Types
<1> HIDE DEF info, told
<1>7. ring' = Append(ring, rec)
  <2>1. Reported(t, {told}, info)
    BY <1>4, <1>6, ReportFacts DEF Types
  <2>2. QED
    BY <1>5, <2>1 DEF Reported
<1>8. e' = Account(e, rec)
  BY <1>2, <1>5, <1>7, SettledOwn
<1>9. rec.comm = c /\ rec.info.type = "BRK_SHRINK" /\ rec.info.len = len
  BY <1>5 DEF RecordOf
<1>10. e.comm = c
  BY <1>3 DEF Exact
<1>11. /\ e.mmapSize = Size(areas[p]) /\ e.brkSize = top[p] - 1 /\ e.addrs = Starts(areas[p])
  BY <1>10 DEF Exact, Matches, Starts
<1>12. e \in Entries
  BY <1>1, ExactBase
<1> HIDE DEF rec, e
<1>13. Account(e, rec) = [comm |-> c, mmapSize |-> e.mmapSize, brkSize |-> e.brkSize - len,
                          addrs |-> e.addrs]
  BY <1>9, <1>10, <1>12, AccountShrink
<1>14. Settled(p)' = [comm |-> c, mmapSize |-> Size(areas[p]), brkSize |-> (top[p] - 1) - len,
                      addrs |-> Starts(areas[p])]
  BY <1>8, <1>11, <1>13 DEF e
<1>15. top'[p] = call[t]
  BY <1>1, <1>2 DEF Types, HostTypes
<1>16. (top[p] - 1) - len = top'[p] - 1
  BY <1>3, <1>15
<1>17. Size(areas[p]) = Size(areas'[p]) /\ Starts(areas[p]) = Starts(areas'[p])
  BY <1>2
<1>18. QED
  BY <1>14, <1>16, <1>17, ExactIntro

(* Every call keeps the invariant.                                         *)
LEMMA CallsInv ==
    ASSUME VMInv, Calls
    PROVE  VMInv'
<1>1. Types
  BY DEF VMInv
<1>2. PICK t \in Tids :
          \/ \E type \in Mmaps : MmapFails(t, type) \/ \E r \in Regions : Mmap(t, type, r)
          \/ \E r \in Regions : MmapOther(t, r) \/ \E ret \in BOOLEAN : Munmap(t, r, ret)
          \/ \E n \in 1..MaxTop : BrkEnter(t, n)
          \/ \E ok \in BOOLEAN : BrkGrows(t, ok) \/ BrkShrinks(t, ok)
          \/ BrkShrinkFails(t) \/ BrkStays(t)
  BY DEF Calls
<1>4. PICK d : d = comm[t]
  OBVIOUS
<1>5. ASSUME NEW type \in Mmaps, MmapFails(t, type) PROVE VMInv'
  <2>1. Types' /\ CallStep(t)
    BY <1>1, <1>5, MmapFailsStep
  <2>2. Exact(Owner[t], d) => Exact(Owner[t], d)'
    BY <1>5, ExactSame DEF MmapFails
  <2>3. QED
    BY <1>4, <2>1, <2>2, CallInv
<1>6. ASSUME NEW type \in Mmaps, NEW r \in Regions, Mmap(t, type, r) PROVE VMInv'
  <2>1. Types' /\ CallStep(t)
    BY <1>1, <1>6, MmapStep
  <2>2. Owner[t] \notin odd' /\ d \in Watched /\ Exact(Owner[t], d) => Exact(Owner[t], d)'
    BY <1>1, <1>4, <1>6, MmapExact
  <2>3. QED
    BY <1>4, <2>1, <2>2, CallInv
<1>7. ASSUME NEW r \in Regions, MmapOther(t, r) PROVE VMInv'
  <2>1. Types' /\ CallStep(t)
    BY <1>1, <1>7, MmapOtherStep
  <2>2. Owner[t] \notin odd' /\ d \in Watched /\ Exact(Owner[t], d) => Exact(Owner[t], d)'
    BY <1>1, <1>7, MmapOtherExact
  <2>3. QED
    BY <1>4, <2>1, <2>2, CallInv
<1>8. ASSUME NEW r \in Regions, NEW ret \in BOOLEAN, Munmap(t, r, ret) PROVE VMInv'
  <2>1. Types' /\ CallStep(t)
    BY <1>1, <1>8, MunmapStep
  <2>2. Owner[t] \notin odd' /\ d \in Watched /\ Exact(Owner[t], d) => Exact(Owner[t], d)'
    BY <1>1, <1>4, <1>8, MunmapExact
  <2>3. QED
    BY <1>4, <2>1, <2>2, CallInv
<1>9. ASSUME NEW n \in 1..MaxTop, BrkEnter(t, n) PROVE VMInv'
  <2>1. Types' /\ CallStep(t)
    BY <1>1, <1>9, BrkEnterStep
  <2>2. Exact(Owner[t], d) => Exact(Owner[t], d)'
    BY <1>9, ExactSame DEF BrkEnter
  <2>3. QED
    BY <1>4, <2>1, <2>2, CallInv
<1>10. ASSUME NEW ok \in BOOLEAN, BrkGrows(t, ok) PROVE VMInv'
  <2>1. Types' /\ CallStep(t)
    BY <1>1, <1>10, BrkGrowsStep
  <2>2. Owner[t] \notin odd' /\ d \in Watched /\ Exact(Owner[t], d) => Exact(Owner[t], d)'
    BY <1>1, <1>4, <1>10, BrkGrowsExact
  <2>3. QED
    BY <1>4, <2>1, <2>2, CallInv
<1>11. ASSUME NEW ok \in BOOLEAN, BrkShrinks(t, ok) PROVE VMInv'
  <2>1. Types' /\ CallStep(t)
    BY <1>1, <1>11, BrkShrinksStep
  <2>2. Owner[t] \notin odd' /\ d \in Watched /\ Exact(Owner[t], d) => Exact(Owner[t], d)'
    BY <1>1, <1>4, <1>11, BrkShrinksExact
  <2>3. QED
    BY <1>4, <2>1, <2>2, CallInv
<1>12. ASSUME BrkShrinkFails(t) \/ BrkStays(t) PROVE VMInv'
  <2>1. Types' /\ CallStep(t)
    BY <1>1, <1>12, BrkStaysStep
  <2>2. Exact(Owner[t], d) => Exact(Owner[t], d)'
    BY <1>12, ExactSame DEF BrkStays, BrkShrinkFails, BrkReturns
  <2>3. QED
    BY <1>4, <2>1, <2>2, CallInv
<1>13. QED
  BY <1>2, <1>5, <1>6, <1>7, <1>8, <1>9, <1>10, <1>11, <1>12

-----------------------------------------------------------------------------
(* The invariant under the steps of the host *)

(* A new name finds no account: the records start it anew.                 *)
LEMMA ForeignExact ==
    ASSUME Types, NEW p \in Pids, NEW c, Foreign(p, c), UNCHANGED <<ring, chan, vm>>,
           areas'[p] = {}, top'[p] = 1
    PROVE  Exact(p, c)'
<1>1. Settled(p).comm # c
  BY ForeignFacts DEF Types
<1>2. Settled(p)' = Settled(p)
  BY DEF Settled
<1>3. QED
  BY <1>1, <1>2 DEF Exact

(* A step of process o leaves the others alone.                            *)
OthersLeft(o) ==
    /\ UNCHANGED <<ring, chan, vm>>
    /\ \A p \in Pids : p # o =>
          /\ Threads(p)' = Threads(p) /\ \A u \in Threads(p) : comm'[u] = comm[u]
          /\ areas'[p] = areas[p] /\ top'[p] = top[p] /\ gen'[p] = gen[p]
          /\ p \notin odd' => p \notin odd
          /\ p \in unheard => p \in unheard'
          /\ Leaving(p) => Leaving(p)'

(* What the step has to show of o itself.                                  *)
OwnParts(o) ==
    /\ Threads(o)' = {} => areas'[o] = {} /\ top'[o] = 1
    /\ o \notin odd' => \A u, v \in Threads(o)' : comm'[u] = comm'[v]
    /\ o \notin odd' => \A u \in Threads(o)' : comm'[u] \in Watched => Exact(o, comm[u])'
    /\ Threads(o)' = {} /\ Remains(o)' => Leaving(o)' \/ o \in unheard'

(* That is enough for the invariant.                                       *)
LEMMA HostInv ==
    ASSUME VMInv, Types', NEW o, OthersLeft(o), OwnParts(o)
    PROVE  VMInv'
<1>1. EmptyInv'
  <2>1. ASSUME NEW p \in Pids, Threads(p)' = {} PROVE areas'[p] = {} /\ top'[p] = 1
    <3>1. CASE p = o
      BY <2>1, <3>1 DEF OwnParts
    <3>2. CASE p # o
      BY <2>1, <3>2 DEF OthersLeft, VMInv, EmptyInv
    <3>3. QED
      BY <3>1, <3>2
  <2>2. QED
    BY <2>1 DEF EmptyInv
<1>2. NameInv'
  <2>1. ASSUME NEW p \in Pids, p \notin odd', NEW u \in Threads(p)', NEW v \in Threads(p)'
        PROVE  comm'[u] = comm'[v]
    <3>1. CASE p = o
      BY <2>1, <3>1 DEF OwnParts
    <3>2. CASE p # o
      BY <2>1, <3>2 DEF OthersLeft, VMInv, NameInv
    <3>3. QED
      BY <3>1, <3>2
  <2>2. QED
    BY <2>1 DEF NameInv
<1>3. ExactInv'
  <2>1. ASSUME NEW p \in Pids, p \notin odd', NEW u \in Threads(p)', comm'[u] \in Watched
        PROVE  Exact(p, comm[u])'
    <3>1. CASE p = o
      BY <2>1, <3>1 DEF OwnParts
    <3>2. CASE p # o
      <4>1. p \notin odd /\ u \in Threads(p) /\ comm'[u] = comm[u]
        BY <2>1, <3>2 DEF OthersLeft
      <4>2. PICK d : d = comm[u]
        OBVIOUS
      <4>3. Exact(p, d)
        BY <2>1, <4>1, <4>2 DEF VMInv, ExactInv
      <4>4. Exact(p, d)'
        BY <3>2, <4>3, ExactSame DEF OthersLeft
      <4>5. QED
        BY <4>1, <4>2, <4>4 DEF Exact
    <3>3. QED
      BY <3>1, <3>2
  <2>2. QED
    BY <2>1 DEF ExactInv
<1>4. DeadInv'
  <2>1. ASSUME NEW p \in Pids, Threads(p)' = {}, Remains(p)'
        PROVE  Leaving(p)' \/ p \in unheard'
    <3>1. CASE p = o
      BY <2>1, <3>1 DEF OwnParts
    <3>2. CASE p # o
      <4>1. Threads(p) = {}
        BY <2>1, <3>2 DEF OthersLeft
      <4>2. Remains(p)
        BY <2>1 DEF OthersLeft, Remains, Queued
      <4>3. Leaving(p) \/ p \in unheard
        BY <4>1, <4>2 DEF VMInv, DeadInv
      <4>4. QED
        BY <3>2, <4>3 DEF OthersLeft
    <3>3. QED
      BY <3>1, <3>2
  <2>2. QED
    BY <2>1 DEF DeadInv
<1>5. QED
  BY <1>1, <1>2, <1>3, <1>4 DEF VMInv

(* The threads of a process.                                               *)
LEMMA ThreadFacts ==
    ASSUME Types
    PROVE  \A p : \A u \in Threads(p) : u \in Tids /\ u \in live /\ Owner[u] = p
  BY DEF Threads, Types, HostTypes

(* An exit stays on the way while its pid is not used again.               *)
LEMMA LeavingSame ==
    ASSUME exits' = exits, NEW p, gen'[p] = gen[p]
    PROVE  Leaving(p) => Leaving(p)'
  BY DEF Leaving, IsLast

(* A process starts, maybe under a pid that was used before.               *)
LEMMA StartInv ==
    ASSUME VMInv, NEW t \in Tids, NEW c \in Comms, Start(t, c)
    PROVE  VMInv'
<1> DEFINE o == Owner[t]
<1>1. Types' /\ Types /\ o \in Pids
  BY StartTypes, ConstAssumption DEF VMInv
<1>2. /\ Threads(o) = {} /\ gen' = [gen EXCEPT ![o] = @ + 1]
      /\ live' = live \cup {t} /\ comm' = [comm EXCEPT ![t] = c]
      /\ odd' = (IF Foreign(o, c) THEN odd \ {o} ELSE odd \cup {o})
      /\ unheard' = unheard \ {o}
      /\ UNCHANGED <<areas, top, ring, chan, exits, vm>>
  BY BeginsFacts DEF Start
<1>3. Threads(o)' = {t} /\ \A p : p # o => Threads(p)' = Threads(p)
  BY <1>2 DEF Threads
<1>4. comm'[t] = c /\ \A u \in Tids : u # t => comm'[u] = comm[u]
  BY <1>1, <1>2 DEF Types, HostTypes
<1>5. areas[o] = {} /\ top[o] = 1
  BY <1>1, <1>2 DEF VMInv, EmptyInv
<1>6. OthersLeft(o)
  <2>1. ASSUME NEW p \in Pids, p # o
        PROVE  \A u \in Threads(p) : comm'[u] = comm[u]
    BY <1>1, <1>4, <2>1, ThreadFacts
  <2>2. ASSUME NEW p \in Pids, p # o PROVE gen'[p] = gen[p]
    BY <1>1, <1>2, <2>2 DEF Types, HostTypes
  <2>3. QED
    BY <1>2, <1>3, <2>1, <2>2, LeavingSame DEF OthersLeft
<1>7. o \notin odd' => Exact(o, c)'
  BY <1>1, <1>2, <1>5, ForeignExact
<1>8. OwnParts(o)
  <2>1. o \notin odd' => Exact(o, comm[t])'
    BY <1>4, <1>7 DEF Exact
  <2>2. QED
    BY <1>3, <2>1 DEF OwnParts
<1>9. QED
  BY <1>1, <1>6, <1>8, HostInv

(* A new thread takes the name of the one that makes it.                   *)
LEMMA CloneInv ==
    ASSUME VMInv, NEW t \in Tids, NEW u \in Tids, Clone(t, u)
    PROVE  VMInv'
<1> DEFINE o == Owner[t]
<1>1. Types' /\ Types /\ o \in Pids
  BY CloneTypes, ConstAssumption DEF VMInv
<1>2. /\ t \in live /\ u \notin live /\ Owner[u] = o
      /\ live' = live \cup {u} /\ comm' = [comm EXCEPT ![u] = comm[t]]
      /\ UNCHANGED <<gen, areas, top, ring, chan, exits, vm, odd, unheard>>
  BY DEF Clone, Ready, odd
<1>3. Threads(o)' = Threads(o) \cup {u} /\ \A p : p # o => Threads(p)' = Threads(p)
  BY <1>2 DEF Threads
<1>4. comm'[u] = comm[t] /\ \A v \in Tids : v # u => comm'[v] = comm[v]
  BY <1>1, <1>2 DEF Types, HostTypes
<1>5. t \in Threads(o) /\ \A p : \A v \in Threads(p) : comm'[v] = comm[v]
  <2>1. t \in Threads(o)
    BY <1>2 DEF Threads
  <2>2. QED
    BY <1>1, <1>2, <1>4, <2>1, ThreadFacts
<1>6. OthersLeft(o)
  BY <1>2, <1>3, <1>5, LeavingSame DEF OthersLeft
<1>7. OwnParts(o)
  <2>1. ASSUME o \notin odd PROVE \A v \in Threads(o)' : comm'[v] = comm[t]
    BY <1>1, <1>3, <1>4, <1>5, <2>1 DEF VMInv, NameInv
  <2>2. PICK d : d = comm[t]
    OBVIOUS
  <2>3. o \notin odd /\ d \in Watched => Exact(o, d)'
    <3>1. o \notin odd /\ d \in Watched => Exact(o, d)
      BY <1>1, <1>5, <2>2 DEF VMInv, ExactInv
    <3>2. QED
      BY <1>2, <3>1, ExactSame
  <2>4. ASSUME o \notin odd', NEW v \in Threads(o)', comm'[v] \in Watched
        PROVE  Exact(o, comm[v])'
    <3>1. comm'[v] = d
      BY <1>2, <2>1, <2>2, <2>4
    <3>2. QED
      BY <1>2, <2>3, <2>4, <3>1 DEF Exact
  <2>5. QED
    BY <1>2, <1>3, <2>1, <2>4 DEF OwnParts
<1>8. QED
  BY <1>1, <1>6, <1>7, HostInv

(* execve: a new name and an empty address space.                          *)
LEMMA ExecInv ==
    ASSUME VMInv, NEW t \in Tids, NEW c \in Comms, Exec(t, c)
    PROVE  VMInv'
<1> DEFINE o == Owner[t]
<1>1. Types' /\ Types /\ o \in Pids
  BY ExecTypes, ConstAssumption DEF VMInv
<1>2. /\ Threads(o) = {t} /\ comm' = [comm EXCEPT ![t] = c]
      /\ areas' = [areas EXCEPT ![o] = {}] /\ top' = [top EXCEPT ![o] = 1]
      /\ odd' = (IF Foreign(o, c) THEN odd \ {o} ELSE odd \cup {o})
      /\ UNCHANGED <<live, gen, ring, chan, exits, vm, unheard>>
  BY BeginsFacts DEF Exec
<1>3. \A p : Threads(p)' = Threads(p)
  BY <1>2 DEF Threads
<1>4. comm'[t] = c /\ \A u \in Tids : u # t => comm'[u] = comm[u]
  BY <1>1, <1>2 DEF Types, HostTypes
<1>5. /\ areas'[o] = {} /\ top'[o] = 1
      /\ \A q \in Pids : q # o => areas'[q] = areas[q] /\ top'[q] = top[q]
  BY <1>1, <1>2, NoAreas
<1>6. OthersLeft(o)
  <2>1. ASSUME NEW p \in Pids, p # o PROVE \A u \in Threads(p) : comm'[u] = comm[u]
    BY <1>1, <1>4, <2>1, ThreadFacts
  <2>2. QED
    BY <1>2, <1>3, <1>5, <2>1, LeavingSame DEF OthersLeft
<1>7. o \notin odd' => Exact(o, c)'
  BY <1>1, <1>2, <1>5, ForeignExact
<1>8. OwnParts(o)
  <2>1. o \notin odd' => Exact(o, comm[t])'
    BY <1>4, <1>7 DEF Exact
  <2>2. QED
    BY <1>2, <1>3, <2>1 DEF OwnParts
<1>9. QED
  BY <1>1, <1>6, <1>8, HostInv

(* A thread takes another name.                                            *)
LEMMA RenameInv ==
    ASSUME VMInv, NEW t \in Tids, NEW c \in Comms, Rename(t, c)
    PROVE  VMInv'
<1> DEFINE o == Owner[t]
<1>1. Types' /\ Types /\ o \in Pids
  BY RenameTypes, ConstAssumption DEF VMInv
<1>2. /\ t \in live /\ comm' = [comm EXCEPT ![t] = c]
      /\ odd' = (IF Threads(o) = {t} /\ areas[o] = {} /\ top[o] = 1 /\ Foreign(o, c)
                 THEN odd ELSE odd \cup {o})
      /\ UNCHANGED <<live, gen, areas, top, ring, chan, exits, vm, unheard>>
  BY DEF Rename, Ready, odd
<1>3. \A p : Threads(p)' = Threads(p)
  BY <1>2 DEF Threads
<1>4. comm'[t] = c /\ \A u \in Tids : u # t => comm'[u] = comm[u]
  BY <1>1, <1>2 DEF Types, HostTypes
<1>5. t \in Threads(o)
  BY <1>2 DEF Threads
<1>6. OthersLeft(o)
  <2>1. ASSUME NEW p \in Pids, p # o PROVE \A u \in Threads(p) : comm'[u] = comm[u]
    BY <1>1, <1>4, <2>1, ThreadFacts
  <2>2. QED
    BY <1>2, <1>3, <2>1, LeavingSame DEF OthersLeft
<1>7. o \notin odd' => Threads(o) = {t} /\ areas[o] = {} /\ top[o] = 1 /\ Foreign(o, c)
  BY <1>2
<1>8. o \notin odd' => Exact(o, c)'
  BY <1>1, <1>2, <1>7, ForeignExact
<1>9. OwnParts(o)
  <2>1. o \notin odd' => Exact(o, comm[t])'
    BY <1>4, <1>8 DEF Exact
  <2>2. QED
    BY <1>3, <1>5, <1>7, <2>1 DEF OwnParts
<1>10. QED
  BY <1>1, <1>6, <1>9, HostInv

(* An exit event that is put behind the others.                            *)
LEMMA LeavingAppend ==
    ASSUME Types, NEW x \in Exit, exits' = Append(exits, x), gen' = gen, NEW p
    PROVE  /\ Leaving(p) => Leaving(p)'
           /\ IsLast(x, p) => Leaving(p)'
<1>1. exits \in Seq(Exit)
  BY DEF Types, WayTypes
<1>2. /\ Len(exits) \in Nat /\ Len(exits') = Len(exits) + 1 /\ exits'[Len(exits) + 1] = x
      /\ \A i \in 1..Len(exits) : exits'[i] = exits[i]
  BY <1>1
<1>3. /\ Len(exits) + 1 \in 1..Len(exits')
      /\ \A i \in 1..Len(exits) : i \in 1..Len(exits')
  BY <1>2
<1>4. ASSUME NEW i \in 1..Len(exits), IsLast(exits[i], p) PROVE Leaving(p)'
  BY <1>2, <1>3, <1>4 DEF Leaving, IsLast
<1>5. ASSUME IsLast(x, p) PROVE Leaving(p)'
  BY <1>2, <1>3, <1>5 DEF Leaving, IsLast
<1>6. QED
  BY <1>4, <1>5 DEF Leaving

(* The exit event in front is taken.                                       *)
LEMMA LeavingTail ==
    ASSUME Types, exits # << >>, exits' = Tail(exits), gen' = gen, NEW p
    PROVE  Leaving(p) => Leaving(p)' \/ IsLast(Head(exits), p)
<1>1. exits \in Seq(Exit)
  BY DEF Types, WayTypes
<1>2. /\ Len(exits) \in Nat /\ Len(exits') = Len(exits) - 1 /\ Head(exits) = exits[1]
      /\ \A i \in 1..Len(exits') : exits'[i] = exits[i + 1]
  BY <1>1
<1>3. SUFFICES ASSUME NEW i \in 1..Len(exits), IsLast(exits[i], p), ~IsLast(exits[1], p)
               PROVE  Leaving(p)'
  BY <1>2 DEF Leaving
<1>4. i # 1
  BY <1>3
<1>5. i - 1 \in 1..Len(exits') /\ (i - 1) + 1 = i
  BY <1>2, <1>3, <1>4
<1>6. exits'[i - 1] = exits[i]
  BY <1>2, <1>5
<1>7. QED
  BY <1>3, <1>5, <1>6 DEF Leaving, IsLast

(* A thread ends, maybe the last one of its process.                       *)
LEMMA ThreadExitInv ==
    ASSUME VMInv, NEW t \in Tids, NEW heard \in BOOLEAN, ThreadExit(t, heard)
    PROVE  VMInv'
<1> DEFINE o == Owner[t]
           last == Threads(o) = {t}
<1>1. Types' /\ Types /\ o \in Pids /\ ExitOf(t) \in Exit
      /\ exits' = IF heard THEN Append(exits, ExitOf(t)) ELSE exits
  BY ThreadExitTypes, ConstAssumption DEF VMInv
<1>2. /\ t \in live /\ live' = live \ {t} /\ comm' = [comm EXCEPT ![t] = ""]
      /\ areas' = IF last THEN [areas EXCEPT ![o] = {}] ELSE areas
      /\ top' = IF last THEN [top EXCEPT ![o] = 1] ELSE top
      /\ unheard' = IF last /\ (~heard \/ comm[t] \notin Watched) THEN unheard \cup {o}
                    ELSE unheard
      /\ UNCHANGED <<gen, ring, chan, vm, odd>>
  BY DEF ThreadExit, Ready, odd
<1>3. /\ Threads(o)' = Threads(o) \ {t} /\ t \in Threads(o)
      /\ \A p : p # o => Threads(p)' = Threads(p)
  BY <1>2 DEF Threads
<1>4. \A u \in Tids : u # t => comm'[u] = comm[u]
  BY <1>1, <1>2 DEF Types, HostTypes
<1>5. \A p \in Pids : Leaving(p) => Leaving(p)'
  <2>1. CASE heard
    BY <1>1, <1>2, <2>1, LeavingAppend
  <2>2. CASE ~heard
    BY <1>1, <1>2, <2>2, LeavingSame
  <2>3. QED
    BY <2>1, <2>2
<1>6. /\ last => areas'[o] = {} /\ top'[o] = 1
      /\ \A q \in Pids : q # o => areas'[q] = areas[q] /\ top'[q] = top[q]
  <2>1. CASE last
    BY <1>1, <1>2, <2>1, NoAreas
  <2>2. CASE ~last
    BY <1>2, <2>2
  <2>3. QED
    BY <2>1, <2>2
<1>7. OthersLeft(o)
  <2>1. ASSUME NEW p \in Pids, p # o PROVE \A u \in Threads(p) : comm'[u] = comm[u]
    BY <1>1, <1>4, <2>1, ThreadFacts
  <2>2. \A p : p \in unheard => p \in unheard'
    BY <1>2
  <2>3. QED
    BY <1>2, <1>3, <1>5, <1>6, <2>1, <2>2 DEF OthersLeft
<1>8. \A u \in Threads(o)' : u \in Threads(o) /\ comm'[u] = comm[u]
  BY <1>1, <1>3, <1>4, ThreadFacts
<1>9. (Threads(o)' = {}) <=> last
  BY <1>3
<1>10. last => Leaving(o)' \/ o \in unheard'
  <2>1. CASE last /\ heard /\ comm[t] \in Watched
    <3>1. exits' = Append(exits, ExitOf(t))
      BY <1>1, <2>1
    <3>2. ExitOf(t).pid = o /\ ExitOf(t).gen = gen[o] /\ ExitOf(t).comm = comm[t]
      BY DEF ExitOf
    <3>3. ExitOf(t).last
      BY <2>1, Zenon DEF ExitOf
    <3>4. IsLast(ExitOf(t), o)
      BY <2>1, <3>2, <3>3, Zenon DEF IsLast
    <3>5. QED
      BY <1>1, <1>2, <3>1, <3>4, LeavingAppend
  <2>2. CASE last /\ (~heard \/ comm[t] \notin Watched)
    BY <1>2, <2>2
  <2>3. QED
    BY <2>1, <2>2
<1>11. ASSUME o \notin odd', NEW u \in Threads(o)', comm'[u] \in Watched
       PROVE  Exact(o, comm[u])'
  <2>1. ~last /\ areas'[o] = areas[o] /\ top'[o] = top[o]
    BY <1>2, <1>9, <1>11
  <2>2. PICK d : d = comm[u]
    OBVIOUS
  <2>3. Exact(o, d)
    BY <1>1, <1>2, <1>8, <1>11, <2>2 DEF VMInv, ExactInv
  <2>4. Exact(o, d)'
    BY <1>2, <2>1, <2>3, ExactSame
  <2>5. QED
    BY <1>8, <1>11, <2>2, <2>4 DEF Exact
<1>12. OwnParts(o)
  <2>1. o \notin odd' => \A u, v \in Threads(o)' : comm'[u] = comm'[v]
    BY <1>1, <1>2, <1>8 DEF VMInv, NameInv
  <2>2. QED
    BY <1>6, <1>9, <1>10, <1>11, <2>1 DEF OwnParts
<1>13. QED
  BY <1>1, <1>7, <1>12, HostInv

(* Every step of the host keeps the invariant.                             *)
LEMMA HostStepInv ==
    ASSUME VMInv, Host
    PROVE  VMInv'
<1>1. PICK t \in Tids :
         \/ \E c \in Comms : Start(t, c) \/ Exec(t, c) \/ Rename(t, c)
         \/ \E u \in Tids : Clone(t, u)
         \/ \E heard \in BOOLEAN : ThreadExit(t, heard)
  BY DEF Host
<1>2. ASSUME NEW c \in Comms, Start(t, c) \/ Exec(t, c) \/ Rename(t, c) PROVE VMInv'
  BY <1>2, StartInv, ExecInv, RenameInv
<1>3. ASSUME NEW u \in Tids, Clone(t, u) PROVE VMInv'
  BY <1>3, CloneInv
<1>4. ASSUME NEW heard \in BOOLEAN, ThreadExit(t, heard) PROVE VMInv'
  BY <1>4, ThreadExitInv
<1>5. QED
  BY <1>1, <1>2, <1>3, <1>4

-----------------------------------------------------------------------------
(* The invariant under the steps of the goroutines *)

(* What a step that leaves the host alone has to show.                     *)
AccountsKept ==
    /\ UNCHANGED <<live, comm, gen, areas, top>> /\ odd \subseteq odd'
    /\ \A p \in Pids : p \notin odd' /\ Threads(p) # {} => Settled(p)' = Settled(p)
    /\ \A p \in Pids : Threads(p) = {} /\ Remains(p)' =>
          /\ Remains(p)
          /\ Leaving(p) \/ p \in unheard => Leaving(p)' \/ p \in unheard'

(* That is enough for the invariant.                                       *)
LEMMA GoroutineInv ==
    ASSUME VMInv, Types', AccountsKept
    PROVE  VMInv'
<1>1. \A p : Threads(p)' = Threads(p)
  BY DEF AccountsKept, Threads
<1>2. EmptyInv'
  BY <1>1 DEF AccountsKept, VMInv, EmptyInv
<1>3. NameInv'
  BY <1>1 DEF AccountsKept, VMInv, NameInv
<1>4. ExactInv'
  <2>1. ASSUME NEW p \in Pids, p \notin odd', NEW u \in Threads(p), comm'[u] \in Watched
        PROVE  Exact(p, comm[u])'
    <3>1. /\ p \notin odd /\ comm' = comm /\ areas' = areas /\ top' = top
          /\ Settled(p)' = Settled(p)
      BY <2>1 DEF AccountsKept
    <3>2. Exact(p, comm[u])
      BY <2>1, <3>1 DEF VMInv, ExactInv
    <3>3. QED
      BY <3>1, <3>2 DEF Exact, Matches
  <2>2. QED
    BY <1>1, <2>1 DEF ExactInv
<1>5. DeadInv'
  BY <1>1 DEF AccountsKept, VMInv, DeadInv
<1>6. QED
  BY <1>2, <1>3, <1>4, <1>5 DEF VMInv

(* A record on its way from the ring buffer into the channel.              *)
LEMMA TraceEventInv ==
    ASSUME VMInv, TraceEvent
    PROVE  VMInv'
<1> DEFINE rec == Head(ring)
           full == Len(chan) = ChanSize
<1>1. Types /\ Types' /\ rec \in Rec
  BY TraceEventTypes DEF VMInv
<1>2. /\ ring # << >> /\ ring' = Tail(ring)
      /\ chan' = IF full THEN chan ELSE Append(chan, rec)
      /\ odd' = IF full THEN odd \cup {rec.pid} ELSE odd
      /\ UNCHANGED <<live, comm, gen, areas, top, exits, vm, unheard>>
  BY DEF TraceEvent, hostVars, odd
<1> HIDE DEF full
<1>3. ring \in Seq(Rec) /\ chan \in Seq(Rec) /\ vm \in [Pids -> Entries]
  BY <1>1 DEF Types, WayTypes, AccountTypes
<1>4. Range(ring) = Range(ring') \cup {rec}
  BY <1>2, <1>3, RangeTail
<1>5. Range(chan') \subseteq Range(chan) \cup {rec}
  <2>1. Range(Append(chan, rec)) = Range(chan) \cup {rec}
    BY <1>1, <1>3, RangeAppend
  <2>2. CASE full
    BY <1>2, <2>2
  <2>3. CASE ~full
    BY <1>2, <2>1, <2>3
  <2>4. QED
    BY <2>2, <2>3
<1>6. \A p \in Pids : Queued(p)' \subseteq Queued(p)
  BY <1>4, <1>5 DEF Queued
<1>7. ASSUME NEW p \in Pids, p \notin odd' PROVE Settled(p)' = Settled(p)
  <2> DEFINE e == Settle(p, vm[p], chan)
  <2>1. Settled(p) = Settle(p, Applied(p, e, rec), Tail(ring))
    BY <1>2, <1>3, SettleHead DEF Settled
  <2>2. Settle(p, vm[p], chan') = Applied(p, e, rec)
    <3>1. CASE full
      <4>1. rec.pid # p
        BY <1>2, <1>7, <3>1
      <4>2. QED
        BY <1>2, <3>1, <4>1 DEF Applied
    <3>2. CASE ~full
      <4>1. chan' = Append(chan, rec)
        BY <1>2, <3>2
      <4>2. QED
        BY <1>1, <1>3, <4>1, SettleAppend
    <3>3. QED
      BY <3>1, <3>2
  <2>3. Settled(p)' = Settle(p, Settle(p, vm[p], chan'), Tail(ring))
    BY <1>2 DEF Settled
  <2>4. QED
    BY <2>1, <2>2, <2>3
<1>8. \A p \in Pids : Remains(p)' => Remains(p)
  BY <1>2, <1>6 DEF Remains
<1>9. AccountsKept
  BY <1>2, <1>7, <1>8, LeavingSame DEF AccountsKept
<1>10. QED
  BY <1>1, <1>9, GoroutineInv

(* A record on its way from the channel into the account.                  *)
LEMMA HandleRecordInv ==
    ASSUME VMInv, HandleRecord
    PROVE  VMInv'
<1> DEFINE rec == Head(chan)
<1>1. /\ Types /\ Types' /\ rec \in Rec
      /\ \A p \in Pids : vm'[p] = Applied(p, vm[p], rec)
  BY HandleRecordTypes DEF VMInv
<1>2. /\ chan # << >> /\ chan' = Tail(chan)
      /\ UNCHANGED <<live, comm, gen, areas, top, ring, exits, odd, unheard>>
  BY DEF HandleRecord, hostVars, odd
<1>3. chan \in Seq(Rec) /\ vm \in [Pids -> Entries]
  BY <1>1 DEF Types, WayTypes, AccountTypes
<1>4. Range(chan) = Range(chan') \cup {rec}
  BY <1>2, <1>3, RangeTail
<1>5. ASSUME NEW p \in Pids PROVE Settled(p)' = Settled(p)
  <2>1. Settle(p, vm[p], chan) = Settle(p, Applied(p, vm[p], rec), Tail(chan))
    BY <1>2, <1>3, SettleHead
  <2>2. Settled(p)' = Settle(p, Settle(p, Applied(p, vm[p], rec), Tail(chan)), ring)
    BY <1>1, <1>2 DEF Settled
  <2>3. QED
    BY <2>1, <2>2 DEF Settled
<1>6. ASSUME NEW p \in Pids, Remains(p)' PROVE Remains(p)
  <2>1. Queued(p)' \subseteq Queued(p) /\ (rec.pid = p => rec \in Queued(p))
    BY <1>2, <1>4 DEF Queued
  <2>2. vm'[p] # vm[p] => rec.pid = p /\ rec.comm \in Watched
    BY <1>1, <1>3, AccountFacts DEF Applied
  <2>3. QED
    BY <1>6, <2>1, <2>2 DEF Remains
<1>7. AccountsKept
  BY <1>2, <1>5, <1>6, LeavingSame DEF AccountsKept
<1>8. QED
  BY <1>1, <1>7, GoroutineInv

(* The end of a thread, which removes the account of its process.          *)
LEMMA HandleExitInv ==
    ASSUME VMInv, HandleExit
    PROVE  VMInv'
<1> DEFINE e == Head(exits)
<1>1. Types /\ Types' /\ e \in Exit
  BY HandleExitTypes DEF VMInv
<1>2. /\ exits # << >> /\ exits' = Tail(exits)
      /\ UNCHANGED <<live, comm, gen, areas, top, ring, chan>>
  BY DEF HandleExit, hostVars
<1>3. /\ e.comm \in Watched =>
            /\ vm' = [vm EXCEPT ![e.pid] = NoEntry]
            /\ odd' = IF Threads(e.pid) # {} /\ vm[e.pid] # NoEntry
                      THEN odd \cup {e.pid} ELSE odd
            /\ unheard' = IF Overtakes(e) THEN unheard \cup {e.pid} ELSE unheard
      /\ e.comm \notin Watched => UNCHANGED <<vm, odd, unheard>>
  BY DEF HandleExit, odd
<1>4. \A p \in Pids : Leaving(p) => Leaving(p)' \/ IsLast(e, p)
  BY <1>1, <1>2, LeavingTail
<1> HIDE DEF e
<1>5. vm \in [Pids -> Entries] /\ e.pid \in Pids
  BY <1>1 DEF Types, AccountTypes, Exit
<1>6. odd \subseteq odd' /\ unheard \subseteq unheard'
  BY <1>3
<1>7. ASSUME NEW p \in Pids, p \notin odd', Threads(p) # {} PROVE Settled(p)' = Settled(p)
  <2>1. vm'[p] = vm[p]
    <3>1. CASE p = e.pid /\ e.comm \in Watched
      <4>1. vm[p] = NoEntry
        BY <1>3, <1>7, <3>1
      <4>2. QED
        BY <1>3, <1>5, <3>1, <4>1
    <3>2. CASE p # e.pid \/ e.comm \notin Watched
      BY <1>3, <1>5, <3>2
    <3>3. QED
      BY <3>1, <3>2
  <2>2. QED
    BY <1>2, <2>1 DEF Settled
<1>8. \A p \in Pids : Queued(p)' = Queued(p)
  BY <1>2 DEF Queued
<1>9. ASSUME NEW p \in Pids, Remains(p)' PROVE Remains(p)
  <2>1. vm'[p] # NoEntry => vm[p] # NoEntry
    BY <1>3, <1>5
  <2>2. QED
    BY <1>8, <1>9, <2>1 DEF Remains
<1>10. ASSUME NEW p \in Pids, Remains(p)', Leaving(p) PROVE Leaving(p)' \/ p \in unheard'
  <2>1. SUFFICES ASSUME IsLast(e, p) PROVE p \in unheard'
    BY <1>4, <1>10
  <2>2. e.pid = p /\ e.last /\ e.gen = gen[p] /\ e.comm \in Watched
    BY <2>1 DEF IsLast
  <2>3. vm'[p] = NoEntry
    BY <1>3, <1>5, <2>2
  <2>4. \E x \in Queued(p) : x.comm \in Watched
    BY <1>8, <1>10, <2>3 DEF Remains
  <2>5. Overtakes(e)
    BY <2>2, <2>4 DEF Overtakes
  <2>6. QED
    BY <1>3, <2>2, <2>5
<1>11. AccountsKept
  BY <1>2, <1>6, <1>7, <1>9, <1>10 DEF AccountsKept
<1>12. QED
  BY <1>1, <1>11, GoroutineInv

(* The reader is closed, and the host forgotten.                           *)
LEMMA StopReaderInv ==
    ASSUME VMInv, StopReader
    PROVE  VMInv'
<1>1. Types'
  BY StopReaderTypes DEF VMInv
<1>2. /\ live' = {} /\ areas' = [p \in Pids |-> {}] /\ top' = [p \in Pids |-> 1]
      /\ odd' = Pids /\ unheard' = Pids
  BY DEF StopReader, odd
<1>3. EmptyInv' /\ DeadInv'
  BY <1>2 DEF EmptyInv, DeadInv
<1>4. NameInv' /\ ExactInv'
  BY <1>2 DEF NameInv, ExactInv
<1>5. QED
  BY <1>1, <1>3, <1>4 DEF VMInv

(* Steps that touch neither the queues nor the accounts.                   *)
LEMMA QuietInv ==
    ASSUME VMInv, Types', UNCHANGED <<hostVars, ring, chan, exits, vm, odd, unheard>>
    PROVE  VMInv'
<1>1. UNCHANGED <<live, comm, gen, areas, top>>
  BY DEF hostVars
<1>2. \A p \in Pids : /\ Settled(p)' = Settled(p)
                      /\ Remains(p)' => Remains(p)
                      /\ Leaving(p) => Leaving(p)'
  BY <1>1, LeavingSame DEF Settled, Remains, Queued
<1>3. AccountsKept
  BY <1>1, <1>2 DEF AccountsKept
<1>4. QED
  BY <1>3, GoroutineInv

-----------------------------------------------------------------------------
(* The theorems *)

(* Every step keeps the invariant.                                         *)
LEMMA StepInv == VMInv /\ [VMNext]_vmVars => VMInv'
<1>1. SUFFICES ASSUME VMInv, [VMNext]_vmVars PROVE VMInv'
  OBVIOUS
<1>2. CASE Host
  BY <1>1, <1>2, HostStepInv
<1>3. CASE Calls
  BY <1>1, <1>3, CallsInv
<1>4. CASE TraceEvent
  BY <1>1, <1>4, TraceEventInv
<1>5. CASE HandleRecord
  BY <1>1, <1>5, HandleRecordInv
<1>6. CASE HandleExit
  BY <1>1, <1>6, HandleExitInv
<1>7. CASE StopReader
  BY <1>1, <1>7, StopReaderInv
<1>8. CASE Control
  <2>1. Types'
    BY <1>1, <1>8, ControlTypes DEF VMInv
  <2>2. QED
    BY <1>1, <1>8, <2>1, ControlFacts, QuietInv
<1>9. CASE UNCHANGED vmVars
  <2>1. UNCHANGED <<hostVars, op, ring, chan, exits, vm, progVars, odd, unheard>>
    BY <1>9 DEF vmVars, odd
  <2>2. HostTypes' /\ AreaTypes' /\ OpTypes'
    BY <1>1, <2>1 DEF VMInv, Types, HostTypes, AreaTypes, OpTypes, hostVars
  <2>3. WayTypes' /\ AccountTypes' /\ ProgTypes'
    BY <1>1, <2>1 DEF VMInv, Types, WayTypes, AccountTypes, ProgTypes, progVars
  <2>4. Types'
    BY <2>2, <2>3 DEF Types
  <2>5. QED
    BY <1>1, <2>1, <2>4, QuietInv
<1>10. QED
  BY <1>1, <1>2, <1>3, <1>4, <1>5, <1>6, <1>7, <1>8, <1>9 DEF VMNext, Tracer, Control

(* The invariant holds at the start.                                       *)
LEMMA InitInv == VMInit => VMInv
<1>1. SUFFICES ASSUME VMInit PROVE VMInv
  OBVIOUS
<1>2. Types
  BY <1>1, InitTypes
<1>3. /\ live = {} /\ areas = [p \in Pids |-> {}] /\ top = [p \in Pids |-> 1]
      /\ ring = << >> /\ chan = << >> /\ vm = [p \in Pids |-> NoEntry]
  BY <1>1 DEF VMInit
<1>4. \A p : Threads(p) = {}
  BY <1>3 DEF Threads
<1>5. EmptyInv
  BY <1>3 DEF EmptyInv
<1>6. NameInv /\ ExactInv
  BY <1>4 DEF NameInv, ExactInv
<1>7. DeadInv
  <2>1. Range(<< >>) = {}
    BY DEF Range
  <2>2. \A p \in Pids : Queued(p) = {}
    BY <1>3, <2>1 DEF Queued
  <2>3. \A p \in Pids : vm[p] = NoEntry
    BY <1>3
  <2>4. QED
    BY <2>2, <2>3 DEF DeadInv, Remains
<1>8. QED
  BY <1>2, <1>5, <1>6, <1>7 DEF VMInv

(***************************************************************************)
(* The inductive invariant: types, one name and an exact account for every *)
(* process that is not odd, once the records on the way are handled, and   *)
(* an event on the way for every account whose process is gone.            *)
(***************************************************************************)
THEOREM VMInvariant == VMSpec => []VMInv
<1>1. VMInit => VMInv
  BY InitInv
<1>2. VMInv /\ [VMNext]_vmVars => VMInv'
  BY StepInv
<1>3. QED
  BY <1>1, <1>2, PTL DEF VMSpec

(***************************************************************************)
(* However a call of mmap, munmap or brk ends, the probes leave no entry   *)
(* of it in hashmap_xm_vm_op, but one of brk without a length.             *)
(***************************************************************************)
THEOREM ProbesLeaveNothing == VMSpec => []ProbesAreClosed
<1>1. VMInv => ProbesAreClosed
  <2>1. SUFFICES ASSUME Types PROVE ProbesAreClosed
    BY DEF VMInv
  <2>2. \A t \in Tids : op[t] \in {NoInfo, Info("BRK_SHRINK", 0, 0)}
    BY <2>1 DEF Types, OpTypes, BrkEntry
  <2>3. live \subseteq Tids /\ comm \in [Tids -> Comms \cup {""}]
    BY <2>1 DEF Types, HostTypes
  <2>4. /\ gen \in [Pids -> 0..MaxEvents] /\ events \in 0..MaxEvents
        /\ top \in [Pids -> 1..MaxTop] /\ call \in [Tids -> 0..MaxTop]
    <3>1. /\ gen \in [Pids -> Nat] /\ events \in 0..MaxEvents
          /\ \A p \in Pids : gen[p] <= events
      BY <2>1 DEF Types, HostTypes
    <3>2. MaxEvents \in Nat
      BY ConstAssumption
    <3>3. \A p \in Pids : gen[p] \in 0..MaxEvents
      BY <3>1, <3>2
    <3>4. gen \in [Pids -> 0..MaxEvents]
      BY <3>1, <3>3
    <3>5. QED
      BY <2>1, <3>4 DEF Types, HostTypes
  <2>5. \A p \in Pids : areas[p] \subseteq Regions
                        /\ \A r, s \in areas[p] : r = s \/ Apart(r, s)
    BY <2>1 DEF Types, AreaTypes
  <2>6. op \in [Tids -> Infos]
    <3>1. NoInfo \in Infos /\ BrkEntry \in Infos
      BY DEF NoInfo, BrkEntry, Info, Infos
    <3>2. QED
      BY <2>1, <3>1 DEF Types, OpTypes
  <2>7. Len(ring) <= RingSize /\ Len(chan) <= ChanSize /\ Len(exits) <= ExitSize
    BY <2>1 DEF Types, WayTypes
  <2>8. \A p \in Pids : vm[p].comm \in Watched \cup {""} /\ vm[p].addrs \subseteq Nat
                        /\ vm[p].mmapSize \in Int /\ vm[p].brkSize \in Int
    BY <2>1 DEF Types, AccountTypes, Entries
  <2>9. /\ tracer \in {"run", "done"} /\ handler \in {"run", "done"}
        /\ stop \in {"run", "closed", "wait", "stopped"}
        /\ untold \subseteq Pids /\ misread \subseteq Pids /\ unheard \subseteq Pids
    BY <2>1 DEF Types, ProgTypes, odd
  <2>10. VMTypeOK
    BY <2>3, <2>4, <2>5, <2>6, <2>7, <2>8, <2>9 DEF VMTypeOK
  <2>11. QED
    BY <2>2, <2>10 DEF ProbesAreClosed
<1>2. QED
  BY <1>1, VMInvariant, PTL

(***************************************************************************)
(* The account of a running process comes to what the process has mapped   *)
(* and to the growth of its heap, whatever records are under way, for      *)
(* queues of any length; unless its records do not tell all (untold) or    *)
(* the handler takes them for something else (misread): the exceptions are *)
(* listed at AccountIsExact, execve and reuse of a pid under a name that   *)
(* an account or records are left of among them.                           *)
(***************************************************************************)
THEOREM AccountsAreExact == VMSpec => []AccountIsExact
<1>1. VMInv => AccountIsExact
  <2>1. SUFFICES ASSUME VMInv, NEW p \in Pids \ odd, NEW t \in Threads(p), comm[t] \in Watched
                 PROVE  /\ Settled(p).comm = comm[t] =>
                              /\ Settled(p).mmapSize = Size(areas[p])
                              /\ Settled(p).brkSize = top[p] - 1
                        /\ Settled(p).comm # comm[t] => areas[p] = {} /\ top[p] = 1
    BY DEF AccountIsExact
  <2>2. Exact(p, comm[t])
    BY <2>1 DEF VMInv, ExactInv
  <2>3. QED
    BY <2>2 DEF Exact, Matches
<1>2. QED
  BY <1>1, VMInvariant, PTL

(***************************************************************************)
(* The account of a process that is gone is kept only while its exit event *)
(* is on the way, unless the event was lost, filtered out or taken before  *)
(* a record that had come earlier.                                         *)
(***************************************************************************)
THEOREM DeadAreExplained == VMSpec => []DeadIsExplained
<1>1. VMInv => DeadIsExplained
  <2>1. SUFFICES ASSUME VMInv, NEW p \in Pids, vm[p] # NoEntry, Threads(p) = {}
                 PROVE  Announced(p) \/ p \in unheard
    BY DEF DeadIsExplained
  <2>2. Leaving(p) \/ p \in unheard
    BY <2>1 DEF VMInv, DeadInv, Remains
  <2>3. Leaving(p) => Announced(p)
    BY DEF Leaving, IsLast, Announced
  <2>4. QED
    BY <2>2, <2>3
<1>2. QED
  BY <1>1, VMInvariant, PTL
=============================================================================
