------------------------- MODULE ExporterRegister -------------------------
(***************************************************************************)
(* Registration of the exporter with the prometheus manager:               *)
(* app_register/exporter_register.c, the backoff algorithm it retries with *)
(* (utils/backoff_algorithm.c) and the HTTP client it uses                 *)
(* (utils/http_client.c).                                                  *)
(*                                                                         *)
(* The manager is external: it lists a target when it processes a          *)
(* register request and drops it when it processes an offline request.  A  *)
(* request whose transfer failed may be lost, processed, or processed      *)
(* late.  Request bodies, headers and signatures are abstracted to the     *)
(* kind of the request, an answer to how the code classifies it.           *)
(***************************************************************************)
EXTENDS Integers

CONSTANTS
    Configs,  \* the [enable, complete, base, max, attempts] a file may hold
    Word16,   \* 2^16: the width of the delays
    Word32,   \* 2^32: the width of the attempt counter
    RandMax,  \* the largest value of rand()
    TriesCap  \* where the history variable tries saturates

ASSUME ConfigsAssumption ==
    /\ Configs \subseteq [enable : BOOLEAN, complete : BOOLEAN,
                          base : Int, max : Int, attempts : Int]
    /\ Word16 \in Nat \ {0}
    /\ Word32 \in Nat \ {0}
    /\ RandMax \in Nat
    /\ TriesCap \in Nat

VARIABLES
    pc,                \* where the main thread is
    enabled,           \* __register_mgr.enabled
    base,              \* __register_mgr.retry_backoff_base_ms
    hc,                \* __register_mgr.hc: "null", "live" or "freed"
    maxBackoffDelay,   \* retry_max_backoff_delay_ms and retry_max_attempts,
    maxRetryAttempts,  \*   which the BackoffAlgorithmContext_t copies,
    attemptsDone,      \*   and the two fields of it that change
    nextJitterMax,
    nextRetryBackoff,
    answer,            \* how http_do ended, as the code classifies it
    listed,            \* the manager lists this exporter
    late,              \* requests that may still reach the manager
    tries              \* history: register requests that got an answer

mgrVars     == <<enabled, base, hc>>
backoffVars == <<maxBackoffDelay, maxRetryAttempts, attemptsDone,
                 nextJitterMax, nextRetryBackoff>>
remoteVars  == <<listed, late>>
vars == <<pc, mgrVars, backoffVars, answer, remoteVars, tries>>

(* BACKOFF_ALGORITHM_RETRY_FOREVER *)
Forever == Word32 - 1

(***************************************************************************)
(* "error": the transfer failed; "status": not 200; "refused": 200 and a   *)
(* nonzero code; "blank": 200 and a body that does not parse, whose code   *)
(* stays at the zero the struct was created with; "ok": 200 and code zero. *)
(***************************************************************************)
Answers == {"error", "status", "refused", "blank", "ok"}

(* Mutant of Success: the code of the answer is not looked at. *)
IgnoresCode == {"refused", "blank", "ok"}

Success == {"blank", "ok"}

Init ==
    /\ pc = "start"
    /\ enabled = FALSE /\ base = 0 /\ hc = "null"
    /\ maxBackoffDelay = 0 /\ maxRetryAttempts = 0
    /\ attemptsDone = 0 /\ nextJitterMax = 0 /\ nextRetryBackoff = 0
    /\ answer = "none"
    /\ listed = FALSE /\ late = {}
    /\ tries = 0

-----------------------------------------------------------------------------
(* exporter_register *)

(***************************************************************************)
(* __init_register_config: the configured numbers are narrowed to the      *)
(* width of the fields they are kept in.  A disabled exporter runs on      *)
(* without a registration.                                                 *)
(***************************************************************************)
InitConfig(c) ==
    /\ pc = "start"
    /\ enabled' = c.enable
    /\ pc' = CASE ~c.enable -> "running"
               [] c.enable /\ ~c.complete -> "failed"
               [] OTHER -> "client"
    /\ IF c.enable /\ c.complete
       THEN /\ base' = c.base % Word16
            /\ maxBackoffDelay' = c.max % Word16
            /\ maxRetryAttempts' = c.attempts % Word32
       ELSE UNCHANGED <<base, maxBackoffDelay, maxRetryAttempts>>
    /\ UNCHANGED <<hc, attemptsDone, nextJitterMax, nextRetryBackoff, answer,
                   remoteVars, tries>>

(* http_client_create; exporter_register returns 0 when it fails. *)
CreateClient ==
    /\ pc = "client"
    /\ \/ hc' = "live" /\ pc' = "request"
       \/ hc' = hc /\ pc' = "running"
    /\ UNCHANGED <<enabled, base, backoffVars, answer, remoteVars, tries>>

(* BackoffAlgorithm_InitializeParams *)
InitializeParams ==
    /\ nextJitterMax' = base
    /\ attemptsDone' = 0
    /\ UNCHANGED <<maxBackoffDelay, maxRetryAttempts, nextRetryBackoff>>

(* __make_register_request, which may find no memory *)
MakeRegisterRequest ==
    /\ pc = "request"
    /\ \/ pc' = "http" /\ InitializeParams
       \/ pc' = "failed" /\ UNCHANGED backoffVars
    /\ UNCHANGED <<mgrVars, answer, remoteVars, tries>>

(***************************************************************************)
(* What a request and its answer do to the manager.  Only an answer of     *)
(* the manager itself shows that it processed the request.                 *)
(***************************************************************************)
Deliver(kind, a) ==
    CASE a = "ok"    -> listed' = (kind = "register") /\ late' = late
      [] a = "error" -> /\ late' \in {late, late \union {kind}}
                        /\ listed' = listed
      [] OTHER       -> UNCHANGED remoteVars

(* http_do gets an answer, or a transfer error, for the register request. *)
HttpDo(a) ==
    /\ pc = "http"
    /\ pc' = "answered"
    /\ answer' = a
    /\ Deliver("register", a)
    /\ tries' = IF tries < TriesCap THEN tries + 1 ELSE tries
    /\ UNCHANGED <<mgrVars, backoffVars>>

(***************************************************************************)
(* http_do returns NULL: no backoff is taken and the loop goes on at once. *)
(***************************************************************************)
HttpDoNull ==
    /\ pc = "http"
    /\ UNCHANGED vars

Accept ==
    /\ pc = "answered" /\ answer \in Success
    /\ pc' = "running"
    /\ UNCHANGED <<mgrVars, backoffVars, answer, remoteVars, tries>>

(* Mutant of NextJitter: doubles as long as the maximum is not reached. *)
DoublesPast ==
    IF nextJitterMax < maxBackoffDelay
    THEN (nextJitterMax + nextJitterMax) % Word16
    ELSE maxBackoffDelay

(* the next value of nextJitterMax in BackoffAlgorithm_GetNextBackoff *)
NextJitter ==
    IF nextJitterMax < maxBackoffDelay \div 2
    THEN (nextJitterMax + nextJitterMax) % Word16
    ELSE maxBackoffDelay

(* Mutant of MayRetry: one attempt too many. *)
RetriesOnceMore ==
    \/ maxRetryAttempts = Forever
    \/ attemptsDone <= maxRetryAttempts

MayRetry ==
    \/ maxRetryAttempts = Forever
    \/ attemptsDone < maxRetryAttempts

(* Mutant of Backoff: the attempt is not counted. *)
DoesNotCount(rand) ==
    /\ pc = "answered" /\ answer \notin Success
    /\ MayRetry
    /\ nextRetryBackoff' = (rand % (nextJitterMax + 1)) % Word16
    /\ nextJitterMax' = NextJitter
    /\ pc' = "sleep"
    /\ UNCHANGED <<mgrVars, maxBackoffDelay, maxRetryAttempts, attemptsDone,
                   answer, remoteVars, tries>>

(* BackoffAlgorithm_GetNextBackoff with an attempt left, and the usleep *)
Backoff(rand) ==
    /\ pc = "answered" /\ answer \notin Success
    /\ MayRetry
    /\ nextRetryBackoff' = (rand % (nextJitterMax + 1)) % Word16
    /\ attemptsDone' = (attemptsDone + 1) % Word32
    /\ nextJitterMax' = NextJitter
    /\ pc' = "sleep"
    /\ UNCHANGED <<mgrVars, maxBackoffDelay, maxRetryAttempts, answer,
                   remoteVars, tries>>

(* BackoffAlgorithmRetriesExhausted: main returns without serving. *)
GiveUp ==
    /\ pc = "answered" /\ answer \notin Success
    /\ ~MayRetry
    /\ pc' = "failed"
    /\ UNCHANGED <<mgrVars, backoffVars, answer, remoteVars, tries>>

Wake ==
    /\ pc = "sleep"
    /\ pc' = "http"
    /\ UNCHANGED <<mgrVars, backoffVars, answer, remoteVars, tries>>

-----------------------------------------------------------------------------
(* exporter_unregister, which on_signal calls *)

(***************************************************************************)
(* http_client_reset tolerates a missing client, http_do dereferences it.  *)
(* The offline request may find no memory, and then nothing is sent.       *)
(***************************************************************************)
Unregister ==
    /\ pc = "running"
    /\ pc' \in CASE ~enabled -> {"done"}
                 [] enabled /\ hc = "null" -> {"cleanup", "crashed"}
                 [] OTHER -> {"offline", "cleanup"}
    /\ UNCHANGED <<mgrVars, backoffVars, answer, remoteVars, tries>>

(* __do_unregister sends the offline request once, whatever comes back. *)
OfflineDo(a) ==
    /\ pc = "offline"
    /\ pc' = "cleanup"
    /\ answer' = a
    /\ Deliver("offline", a)
    /\ UNCHANGED <<mgrVars, backoffVars, tries>>

OfflineDoNull ==
    /\ pc = "offline"
    /\ pc' = "cleanup"
    /\ UNCHANGED <<mgrVars, backoffVars, answer, remoteVars, tries>>

Cleanup ==
    /\ pc = "cleanup"
    /\ pc' = "done"
    /\ hc' = IF hc = "live" THEN "freed" ELSE hc
    /\ UNCHANGED <<enabled, base, backoffVars, answer, remoteVars, tries>>

(* A request whose transfer failed is processed after all. *)
LateArrival(kind) ==
    /\ kind \in late
    /\ listed' = (kind = "register")
    /\ late' \in {late, late \ {kind}}
    /\ UNCHANGED <<pc, mgrVars, backoffVars, answer, tries>>

Register ==
    \/ \E c \in Configs : InitConfig(c)
    \/ CreateClient
    \/ MakeRegisterRequest
    \/ \E a \in Answers : HttpDo(a)
    \/ Accept
    \/ \E rand \in 0 .. RandMax : Backoff(rand)
    \/ GiveUp
    \/ Wake

Next ==
    \/ Register
    \/ HttpDoNull
    \/ Unregister
    \/ \E a \in Answers : OfflineDo(a)
    \/ OfflineDoNull
    \/ Cleanup
    \/ \E kind \in {"register", "offline"} : LateArrival(kind)

(***************************************************************************)
(* The thread runs on, and memory is not short for ever.                   *)
(***************************************************************************)
Spec == Init /\ [][Next]_vars /\ WF_vars(Register)

-----------------------------------------------------------------------------
(* Properties *)

Pcs == {"start", "client", "request", "http", "answered", "sleep", "failed",
        "running", "offline", "cleanup", "crashed", "done"}

(* Every field of the manager and of the backoff context has its width. *)
TypeOK ==
    /\ pc \in Pcs
    /\ enabled \in BOOLEAN
    /\ base \in 0 .. Word16 - 1
    /\ hc \in {"null", "live", "freed"}
    /\ maxBackoffDelay \in 0 .. Word16 - 1
    /\ maxRetryAttempts \in 0 .. Word32 - 1
    /\ attemptsDone \in 0 .. Word32 - 1
    /\ nextJitterMax \in 0 .. Word16 - 1
    /\ nextRetryBackoff \in 0 .. Word16 - 1
    /\ answer \in Answers \union {"none"}
    /\ listed \in BOOLEAN
    /\ late \subseteq {"register", "offline"}
    /\ tries \in 0 .. TriesCap

Max2(a, b) == IF a < b THEN b ELSE a

(***************************************************************************)
(* No retry of __do_register is delayed by more than the larger of the     *)
(* configured base and maximum, and the doubling of nextJitterMax never    *)
(* wraps: after the first retry the maximum alone is the bound.            *)
(***************************************************************************)
DelayBounded ==
    /\ nextRetryBackoff <= Max2(base, maxBackoffDelay)
    /\ nextJitterMax <= Max2(base, maxBackoffDelay)
    /\ attemptsDone > 0 => nextJitterMax <= maxBackoffDelay

(***************************************************************************)
(* Every field of the manager and of the backoff context keeps its width   *)
(* and the delays their bound, whatever is configured.                     *)
(***************************************************************************)
BackoffIsSound == TypeOK /\ DelayBounded

(***************************************************************************)
(* A limited registration asks the manager at most once more than          *)
(* retry_max_attempts, however the answers fall.                           *)
(***************************************************************************)
TriesBounded ==
    maxRetryAttempts # Forever => tries <= maxRetryAttempts + 1

(***************************************************************************)
(* When __do_register succeeds on an answer that parses, the manager does  *)
(* list the exporter, whatever became of the earlier tries: the serving    *)
(* exporter is one that is scraped.                                        *)
(***************************************************************************)
AcceptedIsListed ==
    pc = "running" /\ hc = "live" /\ answer # "blank" => listed

(***************************************************************************)
(* __do_register returns, unless it is configured to retry for ever.       *)
(***************************************************************************)
RegisterEnds ==
    (pc = "http" /\ maxRetryAttempts # Forever) ~> pc \in {"running", "failed"}

=============================================================================
