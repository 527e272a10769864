----------------------------- MODULE ApiClients -----------------------------
(***************************************************************************)
(* The HTTP clients that every other part calls through                    *)
(* (hermes_integrations/nowcerts_client.py, zoho_client.py and             *)
(* supabase_client.py): threads that share one client, its token and its   *)
(* lock, and requests that are repeated after a timeout, a 401, a 429 or a *)
(* 5xx although the answer that was lost may have been that of a request   *)
(* that took effect.                                                       *)
(*                                                                         *)
(* A claim is the guarded update (update_where) by which a worker takes a  *)
(* row: an answer without rows says that somebody else has it.             *)
(***************************************************************************)
EXTENDS Integers, FiniteSets

CONSTANTS
    Threads,
    Retries,        \* retries of a read (NOWCERTS_RETRIES), of any request (ZOHO_RETRIES), of Retry(total=)
    MaxCalls,       \* bound on the calls of a behaviour
    MaxHiccups,     \* bound on lost answers, refusals, expiries and failed grants
    NoThread

ASSUME ApiAssumption == NoThread \notin Threads /\ {Retries, MaxCalls, MaxHiccups} \subseteq Nat

VARIABLES
    tokens,         \* per client: "none", "stale" (the server refuses it) or "live"
    authLocks,      \* per client, the thread that holds _auth_lock
    apiCalls,       \* the call of each thread
    landings,       \* how often the server carried out the call of each thread
    claimedBy,      \* the row that claims go for
    callCount, hiccups

apiVars == <<tokens, authLocks, apiCalls, landings, claimedBy, callCount, hiccups>>

ApiTypeOK ==
    /\ tokens \in [{"nowcerts", "zoho"} -> {"none", "stale", "live"}]
    /\ authLocks \in [{"nowcerts", "zoho"} -> Threads \cup {NoThread}]
    /\ landings \in [Threads -> Nat] /\ claimedBy \in Threads \cup {NoThread}
    /\ callCount \in 0..MaxCalls /\ hiccups \in 0..MaxHiccups

-----------------------------------------------------------------------------

AtRest == [at |-> "rest"]

\* What the methods of the clients send.
CallKinds ==
    [client: {"nowcerts"}, does: {"read", "post"}] \cup [client: {"zoho"}, does: {"read", "post"}]
        \cup [client: {"supabase"}, does: {"post", "claim"}]

Tokened(call) == call.client # "supabase"

\* A faulty NowCerts client that repeats whatever timed out.
AttemptsForAll(call) == Retries + 1

\* Requests a call may make when answers do not come.  NowCerts repeats its reads, Zoho
\* all it does, and the Supabase session all but POST.
Attempts(call) ==
    IF (call.client = "nowcerts" \/ call.client = "supabase") /\ call.does = "post" THEN 1 ELSE Retries + 1

StartCall(t, kind) ==
    /\ apiCalls[t].at = "rest" /\ callCount < MaxCalls
    /\ callCount' = callCount + 1
    /\ apiCalls' = [apiCalls EXCEPT ![t] = [at |-> IF Tokened(kind) THEN "token" ELSE "send", client |-> kind.client,
                                            does |-> kind.does, tries |-> 1, again |-> FALSE]]
    /\ landings' = [landings EXCEPT ![t] = 0]
    /\ claimedBy' = IF claimedBy = t THEN NoThread ELSE claimedBy      \* the row of an older claim is settled
    /\ UNCHANGED <<tokens, authLocks, hiccups>>

ApiAt(t, step) == apiCalls' = [apiCalls EXCEPT ![t].at = step]
TokenOf(t) == tokens[apiCalls[t].client]
Lock(t) == authLocks[apiCalls[t].client]

-----------------------------------------------------------------------------
(* The token: _headers() and _ensure_token()                               *)

LookForToken(t) ==
    /\ apiCalls[t].at = "token"
    /\ ApiAt(t, IF TokenOf(t) = "none" THEN "wait" ELSE "send")
    /\ UNCHANGED <<tokens, authLocks, landings, claimedBy, callCount, hiccups>>

TakeAuthLock(t) ==
    /\ apiCalls[t].at \in {"wait", "relock"} /\ Lock(t) = NoThread
    /\ authLocks' = [authLocks EXCEPT ![apiCalls[t].client] = t]
    /\ ApiAt(t, IF apiCalls[t].at = "wait" THEN "locked" ELSE "regrant")
    /\ UNCHANGED <<tokens, landings, claimedBy, callCount, hiccups>>

NeedsGrant(t) == TokenOf(t) = "none"

LookAgain(t) ==
    /\ apiCalls[t].at = "locked"
    /\ ApiAt(t, IF NeedsGrant(t) THEN "grant" ELSE "send")
    /\ authLocks' = IF NeedsGrant(t) THEN authLocks ELSE [authLocks EXCEPT ![apiCalls[t].client] = NoThread]
    /\ UNCHANGED <<tokens, landings, claimedBy, callCount, hiccups>>

Unlocked(t) == [c \in DOMAIN authLocks |-> IF authLocks[c] = t THEN NoThread ELSE authLocks[c]]

\* A grant under the lock of a cold client, or after a 401: NowCerts fires that one without
\* the lock and sends at once, Zoho takes the lock and counts an attempt.
Granted(t) ==
    /\ apiCalls[t].at \in {"grant", "regrant"}
    /\ tokens' = [tokens EXCEPT ![apiCalls[t].client] = "live"]
    /\ authLocks' = Unlocked(t)
    /\ ApiAt(t, "send")
    /\ UNCHANGED <<landings, claimedBy, callCount, hiccups>>

\* A read, or a call of Zoho's outside its 401 branch, whose grant times out is tried again;
\* a grant that is refused is not.
GrantFails(t) ==
    /\ apiCalls[t].at \in {"grant", "regrant"} /\ hiccups < MaxHiccups
    /\ hiccups' = hiccups + 1
    /\ authLocks' = Unlocked(t)
    /\ \/ /\ apiCalls[t].at = "grant" /\ apiCalls[t].tries < Attempts(apiCalls[t])
          /\ apiCalls' = [apiCalls EXCEPT ![t].at = "token", ![t].tries = @ + 1]
       \/ ApiAt(t, "raised")
    /\ UNCHANGED <<tokens, landings, claimedBy, callCount>>

Expire(c) ==
    /\ tokens[c] = "live" /\ hiccups < MaxHiccups
    /\ hiccups' = hiccups + 1
    /\ \E seen \in BOOLEAN :        \* only Zoho's client knows when its token expires
          /\ seen => c = "zoho"
          /\ tokens' = [tokens EXCEPT ![c] = IF seen THEN "none" ELSE "stale"]
    /\ UNCHANGED <<authLocks, apiCalls, landings, claimedBy, callCount>>

-----------------------------------------------------------------------------
(* The request                                                             *)

TokenRefused(t) ==
    /\ apiCalls[t].at = "send" /\ Tokened(apiCalls[t]) /\ TokenOf(t) = "stale"
    /\ IF apiCalls[t].client = "nowcerts"
       THEN apiCalls' = [apiCalls EXCEPT ![t].at = IF apiCalls[t].again THEN "raised" ELSE "regrant", ![t].again = TRUE]
       ELSE apiCalls' = [apiCalls EXCEPT ![t].at = IF apiCalls[t].tries < Attempts(apiCalls[t]) THEN "relock" ELSE "raised",
                                         ![t].tries = @ + 1]
    /\ UNCHANGED <<tokens, authLocks, landings, claimedBy, callCount, hiccups>>

Wins(t) == apiCalls[t].does = "claim" /\ claimedBy = NoThread

\* The server carries the request out; a claim has an effect only on a free row.
Lands(t) ==
    /\ landings' = IF apiCalls[t].does = "post" \/ Wins(t) THEN [landings EXCEPT ![t] = @ + 1] ELSE landings
    /\ claimedBy' = IF Wins(t) THEN t ELSE claimedBy

Sendable(t) == apiCalls[t].at = "send" /\ (Tokened(apiCalls[t]) => TokenOf(t) # "stale")

CallAnswered(t) ==
    /\ Sendable(t)
    /\ Lands(t)
    /\ ApiAt(t, IF apiCalls[t].does = "claim" /\ ~Wins(t) THEN "lost" ELSE "done")
    /\ UNCHANGED <<tokens, authLocks, callCount, hiccups>>

\* A timeout, a dropped connection, a 429 or a 5xx, the work done or not.
Unanswered(t) ==
    /\ Sendable(t) /\ hiccups < MaxHiccups
    /\ hiccups' = hiccups + 1
    /\ Lands(t) \/ UNCHANGED <<landings, claimedBy>>
    /\ IF apiCalls[t].tries < Attempts(apiCalls[t]) /\ ~apiCalls[t].again
       THEN apiCalls' = [apiCalls EXCEPT ![t].at = IF Tokened(apiCalls[t]) THEN "token" ELSE "send", ![t].tries = @ + 1]
       ELSE apiCalls' = [apiCalls EXCEPT ![t].at = "raised"]
    /\ UNCHANGED <<tokens, authLocks, callCount>>

CallOver(t) ==
    /\ apiCalls[t].at \in {"done", "lost", "raised"}
    /\ ApiAt(t, "rest")
    /\ UNCHANGED <<tokens, authLocks, landings, claimedBy, callCount, hiccups>>

-----------------------------------------------------------------------------

ApiInit ==
    /\ tokens = [c \in {"nowcerts", "zoho"} |-> "none"]
    /\ authLocks = [c \in {"nowcerts", "zoho"} |-> NoThread]
    /\ apiCalls = [t \in Threads |-> AtRest] /\ landings = [t \in Threads |-> 0]
    /\ claimedBy = NoThread /\ callCount = 0 /\ hiccups = 0

ApiNext ==
    \/ \E t \in Threads : \/ \E kind \in CallKinds : StartCall(t, kind)
                          \/ LookForToken(t) \/ TakeAuthLock(t) \/ LookAgain(t) \/ Granted(t) \/ GrantFails(t)
                          \/ TokenRefused(t) \/ CallAnswered(t) \/ Unanswered(t) \/ CallOver(t)
    \/ \E c \in {"nowcerts", "zoho"} : Expire(c)

ApiSpec == ApiInit /\ [][ApiNext]_apiVars

\* A write that is not safe to repeat reaches NowCerts and Supabase once per call: a
\* timeout is raised to the caller, a refused token is the only reason to send it again.
WritesLandOnce ==
    \A t \in Threads : apiCalls[t].at # "rest" /\ apiCalls[t].client # "zoho" => landings[t] <= 1

\* "Without this, N threads arriving on a cold client each fire their own ~26s password
\* grant instead of one of them doing it and the rest waiting" (nowcerts_client.py): a
\* grant of a cold client is alone, and none is fired once there is a token.
ColdGrantOnce ==
    \A t \in Threads : apiCalls[t].at = "grant" =>
        /\ TokenOf(t) = "none"
        /\ \A u \in Threads \ {t} : apiCalls[u].at = "grant" => apiCalls[u].client # apiCalls[t].client

\* However the threads share the clients, and whatever their requests meet, none of them
\* writes twice or asks for a token that another one is asking for.
ApiSafe == ApiTypeOK /\ WritesLandOnce /\ ColdGrantOnce

=============================================================================
