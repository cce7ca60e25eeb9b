----------------------------- MODULE CabinetClient -----------------------------
(* The session of the personal account (account_client.py): one token that    *)
(* overlapping operations use, renew and find refused, and the negotiation of *)
(* the form in which the meters' service takes it.  The operations are the    *)
(* coordinator's refresh, the cards' reads of a meter's data, and the context *)
(* of a submission (account_coordinator.py, account_history.py); they read    *)
(* the same route of one account.                                             *)
EXTENDS FiniteSets, Integers, FiniteSetsExt

CONSTANTS
    Tasks,
    MaxFaults,      \* bound: revoked tokens, and operations that fail or are cancelled
    NoToken, NoTask

Tokens == 0..Cardinality(Tasks)
Styles == {"raw", "bearer"}
Phases == {"login", "list", "meter", "alternate", "recheck"}
Steps == {"wait", "ensure", "issue", "answer"}

VARIABLES
    \* the operator's side
    valid,          \* tokens that have not been revoked
    accepts,        \* the style that the meters' service accepts, if any
    \* the client
    authenticated,  \* the coordinator has logged in
    token,          \* self._token
    expired,        \* self._token_expires has passed
    style,          \* self._meter_auth
    blocked,        \* the route is in self._meter_rejections
    lock,           \* who holds self._lock
    meterLock,      \* who holds self._meter_lock
    op,             \* the operations
    faults,
    refused         \* ghost: a request was refused with this token

operator == <<valid, accepts>>
client == <<authenticated, token, expired, style, blocked>>
vars == <<operator, client, lock, meterLock, op, faults, refused>>

(* retry: the token was renewed, or found renewed, after a refusal.           *)
Ops == [phase : Phases, step : Steps, retry : BOOLEAN,
        used : Tokens \cup {NoToken}, style : Styles]

ASSUME CabinetClientAssumption ==
    /\ MaxFaults \in Nat /\ IsFiniteSet(Tasks)
    /\ NoTask \notin Tasks \cup Ops /\ NoToken \notin Tokens

Init ==
    /\ valid = {} /\ accepts = "raw"
    /\ authenticated = FALSE /\ token = NoToken /\ expired = FALSE
    /\ style = "raw" /\ blocked = FALSE
    /\ lock = NoTask /\ meterLock = NoTask
    /\ op = [t \in Tasks |-> NoTask] /\ faults = 0 /\ refused = FALSE

Active(t) == op[t] # NoTask
At(t, step) == Active(t) /\ op[t].step = step

-------------------------------------------------------------------------------
(* The operator                                                               *)

Fault == faults < MaxFaults /\ faults' = faults + 1

Revoke ==
    /\ Fault /\ valid # {} /\ valid' = {}
    /\ UNCHANGED <<accepts, client, lock, meterLock, op, refused>>

ChangeStyle ==
    /\ accepts' \in (Styles \cup {"neither"}) \ {accepts}
    /\ UNCHANGED <<valid, client, lock, meterLock, op, faults, refused>>

(* Fifteen minutes pass, or the token's own term; a minute passes.            *)
Expire ==
    /\ token # NoToken /\ ~expired /\ expired' = TRUE
    /\ UNCHANGED <<operator, authenticated, token, style, blocked,
                   lock, meterLock, op, faults, refused>>

Unblock ==
    /\ blocked /\ blocked' = FALSE
    /\ UNCHANGED <<operator, authenticated, token, expired, style,
                   lock, meterLock, op, faults, refused>>

-------------------------------------------------------------------------------
(* Operations begin and end                                                   *)

Start(phase, step) ==
    [phase |-> phase, step |-> step, retry |-> FALSE, used |-> NoToken, style |-> "raw"]

(* The first refresh logs in; then a refresh and a context list the accounts, *)
(* while the other reads go to the meters at once.                            *)
Begin(t) ==
    /\ ~Active(t)
    /\ \E phase \in {"login", "list", "meter"} :
        /\ IF authenticated THEN phase # "login"
           ELSE phase = "login" /\ \A u \in Tasks : ~Active(u)
        /\ op' = [op EXCEPT ![t] = Start(phase, IF phase = "list" THEN "ensure" ELSE "wait")]
    /\ UNCHANGED <<operator, client, lock, meterLock, faults, refused>>

ReleaseFirst(t) ==                                                  \* mutated
    lock' = (IF lock = t THEN NoTask ELSE lock) /\ UNCHANGED meterLock

(* The locks are released however the operation ends.                         *)
Release(t) ==
    /\ lock' = IF lock = t THEN NoTask ELSE lock
    /\ meterLock' = IF meterLock = t THEN NoTask ELSE meterLock

End(t) == op' = [op EXCEPT ![t] = NoTask] /\ Release(t)

(* Cancelled, a broken connection, a limit, an unexpected status, a changed   *)
(* interface, an answer that cannot be decoded, no new token, or an account   *)
(* that is not linked.                                                        *)
Break(t) ==
    /\ Fault /\ Active(t) /\ End(t)
    /\ UNCHANGED <<operator, client, refused>>

-------------------------------------------------------------------------------
(* authenticate()                                                             *)

Login(t) ==
    /\ At(t, "wait") /\ op[t].phase = "login" /\ lock = NoTask
    /\ lock' = t /\ op' = [op EXCEPT ![t].step = "issue"]
    /\ token' = NoToken /\ style' = "raw" /\ blocked' = FALSE
    /\ UNCHANGED <<operator, authenticated, expired, meterLock, faults, refused>>

-------------------------------------------------------------------------------
(* _ensure_token() and _issue_token()                                         *)

(* The request goes out with the token of this moment.                        *)
Sent(o, tok) ==
    [o EXCEPT !.step = "answer", !.used = tok,
              !.style = CASE o.phase = "meter" -> style
                          [] o.phase = "alternate" -> CHOOSE s \in Styles : s # style
                          [] OTHER -> "raw"]

NeedsTokenAnyway(t) == token = NoToken \/ expired \/ op[t].retry    \* mutated

NeedsToken(t) ==
    \/ token = NoToken \/ expired
    \/ op[t].retry /\ token = op[t].used

Ensure(t) ==
    /\ At(t, "ensure") /\ lock = NoTask
    /\ IF NeedsToken(t)
       THEN lock' = t /\ op' = [op EXCEPT ![t].step = "issue"]
       ELSE op' = [op EXCEPT ![t] = Sent(@, token)] /\ UNCHANGED lock
    /\ UNCHANGED <<operator, client, meterLock, faults, refused>>

(* The tokens that others hold, and a new one.                                *)
Held(t) == {op[u].used : u \in {v \in Tasks \ {t} : Active(v)}}
New(t) == Min(Tokens \ ({token} \cup Held(t)))

Issued(t) ==
    /\ At(t, "issue")
    /\ token' = New(t) /\ expired' = FALSE /\ refused' = FALSE
    /\ valid' = (valid \cap Held(t)) \cup {New(t)}
    /\ lock' = NoTask
    /\ IF op[t].phase = "login"
       THEN authenticated' = TRUE /\ op' = [op EXCEPT ![t] = Start("list", "ensure")]
       ELSE UNCHANGED authenticated /\ op' = [op EXCEPT ![t] = Sent(@, New(t))]
    /\ UNCHANGED <<accepts, style, blocked, meterLock, faults>>

-------------------------------------------------------------------------------
(* _meter_response(): the rejection is looked up under the lock.              *)

LookedUpBefore(t) ==                                                \* mutated
    /\ At(t, "wait") /\ op[t].phase = "meter" /\ meterLock = NoTask
    /\ meterLock' = t /\ op' = [op EXCEPT ![t].step = "ensure"]
    /\ UNCHANGED <<operator, client, lock, faults, refused>>

TakeMeterLock(t) ==
    /\ At(t, "wait") /\ op[t].phase = "meter" /\ meterLock = NoTask
    /\ IF blocked THEN End(t)
       ELSE /\ meterLock' = t /\ op' = [op EXCEPT ![t].step = "ensure"]
            /\ UNCHANGED lock
    /\ UNCHANGED <<operator, client, faults, refused>>

(* The answer depends on what was sent, and on the operator when it answers.  *)
TokenGood(t) == op[t].used \in valid
Good(t) == TokenGood(t) /\ (op[t].phase \in {"meter", "alternate"} => op[t].style = accepts)

RecheckLikeMeters == Start("recheck", "wait")                       \* mutated

Recheck == Start("recheck", "ensure")

(* A 401: the token is renewed once, then the other style is tried, and then  *)
(* the cabinet is asked whether the login still works.                        *)
Refused(t) ==
    /\ At(t, "answer") /\ ~Good(t)
    /\ refused' = (refused \/ op[t].used = token)
    /\ CASE op[t].phase = "alternate" ->
              op' = [op EXCEPT ![t] = Recheck] /\ UNCHANGED <<lock, meterLock>>
         [] op[t].phase # "alternate" /\ ~op[t].retry ->
              /\ op' = [op EXCEPT ![t].step = "ensure", ![t].retry = TRUE]
              /\ UNCHANGED <<lock, meterLock>>
         [] op[t].phase = "meter" /\ op[t].retry ->
              /\ op' = [op EXCEPT ![t] = Sent([@ EXCEPT !.phase = "alternate"], token)]
              /\ UNCHANGED <<lock, meterLock>>
         [] OTHER -> End(t)
    /\ UNCHANGED <<operator, client, faults>>

LearnedBearer(t) == style' = "bearer"                               \* mutated

Learned(t) == style' = op[t].style

(* A list leads to the meters, and the recheck of the login to a minute's     *)
(* pause for the route.                                                       *)
Accepted(t) ==
    /\ At(t, "answer") /\ Good(t)
    /\ CASE op[t].phase = "list" ->
              /\ op' = [op EXCEPT ![t] = Start("meter", "wait")]
              /\ UNCHANGED <<lock, meterLock, style, blocked>>
         [] op[t].phase = "recheck" -> blocked' = TRUE /\ UNCHANGED style /\ End(t)
         [] op[t].phase = "alternate" -> Learned(t) /\ blocked' = FALSE /\ End(t)
         [] OTHER -> UNCHANGED <<style, blocked>> /\ End(t)
    /\ UNCHANGED <<operator, authenticated, token, expired, faults, refused>>

Progress(t) ==
    \/ Login(t) \/ Ensure(t) \/ Issued(t)
    \/ TakeMeterLock(t) \/ Refused(t) \/ Accepted(t)

Next ==
    \/ Revoke \/ ChangeStyle \/ Expire \/ Unblock
    \/ \E t \in Tasks : Begin(t) \/ Break(t) \/ Progress(t)

Spec == Init /\ [][Next]_vars

(* Cards and the coordinator ask again and again; requests end in 25 seconds; *)
(* the locks are first come, first served; the minute passes.                 *)
Fairness ==
    /\ WF_vars(Unblock)
    /\ \A t \in Tasks : WF_vars(Begin(t)) /\ SF_vars(Progress(t))

FairSpec == Spec /\ Fairness

-------------------------------------------------------------------------------
(* Who issues a token holds the first lock, and who is between the look at    *)
(* the rejections and the end of the negotiation holds the second, in every   *)
(* phase of it (account_client.py:296, :319).                                 *)
TypeOK ==
    /\ {authenticated, expired, blocked, refused} \subseteq BOOLEAN
    /\ valid \subseteq Tokens /\ token \in Tokens \cup {NoToken}
    /\ accepts \in Styles \cup {"neither"} /\ style \in Styles /\ faults \in 0..MaxFaults
    /\ \A t \in Tasks :
        /\ op[t] \in Ops \cup {NoTask}
        /\ lock = t <=> At(t, "issue")
        /\ meterLock = t <=> /\ Active(t) /\ op[t].phase \in {"meter", "alternate", "recheck"}
                             /\ op[t].step # "wait"

(* Operations that find the same token refused renew it once: a token is only *)
(* replaced when it has expired or was itself refused, not because an older   *)
(* one was (account_client.py:302).  For a minute after both styles were      *)
(* refused no request of the route goes out, also from those who waited for   *)
(* the lock meanwhile (account_client.py:318-321).                            *)
RefusalsAreHeeded ==
    [][/\ token' \in Tokens \ {token} /\ token # NoToken => expired \/ refused
       /\ \A t \in Tasks :
            blocked => ~(Active(t)' /\ op'[t].phase \in {"meter", "alternate"}
                         /\ At(t, "answer")' /\ op'[t] # op[t])]_vars

(* Whatever style the service comes to accept, the client finds it, through   *)
(* tokens that expire and are revoked (account_client.py:325-332), and no     *)
(* operation waits for ever: not for the other lock, nor for its own.         *)
StyleFound ==
    /\ authenticated /\ accepts \in Styles ~> style = accepts \/ accepts = "neither"
    /\ \A t \in Tasks : Active(t) ~> ~Active(t)
================================================================================
