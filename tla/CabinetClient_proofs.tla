-------------------------- MODULE CabinetClient_proofs --------------------------
(* Proofs about CabinetClient, for any finite set of overlapping operations   *)
(* and any number of faults: the two locks are held by exactly those who need *)
(* them, and a refusal is heeded.                                             *)
EXTENDS CabinetClient, FiniteSetTheorems, WellFoundedInduction, TLAPS

(* The state of an operation is a function of the operations.                 *)
Typed == TypeOK /\ op \in [Tasks -> Ops \cup {NoTask}]

(* Who issues a token has found it missing, expired or refused.               *)
IssuedForCause ==
    \A t \in Tasks : At(t, "issue") => token = NoToken \/ expired \/ refused

(* An operation that was refused and comes for another token knows that the   *)
(* present one was refused, unless it has been replaced since.                *)
RefusalIsKnown ==
    \A t \in Tasks :
        /\ At(t, "wait") => ~op[t].retry
        /\ At(t, "ensure") /\ op[t].retry /\ op[t].used = token /\ token # NoToken => refused

(* While the route is blocked nobody is past the look at the rejections.      *)
BlockedIsEmpty ==
    blocked => \A t \in Tasks :
        Active(t) /\ op[t].phase \in {"meter", "alternate"} => op[t].step = "wait"

IInv == Typed /\ IssuedForCause /\ RefusalIsKnown /\ BlockedIsEmpty

-------------------------------------------------------------------------------
(* There is a token that nobody holds.                                        *)
LEMMA SmallestExists ==
    ASSUME NEW S \in SUBSET Nat, S # {}
    PROVE  Min(S) \in S
<1> DEFINE R == OpToRel(<, Nat)
<1>1. IsWellFoundedOn(R, Nat)
    BY NatLessThanWellFounded
<1>2. \A x, y \in Nat : <<y, x>> \in R <=> y < x
    BY DEF OpToRel
<1> HIDE DEF R
<1>3. PICK x \in S : \A y \in S : ~ (<<y, x>> \in R)
    BY <1>1, WFMin, Zenon
<1>4. \A y \in S : ~(y < x)
    BY <1>2, <1>3, Zenon
<1>5. \A y \in S : x <= y
    BY <1>4
<1> QED BY <1>5 DEF Min

LEMMA FreeTokens ==
    ASSUME Typed, NEW t \in Tasks
    PROVE  /\ New(t) \in Tokens \ {token} /\ New(t) \notin Held(t)
           /\ New(t) # NoToken
<1> DEFINE others == {v \in Tasks \ {t} : Active(v)}
           known == {op[u].used : u \in others}
           f == [u \in others |-> op[u].used]
           free == Tokens \ ({token} \cup known)
<1>1. /\ IsFiniteSet(Tasks \ {t}) /\ Cardinality(Tasks \ {t}) = Cardinality(Tasks) - 1
      /\ Cardinality(Tasks) \in Nat
    BY FS_RemoveElement, FS_CardinalityType, CabinetClientAssumption
<1>2. others \in SUBSET (Tasks \ {t})
    OBVIOUS
<1>3. IsFiniteSet(others) /\ Cardinality(others) <= Cardinality(Tasks) - 1
      /\ Cardinality(others) \in Nat
  <2> HIDE DEF others
  <2> QED BY <1>1, <1>2, FS_Subset, FS_CardinalityType
<1>4. f \in Surjection(others, known)
    BY DEF Surjection
<1>5. IsFiniteSet(known) /\ Cardinality(known) <= Cardinality(others)
      /\ Cardinality(known) \in Nat
  <2> HIDE DEF others, known, f
  <2> QED BY <1>3, <1>4, FS_Surjection, FS_CardinalityType
<1>6. IsFiniteSet(known \cup {token})
      /\ Cardinality(known \cup {token}) <= Cardinality(known) + 1
  <2> HIDE DEF others, known
  <2>1. Cardinality(known) \in Nat /\ IsFiniteSet(known)
      BY <1>5
  <2>2. /\ IsFiniteSet(known \cup {token})
        /\ Cardinality(known \cup {token})
             = IF token \in known THEN Cardinality(known) ELSE Cardinality(known) + 1
      BY <1>5, FS_AddElement, Zenon
  <2> QED BY <2>1, <2>2
<1>7. Cardinality(known \cup {token}) <= Cardinality(Tasks)
      /\ Cardinality(known \cup {token}) \in Nat
  <2> HIDE DEF others, known
  <2>1. Cardinality(known \cup {token}) \in Nat
      BY <1>6, FS_CardinalityType
  <2> QED BY <1>1, <1>3, <1>5, <1>6, <2>1
<1>8. Cardinality(Tokens) = Cardinality(Tasks) + 1 /\ Tokens \subseteq Nat
  <2>1. 0 \in Int /\ Cardinality(Tasks) \in Int
      BY <1>1
  <2> QED BY <1>1, <2>1, FS_Interval DEF Tokens
<1>9. ~(Tokens \subseteq known \cup {token})
  <2> HIDE DEF others, known
  <2>1. SUFFICES ASSUME Tokens \in SUBSET (known \cup {token}) PROVE FALSE
      OBVIOUS
  <2>2. Cardinality(Tokens) <= Cardinality(known \cup {token})
      BY <1>6, <2>1, FS_Subset
  <2> QED BY <1>1, <1>7, <1>8, <2>2
<1>10. free \in SUBSET Nat /\ free # {}
    BY <1>8, <1>9
<1>11. New(t) = Min(free) /\ known = Held(t)
    BY DEF New, Held
<1>12. New(t) \in free
  <2> HIDE DEF free
  <2> QED BY <1>10, <1>11, SmallestExists
<1> QED BY <1>11, <1>12, CabinetClientAssumption

(* What a step does to the operation that takes it.                           *)
LEMMA SentIsTyped ==
    ASSUME Typed, NEW o \in Ops, NEW tok \in Tokens \cup {NoToken}
    PROVE  /\ Sent(o, tok) \in Ops /\ Sent(o, tok).step = "answer"
           /\ Sent(o, tok).phase = o.phase /\ Sent(o, tok).retry = o.retry
           /\ Sent(o, tok).used = tok
<1> DEFINE s == CASE o.phase = "meter" -> style
                  [] o.phase = "alternate" -> CHOOSE x \in Styles : x # style
                  [] OTHER -> "raw"
<1>1. s \in Styles
  <2>1. style \in Styles /\ "raw" \in Styles /\ (\E x \in Styles : x # style)
      BY DEF Typed, TypeOK, Styles
  <2>2. (CHOOSE x \in Styles : x # style) \in Styles
      BY <2>1
  <2> QED BY <2>1, <2>2
<1> HIDE DEF s
<1>2. Sent(o, tok) = [o EXCEPT !.step = "answer", !.used = tok, !.style = s]
    BY DEF Sent, s
<1> QED BY <1>1, <1>2 DEF Ops, Steps

LEMMA StartIsTyped ==
    ASSUME NEW phase \in Phases, NEW step \in Steps
    PROVE  /\ Start(phase, step) \in Ops /\ Start(phase, step).step = step
           /\ Start(phase, step).phase = phase /\ Start(phase, step).retry = FALSE
           /\ Start(phase, step).used = NoToken
BY DEF Start, Ops, Styles

-------------------------------------------------------------------------------
(* An operation that moves takes and gives back the locks its state calls for.*)
Issues(rec) == rec # NoTask /\ rec.step = "issue"

Negotiates(rec) ==
    rec # NoTask /\ rec.phase \in {"meter", "alternate", "recheck"} /\ rec.step # "wait"

MovesTo(t, rec) ==
    /\ op' = [op EXCEPT ![t] = rec]
    /\ IF Issues(rec) THEN lock \in {t, NoTask} /\ lock' = t
       ELSE lock' = (IF lock = t THEN NoTask ELSE lock)
    /\ IF Negotiates(rec) THEN meterLock \in {t, NoTask} /\ meterLock' = t
       ELSE meterLock' = (IF meterLock = t THEN NoTask ELSE meterLock)

LocksFit ==
    /\ op \in [Tasks -> Ops \cup {NoTask}]
    /\ \A t \in Tasks :
        /\ op[t] \in Ops \cup {NoTask}
        /\ lock = t <=> At(t, "issue")
        /\ meterLock = t <=> /\ Active(t) /\ op[t].phase \in {"meter", "alternate", "recheck"}
                             /\ op[t].step # "wait"

ClientFits ==
    /\ {authenticated, expired, blocked, refused} \subseteq BOOLEAN
    /\ valid \subseteq Tokens /\ token \in Tokens \cup {NoToken}
    /\ accepts \in Styles \cup {"neither"} /\ style \in Styles /\ faults \in 0..MaxFaults

LEMMA TypedParts == Typed <=> LocksFit /\ ClientFits
BY DEF Typed, TypeOK, LocksFit, ClientFits

LEMMA TypedPartsNext == LocksFit' /\ ClientFits' => Typed'
BY DEF Typed, TypeOK, LocksFit, ClientFits, At, Active

LEMMA Moving ==
    ASSUME Typed, NEW t \in Tasks, NEW rec \in Ops \cup {NoTask}, MovesTo(t, rec)
    PROVE  LocksFit' /\ op'[t] = rec /\ \A u \in Tasks \ {t} : op'[u] = op[u]
<1>1. op'[t] = rec /\ \A u \in Tasks \ {t} : op'[u] = op[u]
    BY DEF MovesTo, Typed
<1>2. op' \in [Tasks -> Ops \cup {NoTask}]
    BY DEF MovesTo, Typed
<1>3. ASSUME NEW u \in Tasks
      PROVE  lock' = u <=> op'[u] # NoTask /\ op'[u].step = "issue"
  <2>1. lock = u <=> op[u] # NoTask /\ op[u].step = "issue"
      BY <1>3, TypedParts DEF LocksFit, At, Active
  <2>2. NoTask # u /\ NoTask # t
      BY <1>3, CabinetClientAssumption
  <2>3. CASE u = t
      BY <1>1, <2>1, <2>2, <2>3 DEF MovesTo, Issues
  <2>4. CASE u # t
      BY <1>1, <1>3, <2>1, <2>2, <2>4 DEF MovesTo, Issues
  <2> QED BY <2>3, <2>4
<1>4. ASSUME NEW u \in Tasks
      PROVE  meterLock' = u <=> Negotiates(op'[u])
  <2>1. meterLock = u <=> Negotiates(op[u])
      BY <1>4, TypedParts DEF LocksFit, Active, Negotiates
  <2>2. NoTask # u /\ NoTask # t
      BY <1>4, CabinetClientAssumption
  <2>3. CASE u = t
      BY <1>1, <2>1, <2>2, <2>3 DEF MovesTo
  <2>4. CASE u # t
      BY <1>1, <1>4, <2>1, <2>2, <2>4 DEF MovesTo
  <2> QED BY <2>3, <2>4
<1> QED BY <1>1, <1>2, <1>3, <1>4 DEF LocksFit, At, Active, Negotiates

(* An operation ends, its locks with it.                                      *)
LEMMA Ending ==
    ASSUME NEW t \in Tasks, End(t)
    PROVE  MovesTo(t, NoTask)
BY DEF End, Release, MovesTo, Issues, Negotiates

-------------------------------------------------------------------------------
(* The three further parts of the invariant, for an operation that moves.     *)
Rest == IssuedForCause /\ RefusalIsKnown /\ BlockedIsEmpty

Caused(rec) == Issues(rec) => token' = NoToken \/ expired' \/ refused'

Knows(rec) ==
    rec # NoTask =>
        /\ rec.step = "wait" => ~rec.retry
        /\ rec.step = "ensure" /\ rec.retry /\ rec.used = token' /\ token' # NoToken => refused'

Kept(rec) == rec # NoTask /\ rec.phase \in {"meter", "alternate"} => rec.step = "wait"

LEMMA RestNext ==
    ASSUME NEW t \in Tasks,
           Caused(op'[t]), Knows(op'[t]), blocked' => Kept(op'[t]),
           \A u \in Tasks \ {t} :
               Caused(op'[u]) /\ Knows(op'[u]) /\ (blocked' => Kept(op'[u]))
    PROVE  Rest'
BY DEF Rest, Caused, Knows, Kept, IssuedForCause, RefusalIsKnown, BlockedIsEmpty, At, Active, Issues

(* Whoever does not move keeps what it has, as long as the token, its term    *)
(* and what is known of it stay.                                              *)
LEMMA RestOfOthers ==
    ASSUME Rest, NEW t \in Tasks, \A u \in Tasks \ {t} : op'[u] = op[u],
           token' \in {token, NoToken}, expired' = expired,
           refused' \in BOOLEAN, refused => refused', blocked' => blocked
    PROVE  \A u \in Tasks \ {t} :
               Caused(op'[u]) /\ Knows(op'[u]) /\ (blocked' => Kept(op'[u]))
BY DEF Rest, Caused, Knows, Kept, IssuedForCause, RefusalIsKnown, BlockedIsEmpty, At, Active, Issues

-------------------------------------------------------------------------------
(* One lemma for each step of an operation.                                   *)
LEMMA RunningOp ==
    ASSUME Typed, NEW t \in Tasks, op[t] # NoTask
    PROVE  /\ op[t] \in Ops /\ op[t].phase \in Phases /\ op[t].step \in Steps
           /\ op[t].retry \in BOOLEAN /\ op[t].used \in Tokens \cup {NoToken}
BY DEF Typed, Ops

LEMMA InvBegin == ASSUME IInv, NEW t \in Tasks, Begin(t) PROVE IInv'
<1>1. PICK phase \in {"login", "list", "meter"} :
          /\ op[t] = NoTask
          /\ op' = [op EXCEPT ![t] = Start(phase, IF phase = "list" THEN "ensure" ELSE "wait")]
    BY DEF Begin, Active
<1>2. PICK step : step = IF phase = "list" THEN "ensure" ELSE "wait"
    OBVIOUS
<1>3. PICK rec : rec = Start(phase, step)
    OBVIOUS
<1>4. /\ rec \in Ops /\ rec.step = step /\ rec.phase = phase /\ rec.retry = FALSE
      /\ rec # NoTask
  <2>1. phase \in Phases /\ step \in Steps
      BY <1>2 DEF Phases, Steps
  <2> QED BY <1>3, <2>1, StartIsTyped, CabinetClientAssumption
<1>5. lock # t /\ meterLock # t
    BY <1>1, TypedParts DEF IInv, LocksFit, At, Active
<1>6. MovesTo(t, rec)
    BY <1>1, <1>2, <1>3, <1>4, <1>5 DEF MovesTo, Issues, Negotiates, Begin
<1>7. LocksFit' /\ op'[t] = rec /\ \A u \in Tasks \ {t} : op'[u] = op[u]
    BY <1>4, <1>6, Moving DEF IInv
<1>8. Typed'
  <2>1. ClientFits'
      BY TypedParts DEF IInv, ClientFits, Begin, operator, client
  <2> QED BY <1>7, <2>1, TypedPartsNext
<1>9. Rest'
  <2>1. /\ token' = token /\ expired' = expired /\ refused' = refused /\ blocked' = blocked
        /\ refused \in BOOLEAN
      BY DEF Begin, client, IInv, Typed, TypeOK
  <2>2. \A u \in Tasks \ {t} : Caused(op'[u]) /\ Knows(op'[u]) /\ (blocked' => Kept(op'[u]))
      BY <1>7, <2>1, RestOfOthers DEF IInv, Rest
  <2>3. Caused(rec) /\ Knows(rec) /\ Kept(rec)
      BY <1>2, <1>4 DEF Caused, Knows, Kept, Issues
  <2> QED BY <1>7, <2>2, <2>3, RestNext
<1> QED BY <1>8, <1>9 DEF IInv, Rest

(* An operation ends and changes nothing but what Accepted may.               *)
LEMMA InvEnd ==
    ASSUME IInv, NEW t \in Tasks, End(t), ClientFits',
           token' = token, expired' = expired, refused' \in BOOLEAN, refused => refused',
           blocked' => blocked \/ Negotiates(op[t])
    PROVE  IInv'
<1>1. LocksFit' /\ op'[t] = NoTask /\ \A u \in Tasks \ {t} : op'[u] = op[u]
    BY Ending, Moving DEF IInv
<1>2. Typed'
    BY <1>1, TypedPartsNext
<1>3. Caused(NoTask) /\ Knows(NoTask) /\ Kept(NoTask)
    BY DEF Caused, Knows, Kept, Issues
<1>4. \A u \in Tasks \ {t} : Caused(op'[u]) /\ Knows(op'[u]) /\ (blocked' => Kept(op'[u]))
  <2>1. CASE blocked' => blocked
      BY <1>1, <2>1, RestOfOthers DEF IInv, Rest
  <2>2. CASE Negotiates(op[t])
    <3>1. \A u \in Tasks \ {t} : Kept(op[u])
      <4>1. meterLock = t
          BY <2>2, TypedParts DEF IInv, LocksFit, Negotiates, Active
      <4>2. \A u \in Tasks \ {t} : ~Negotiates(op[u])
          BY <4>1, TypedParts DEF IInv, LocksFit, Negotiates, Active
      <4> QED BY <4>2 DEF Kept, Negotiates
    <3>2. \A u \in Tasks \ {t} : Caused(op'[u]) /\ Knows(op'[u])
        BY <1>1 DEF IInv, Caused, Knows, IssuedForCause, RefusalIsKnown, At, Active, Issues
    <3> QED BY <1>1, <3>1, <3>2
  <2> QED BY <2>1, <2>2
<1>5. Rest'
    BY <1>1, <1>3, <1>4, RestNext
<1> QED BY <1>2, <1>5 DEF IInv, Rest

LEMMA InvBreak == ASSUME IInv, NEW t \in Tasks, Break(t) PROVE IInv'
<1>1. ClientFits'
    BY TypedParts, CabinetClientAssumption DEF IInv, ClientFits, Break, Fault, operator, client
<1>2. End(t) /\ UNCHANGED <<token, expired, refused, blocked>> /\ refused \in BOOLEAN
    BY DEF IInv, Typed, TypeOK, Break, client
<1> QED BY <1>1, <1>2, InvEnd

LEMMA InvLogin == ASSUME IInv, NEW t \in Tasks, Login(t) PROVE IInv'
<1>1. op[t] # NoTask /\ op[t].step = "wait" /\ op[t].phase = "login" /\ op[t] \in Ops
    BY RunningOp DEF Login, At, Active, IInv
<1>2. PICK rec : rec = [op[t] EXCEPT !.step = "issue"]
    OBVIOUS
<1>3. rec \in Ops /\ rec.step = "issue" /\ rec.phase = "login" /\ rec # NoTask
    BY <1>1, <1>2, CabinetClientAssumption DEF Ops, Steps
<1>4. op' = [op EXCEPT ![t] = rec]
    BY <1>2 DEF Login
<1>5. meterLock # t
    BY <1>1, TypedParts DEF IInv, LocksFit, Active
<1>6. MovesTo(t, rec)
    BY <1>3, <1>4, <1>5 DEF MovesTo, Issues, Negotiates, Login
<1>7. LocksFit' /\ op'[t] = rec /\ \A u \in Tasks \ {t} : op'[u] = op[u]
    BY <1>3, <1>6, Moving DEF IInv
<1>8. Typed'
  <2>1. ClientFits'
      BY TypedParts DEF IInv, ClientFits, Login, operator, Styles
  <2> QED BY <1>7, <2>1, TypedPartsNext
<1>9. Rest'
  <2>1. token' = NoToken /\ expired' = expired /\ refused' = refused /\ ~blocked'
        /\ refused \in BOOLEAN
      BY DEF Login, IInv, Typed, TypeOK
  <2>2. \A u \in Tasks \ {t} : Caused(op'[u]) /\ Knows(op'[u]) /\ (blocked' => Kept(op'[u]))
      BY <1>7, <2>1, RestOfOthers DEF IInv, Rest
  <2>3. Caused(rec) /\ Knows(rec)
      BY <1>3, <2>1 DEF Caused, Knows, Issues
  <2> QED BY <1>7, <2>1, <2>2, <2>3, RestNext
<1> QED BY <1>8, <1>9 DEF IInv, Rest

LEMMA InvEnsure == ASSUME IInv, NEW t \in Tasks, Ensure(t) PROVE IInv'
<1>1. op[t] # NoTask /\ op[t].step = "ensure" /\ op[t] \in Ops /\ token \in Tokens \cup {NoToken}
    BY RunningOp DEF Ensure, At, Active, IInv, Typed, TypeOK
<1>2. PICK rec : rec = IF NeedsToken(t) THEN [op[t] EXCEPT !.step = "issue"]
                       ELSE Sent(op[t], token)
    OBVIOUS
<1>3. /\ rec \in Ops /\ rec # NoTask /\ rec.phase = op[t].phase
      /\ rec.step = IF NeedsToken(t) THEN "issue" ELSE "answer"
  <2>1. CASE NeedsToken(t)
      BY <1>1, <1>2, <2>1, CabinetClientAssumption DEF Ops, Steps
  <2>2. CASE ~NeedsToken(t)
      BY <1>1, <1>2, <2>2, SentIsTyped, CabinetClientAssumption DEF IInv
  <2> QED BY <2>1, <2>2
<1>4. op' = [op EXCEPT ![t] = rec]
    BY <1>2 DEF Ensure
<1>5. lock # t /\ (Negotiates(op[t]) <=> meterLock = t) /\ lock = NoTask
    BY <1>1, TypedParts DEF IInv, LocksFit, Active, Negotiates, At, Ensure
<1>6. MovesTo(t, rec)
  <2>1. Negotiates(rec) <=> Negotiates(op[t])
      BY <1>1, <1>3 DEF Negotiates
  <2>2. meterLock' = meterLock /\ lock' = IF NeedsToken(t) THEN t ELSE lock
      BY DEF Ensure
  <2>3. Issues(rec) <=> NeedsToken(t)
      BY <1>3 DEF Issues
  <2> QED BY <1>4, <1>5, <2>1, <2>2, <2>3 DEF MovesTo
<1>7. LocksFit' /\ op'[t] = rec /\ \A u \in Tasks \ {t} : op'[u] = op[u]
    BY <1>3, <1>6, Moving DEF IInv
<1>8. Typed'
  <2>1. ClientFits'
      BY TypedParts DEF IInv, ClientFits, Ensure, operator, client
  <2> QED BY <1>7, <2>1, TypedPartsNext
<1>9. Rest'
  <2>1. /\ token' = token /\ expired' = expired /\ refused' = refused /\ blocked' = blocked
        /\ refused \in BOOLEAN
      BY DEF Ensure, client, IInv, Typed, TypeOK
  <2>2. \A u \in Tasks \ {t} : Caused(op'[u]) /\ Knows(op'[u]) /\ (blocked' => Kept(op'[u]))
      BY <1>7, <2>1, RestOfOthers DEF IInv, Rest
  <2>3. Caused(rec)
    <3>1. NeedsToken(t) => token = NoToken \/ expired \/ refused
        BY <1>1 DEF NeedsToken, IInv, RefusalIsKnown, At, Active
    <3> QED BY <1>3, <2>1, <3>1 DEF Caused, Issues
  <2>4. Knows(rec)
      BY <1>3 DEF Knows
  <2>5. blocked' => Kept(rec)
      BY <1>1, <1>3, <2>1 DEF IInv, BlockedIsEmpty, Active, Kept
  <2> QED BY <1>7, <2>2, <2>3, <2>4, <2>5, RestNext
<1> QED BY <1>8, <1>9 DEF IInv, Rest

LEMMA InvIssued == ASSUME IInv, NEW t \in Tasks, Issued(t) PROVE IInv'
<1>1. op[t] # NoTask /\ op[t].step = "issue" /\ op[t] \in Ops
    BY RunningOp DEF Issued, At, Active, IInv
<1>2. New(t) \in Tokens \ {token} /\ New(t) \notin Held(t) /\ New(t) # NoToken
    BY FreeTokens DEF IInv
<1>3. PICK rec : rec = IF op[t].phase = "login" THEN Start("list", "ensure")
                       ELSE Sent(op[t], New(t))
    OBVIOUS
<1>4. /\ rec \in Ops /\ rec # NoTask
      /\ op[t].phase = "login" => rec.phase = "list" /\ rec.step = "ensure" /\ ~rec.retry
      /\ op[t].phase # "login" => rec.phase = op[t].phase /\ rec.step = "answer"
  <2>1. CASE op[t].phase = "login"
    <3>1. "list" \in Phases /\ "ensure" \in Steps
        BY DEF Phases, Steps
    <3> QED BY <1>3, <2>1, <3>1, StartIsTyped, CabinetClientAssumption
  <2>2. CASE op[t].phase # "login"
      BY <1>1, <1>2, <1>3, <2>2, SentIsTyped, CabinetClientAssumption DEF IInv
  <2> QED BY <2>1, <2>2
<1>5. op' = [op EXCEPT ![t] = rec]
    BY <1>3 DEF Issued
<1>6. lock = t /\ (Negotiates(op[t]) <=> meterLock = t)
    BY <1>1, TypedParts DEF IInv, LocksFit, Active, Negotiates, At
<1>7. MovesTo(t, rec)
  <2>1. Negotiates(rec) <=> Negotiates(op[t])
      BY <1>1, <1>4 DEF Negotiates
  <2>2. meterLock' = meterLock /\ lock' = NoTask
      BY DEF Issued
  <2>3. ~Issues(rec)
      BY <1>4 DEF Issues
  <2> QED BY <1>5, <1>6, <2>1, <2>2, <2>3 DEF MovesTo
<1>8. LocksFit' /\ op'[t] = rec /\ \A u \in Tasks \ {t} : op'[u] = op[u]
    BY <1>4, <1>7, Moving DEF IInv
<1>9. Typed'
  <2>1. ClientFits'
      BY <1>2, TypedParts DEF IInv, ClientFits, Issued
  <2> QED BY <1>8, <2>1, TypedPartsNext
<1>10. Rest'
  <2>1. token' = New(t) /\ expired' = FALSE /\ refused' = FALSE /\ blocked' = blocked
      BY DEF Issued
  <2>2. ASSUME NEW u \in Tasks \ {t}
        PROVE  Caused(op'[u]) /\ Knows(op'[u]) /\ (blocked' => Kept(op'[u]))
    <3>1. op'[u] = op[u]
        BY <1>8
    <3>2. ~Issues(op[u])
      <4>1. lock # u
          BY <1>6
      <4> QED BY <4>1, TypedParts DEF IInv, LocksFit, At, Active, Issues
    <3>3. op[u] # NoTask => op[u].used # New(t)
        BY <1>2 DEF Held, Active
    <3>4. blocked => Kept(op[u])
        BY DEF IInv, BlockedIsEmpty, Kept, Active
    <3>5. op[u] # NoTask /\ op[u].step = "wait" => ~op[u].retry
        BY DEF IInv, RefusalIsKnown, At, Active
    <3> QED BY <2>1, <3>1, <3>2, <3>3, <3>4, <3>5 DEF Caused, Knows
  <2>3. Caused(rec) /\ Knows(rec)
      BY <1>4 DEF Caused, Knows, Issues
  <2>4. blocked' => Kept(rec)
      BY <1>1, <1>4, <2>1 DEF IInv, BlockedIsEmpty, Active, Kept
  <2> QED BY <1>8, <2>2, <2>3, <2>4, RestNext
<1> QED BY <1>9, <1>10 DEF IInv, Rest

LEMMA InvTakeMeterLock == ASSUME IInv, NEW t \in Tasks, TakeMeterLock(t) PROVE IInv'
<1>1. op[t] # NoTask /\ op[t].step = "wait" /\ op[t].phase = "meter" /\ op[t] \in Ops
    BY RunningOp DEF TakeMeterLock, At, Active, IInv
<1>2. ClientFits'
    BY TypedParts DEF IInv, ClientFits, TakeMeterLock, operator, client
<1>3. /\ token' = token /\ expired' = expired /\ refused' = refused /\ blocked' = blocked
      /\ refused \in BOOLEAN
    BY DEF TakeMeterLock, client, IInv, Typed, TypeOK
<1>4. CASE blocked
  <2>1. End(t)
      BY <1>4 DEF TakeMeterLock
  <2> QED BY <1>2, <1>3, <2>1, InvEnd
<1>5. CASE ~blocked
  <2>1. PICK rec : rec = [op[t] EXCEPT !.step = "ensure"]
      OBVIOUS
  <2>2. rec \in Ops /\ rec.step = "ensure" /\ rec.phase = "meter" /\ rec # NoTask
        /\ rec.retry = op[t].retry /\ rec.used = op[t].used
      BY <1>1, <2>1, CabinetClientAssumption DEF Ops, Steps
  <2>3. op' = [op EXCEPT ![t] = rec] /\ meterLock = NoTask /\ meterLock' = t /\ lock' = lock
      BY <1>5, <2>1 DEF TakeMeterLock
  <2>4. lock # t
      BY <1>1, TypedParts DEF IInv, LocksFit, At
  <2>5. MovesTo(t, rec)
      BY <2>2, <2>3, <2>4 DEF MovesTo, Issues, Negotiates
  <2>6. LocksFit' /\ op'[t] = rec /\ \A u \in Tasks \ {t} : op'[u] = op[u]
      BY <2>2, <2>5, Moving DEF IInv
  <2>7. Typed'
      BY <1>2, <2>6, TypedPartsNext
  <2>8. Rest'
    <3>1. \A u \in Tasks \ {t} : Caused(op'[u]) /\ Knows(op'[u]) /\ (blocked' => Kept(op'[u]))
        BY <1>3, <2>6, RestOfOthers DEF IInv, Rest
    <3>2. ~op[t].retry
        BY <1>1 DEF IInv, RefusalIsKnown, At, Active
    <3>3. Caused(rec) /\ Knows(rec)
        BY <2>2, <3>2 DEF Caused, Knows, Issues
    <3> QED BY <3>3, <1>3, <1>5, <2>6, <3>1, <3>2, RestNext
  <2> QED BY <2>7, <2>8 DEF IInv, Rest
<1> QED BY <1>4, <1>5

(* A move that changes neither the token nor the locks.                       *)
LEMMA InvMove ==
    ASSUME IInv, NEW t \in Tasks, NEW rec \in Ops, op' = [op EXCEPT ![t] = rec],
           op[t] # NoTask, ~Issues(op[t]), ~Issues(rec), Negotiates(rec) <=> Negotiates(op[t]),
           UNCHANGED <<lock, meterLock>>, ClientFits', UNCHANGED <<token, expired, blocked>>,
           refused' \in BOOLEAN, refused => refused',
           blocked => Kept(rec), rec.step = "wait" => ~rec.retry,
           rec.step = "ensure" /\ rec.retry /\ rec.used = token /\ token # NoToken => refused'
    PROVE  IInv'
<1>1. rec # NoTask
    BY CabinetClientAssumption
<1>2. lock # t /\ (Negotiates(op[t]) <=> meterLock = t)
    BY TypedParts DEF IInv, LocksFit, Active, Negotiates, At, Issues
<1>3. MovesTo(t, rec)
    BY <1>2 DEF MovesTo
<1>4. LocksFit' /\ op'[t] = rec /\ \A u \in Tasks \ {t} : op'[u] = op[u]
    BY <1>3, Moving DEF IInv
<1>5. Typed'
    BY <1>4, TypedPartsNext
<1>6. \A u \in Tasks \ {t} : Caused(op'[u]) /\ Knows(op'[u]) /\ (blocked' => Kept(op'[u]))
    BY <1>4, RestOfOthers DEF IInv, Rest
<1>7. Caused(rec) /\ Knows(rec)
    BY <1>1 DEF Caused, Knows
<1>8. Rest'
    BY <1>4, <1>6, <1>7, RestNext
<1> QED BY <1>5, <1>8 DEF IInv, Rest

LEMMA InvRefused == ASSUME IInv, NEW t \in Tasks, Refused(t) PROVE IInv'
<1>1. op[t] # NoTask /\ op[t].step = "answer" /\ op[t] \in Ops /\ op[t].phase \in Phases
    BY RunningOp DEF Refused, At, Active, IInv
<1>2. ClientFits' /\ UNCHANGED <<token, expired, blocked>>
    BY TypedParts DEF IInv, ClientFits, Refused, operator, client
<1>3. refused' = (refused \/ op[t].used = token) /\ refused' \in BOOLEAN /\ (refused => refused')
    BY DEF Refused, IInv, Typed, TypeOK
<1> blocked => op[t].phase \notin {"meter", "alternate"}
    BY <1>1 DEF IInv, BlockedIsEmpty, Active
<1>4. CASE op[t].phase = "alternate"
  <2>1. op' = [op EXCEPT ![t] = Recheck] /\ UNCHANGED <<lock, meterLock>>
      BY <1>4 DEF Refused
  <2>2. /\ Recheck \in Ops /\ Recheck.step = "ensure" /\ Recheck.phase = "recheck"
        /\ Recheck.retry = FALSE
    <3>1. "recheck" \in Phases /\ "ensure" \in Steps
        BY DEF Phases, Steps
    <3>2. Recheck = Start("recheck", "ensure")
        BY DEF Recheck
    <3> QED BY <3>1, <3>2, StartIsTyped
  <2>3. Negotiates(Recheck) <=> Negotiates(op[t])
      BY <1>1, <1>4, <2>2, CabinetClientAssumption DEF Negotiates
  <2>4. ~Issues(op[t]) /\ ~Issues(Recheck)
      BY <1>1, <2>2 DEF Issues
  <2> QED BY <1>1, <1>2, <1>3, <2>1, <2>2, <2>3, <2>4, InvMove DEF Kept
<1>5. CASE op[t].phase # "alternate" /\ ~op[t].retry
  <2>1. PICK rec : rec = [op[t] EXCEPT !.step = "ensure", !.retry = TRUE]
      OBVIOUS
  <2>2. op' = [op EXCEPT ![t] = rec] /\ UNCHANGED <<lock, meterLock>>
    <3>1. op' = [op EXCEPT ![t].step = "ensure", ![t].retry = TRUE] /\ UNCHANGED <<lock, meterLock>>
        BY <1>5 DEF Refused
    <3> QED BY <2>1, <3>1 DEF IInv, Typed
  <2>3. /\ rec \in Ops /\ rec.step = "ensure" /\ rec.phase = op[t].phase
        /\ rec.used = op[t].used
      BY <1>1, <2>1 DEF Ops, Steps
  <2>4. Negotiates(rec) <=> Negotiates(op[t])
      BY <1>1, <2>3, CabinetClientAssumption DEF Negotiates
  <2>5. ~Issues(op[t]) /\ ~Issues(rec)
      BY <1>1, <2>3 DEF Issues
  <2> QED BY <1>1, <1>2, <1>3, <2>2, <2>3, <2>4, <2>5, InvMove DEF Kept
<1>6. CASE op[t].phase = "meter" /\ op[t].retry
  <2>1. PICK old : old = [op[t] EXCEPT !.phase = "alternate"]
      OBVIOUS
  <2>2. old \in Ops /\ old.phase = "alternate" /\ token \in Tokens \cup {NoToken}
      BY <1>1, <2>1 DEF Ops, Phases, IInv, Typed, TypeOK
  <2>3. PICK rec : rec = Sent(old, token)
      OBVIOUS
  <2>4. op' = [op EXCEPT ![t] = rec] /\ UNCHANGED <<lock, meterLock>>
      BY <1>6, <2>1, <2>3 DEF Refused
  <2>5. rec \in Ops /\ rec.step = "answer" /\ rec.phase = "alternate"
      BY <2>2, <2>3, SentIsTyped DEF IInv
  <2>6. Negotiates(rec) <=> Negotiates(op[t])
      BY <1>1, <1>6, <2>5, CabinetClientAssumption DEF Negotiates
  <2>7. ~Issues(op[t]) /\ ~Issues(rec)
      BY <1>1, <2>5 DEF Issues
  <2>8. ~blocked
      BY <1>6
  <2> QED BY <1>1, <1>2, <1>3, <2>4, <2>5, <2>6, <2>7, <2>8, InvMove
<1>7. CASE op[t].phase \notin {"meter", "alternate"} /\ op[t].retry
  <2>1. End(t)
      BY <1>7 DEF Refused
  <2> QED BY <1>2, <1>3, <2>1, InvEnd
<1> QED BY <1>4, <1>5, <1>6, <1>7

LEMMA InvAccepted == ASSUME IInv, NEW t \in Tasks, Accepted(t) PROVE IInv'
<1>1. op[t] # NoTask /\ op[t].step = "answer" /\ op[t] \in Ops /\ op[t].phase \in Phases
      /\ op[t].style \in Styles
    BY RunningOp DEF Accepted, At, Active, IInv, Ops
<1>2. UNCHANGED <<token, expired, refused>> /\ refused \in BOOLEAN
      /\ UNCHANGED <<valid, accepts, authenticated, faults>>
    BY DEF Accepted, operator, IInv, Typed, TypeOK
<1>3. CASE op[t].phase = "list"
  <2>1. PICK rec : rec = Start("meter", "wait")
      OBVIOUS
  <2>2. op' = [op EXCEPT ![t] = rec] /\ UNCHANGED <<lock, meterLock, style, blocked>>
      BY <1>3, <2>1 DEF Accepted
  <2>3. rec \in Ops /\ rec.step = "wait" /\ rec.phase = "meter" /\ rec.retry = FALSE
    <3>1. "meter" \in Phases /\ "wait" \in Steps
        BY DEF Phases, Steps
    <3> QED BY <2>1, <3>1, StartIsTyped
  <2>4. ClientFits'
      BY <1>2, <2>2, TypedParts DEF IInv, ClientFits
  <2>5. (Negotiates(rec) <=> Negotiates(op[t])) /\ ~Issues(op[t]) /\ ~Issues(rec)
      BY <1>1, <1>3, <2>3 DEF Negotiates, Issues
  <2> QED BY <1>1, <1>2, <2>2, <2>3, <2>4, <2>5, InvMove DEF Kept
<1>4. CASE op[t].phase # "list"
  <2>1. End(t) /\ style' \in Styles /\ blocked' \in BOOLEAN
        /\ (blocked' => blocked \/ op[t].phase = "recheck")
    <3>1. style \in Styles /\ blocked \in BOOLEAN
        BY DEF IInv, Typed, TypeOK
    <3>2. CASE op[t].phase = "recheck"
        BY <3>1, <3>2 DEF Accepted
    <3>3. CASE op[t].phase = "alternate"
        BY <1>1, <3>1, <3>3 DEF Accepted, Learned
    <3>4. CASE op[t].phase \notin {"recheck", "alternate"}
        BY <1>4, <3>1, <3>4 DEF Accepted
    <3> QED BY <3>2, <3>3, <3>4
  <2>2. ClientFits'
      BY <1>2, <2>1, TypedParts DEF IInv, ClientFits
  <2>3. blocked' => blocked \/ Negotiates(op[t])
      BY <1>1, <2>1 DEF Negotiates
  <2> QED BY <1>2, <2>1, <2>2, <2>3, InvEnd
<1> QED BY <1>3, <1>4

LEMMA InvOutside ==
    ASSUME IInv, Revoke \/ ChangeStyle \/ Expire \/ Unblock \/ UNCHANGED vars
    PROVE  IInv'
<1>1. LocksFit'
  <2>1. LocksFit /\ UNCHANGED <<op, lock, meterLock>>
      BY TypedParts DEF IInv, Revoke, ChangeStyle, Expire, Unblock, vars
  <2> QED BY <2>1 DEF LocksFit, At, Active
<1>2. ClientFits'
  <2>1. ClientFits
      BY TypedParts DEF IInv
  <2>2. CASE Revoke
      BY <2>1, <2>2, CabinetClientAssumption DEF ClientFits, Revoke, Fault, client
  <2>3. CASE ChangeStyle
      BY <2>1, <2>3 DEF ClientFits, ChangeStyle, client
  <2>4. CASE Expire \/ Unblock
      BY <2>1, <2>4 DEF ClientFits, Expire, Unblock, operator
  <2>5. CASE UNCHANGED vars
      BY <2>1, <2>5 DEF ClientFits, vars, operator, client
  <2> QED BY <2>2, <2>3, <2>4, <2>5
<1>3. /\ UNCHANGED <<op, token, refused>> /\ (expired => expired') /\ (blocked' => blocked)
      /\ blocked' \in BOOLEAN /\ expired' \in BOOLEAN
    BY <1>2 DEF Revoke, ChangeStyle, Expire, Unblock, vars, client, ClientFits
<1>4. IssuedForCause' /\ RefusalIsKnown' /\ BlockedIsEmpty'
    BY <1>3 DEF IInv, IssuedForCause, RefusalIsKnown, BlockedIsEmpty, At, Active
<1> QED BY <1>1, <1>2, <1>4, TypedPartsNext DEF IInv

LEMMA Preserved == IInv /\ [Next]_vars => IInv'
<1> SUFFICES ASSUME IInv, [Next]_vars PROVE IInv'
    OBVIOUS
<1>1. CASE Revoke \/ ChangeStyle \/ Expire \/ Unblock \/ UNCHANGED vars
    BY <1>1, InvOutside
<1>2. ASSUME NEW t \in Tasks, Begin(t) \/ Break(t) \/ Progress(t) PROVE IInv'
    BY <1>2, InvBegin, InvBreak, InvLogin, InvEnsure, InvIssued, InvTakeMeterLock,
       InvRefused, InvAccepted DEF Progress
<1> QED BY <1>1, <1>2 DEF Next

LEMMA Initial == Init => IInv
<1> SUFFICES ASSUME Init PROVE IInv
    OBVIOUS
<1>1. \A t \in Tasks : op[t] = NoTask
    BY DEF Init
<1>2. Typed
  <2>1. op \in [Tasks -> Ops \cup {NoTask}]
      BY DEF Init
  <2>2. \A t \in Tasks : lock # t /\ meterLock # t
      BY CabinetClientAssumption DEF Init
  <2>3. LocksFit
      BY <1>1, <2>1, <2>2 DEF LocksFit, At, Active
  <2>4. ClientFits
    <3>1. faults \in 0..MaxFaults
        BY CabinetClientAssumption DEF Init
    <3>2. {authenticated, expired, blocked, refused} \subseteq BOOLEAN
        BY Zenon DEF Init
    <3> QED BY <3>1, <3>2 DEF Init, ClientFits, Styles
  <2> QED BY <2>3, <2>4, TypedParts
<1>3. IssuedForCause /\ RefusalIsKnown /\ BlockedIsEmpty
    BY <1>1 DEF Init, IssuedForCause, RefusalIsKnown, BlockedIsEmpty, At, Active
<1> QED BY <1>2, <1>3 DEF IInv

(* The two locks are held by exactly those who issue a token, and by exactly  *)
(* those who negotiate with the meters' service, in every phase of it         *)
(* (account_client.py:296, :319).                                             *)
THEOREM LocksAreHeld == Spec => []TypeOK
<1>1. IInv => TypeOK
    BY DEF IInv, Typed
<1> QED BY Initial, Preserved, <1>1, PTL DEF Spec

(* Every step replaces a token only if it has expired or was refused, and     *)
(* sends no request of a blocked route (account_client.py:302, :318-321).     *)
THEOREM RefusalsAreKept == Spec => RefusalsAreHeeded
<1> DEFINE Renewal == token' \in Tokens \ {token} /\ token # NoToken => expired \/ refused
           Quiet == \A t \in Tasks :
                      blocked => ~(Active(t)' /\ op'[t].phase \in {"meter", "alternate"}
                                   /\ At(t, "answer")' /\ op'[t] # op[t])
<1>1. ASSUME IInv, [Next]_vars PROVE Renewal
  <2>1. token' = token \/ token' = NoToken \/ \E t \in Tasks : Issued(t)
      BY <1>1 DEF Next, vars, client, Revoke, ChangeStyle, Expire, Unblock, Begin, Break, Progress,
                Login, Ensure, TakeMeterLock, Refused, Accepted
  <2>2. CASE \E t \in Tasks : Issued(t)
      BY <1>1, <2>2 DEF Issued, IInv, IssuedForCause
  <2> QED BY <2>1, <2>2, CabinetClientAssumption
<1>2. ASSUME IInv, [Next]_vars PROVE Quiet
  <2>1. SUFFICES ASSUME NEW t \in Tasks, blocked, op'[t] # op[t], op'[t] # NoTask,
                        op'[t].step = "answer", op'[t].phase \in {"meter", "alternate"}
                 PROVE  FALSE
      BY DEF At, Active
  <2>2. op[t] # NoTask /\ op[t].phase \in {"meter", "alternate"} => op[t].step = "wait"
      BY <1>2, <2>1 DEF IInv, BlockedIsEmpty, Active
  <2>3. PICK u \in Tasks : Begin(u) \/ Break(u) \/ Progress(u)
    <3>1. ~(Revoke \/ ChangeStyle \/ Expire \/ Unblock \/ UNCHANGED vars)
        BY <2>1 DEF Revoke, ChangeStyle, Expire, Unblock, vars
    <3> QED BY <1>2, <3>1 DEF Next
  <2>4. u = t
    <3>1. \E rec : op' = [op EXCEPT ![u] = rec]
      <4>1. CASE Begin(u) \/ Break(u)
          BY <4>1 DEF Begin, Break, End
      <4>2. CASE Login(u) \/ Ensure(u) \/ Issued(u)
          BY <4>2, <1>2 DEF Login, Ensure, Issued, IInv, Typed
      <4>3. CASE TakeMeterLock(u) \/ Accepted(u)
          BY <4>3, <1>2 DEF TakeMeterLock, Accepted, End, IInv, Typed
      <4>4. CASE Refused(u)
          BY <4>4, <1>2 DEF Refused, End, IInv, Typed
      <4> QED BY <2>3, <4>1, <4>2, <4>3, <4>4 DEF Progress
    <3> QED BY <1>2, <2>1, <3>1 DEF IInv, Typed
  <2>5. CASE Begin(t) \/ Break(t) \/ Login(t)
    <3>1. CASE Begin(t)
        BY <1>2, <2>1, <3>1 DEF Begin, Start, IInv, Typed
    <3>2. CASE Break(t)
        BY <1>2, <2>1, <3>2 DEF Break, End, IInv, Typed
    <3>3. CASE Login(t)
      <4>1. op[t] \in Ops
          BY <1>2, <3>3, RunningOp DEF Login, At, Active, IInv
      <4>2. op'[t] = [op[t] EXCEPT !.step = "issue"]
          BY <1>2, <3>3 DEF Login, IInv, Typed
      <4> QED BY <2>1, <4>1, <4>2 DEF Ops
    <3> QED BY <2>5, <3>1, <3>2, <3>3
  <2>6. CASE Ensure(t) \/ Issued(t)
    <3>1. op[t] \in Ops /\ op[t].step \in {"ensure", "issue"} /\ op[t] # NoTask
        BY <1>2, <2>6, RunningOp DEF Ensure, Issued, At, Active, IInv
    <3>2. New(t) \in Tokens \cup {NoToken} /\ token \in Tokens \cup {NoToken}
        BY <1>2, FreeTokens DEF IInv, Typed, TypeOK
    <3>3. \/ op'[t] = [op[t] EXCEPT !.step = "issue"]
          \/ op'[t] = Sent(op[t], token) \/ op'[t] = Sent(op[t], New(t))
          \/ op'[t] = Start("list", "ensure")
        BY <1>2, <2>6 DEF Ensure, Issued, IInv, Typed
    <3>4. op'[t] # [op[t] EXCEPT !.step = "issue"]
        BY <2>1, <3>1 DEF Ops
    <3>5. op'[t] # Start("list", "ensure")
        BY <2>1 DEF Start
    <3>6. op'[t].phase = op[t].phase
        BY <1>2, <3>1, <3>2, <3>3, <3>4, <3>5, SentIsTyped DEF IInv
    <3> QED BY <2>1, <2>2, <3>1, <3>6
  <2>7. CASE TakeMeterLock(t) \/ Accepted(t)
    <3>1. op[t] \in Ops
        BY <1>2, <2>7, RunningOp DEF TakeMeterLock, Accepted, At, Active, IInv
    <3>2. CASE TakeMeterLock(t)
      <4>1. op'[t] = NoTask \/ op'[t] = [op[t] EXCEPT !.step = "ensure"]
          BY <1>2, <3>2 DEF TakeMeterLock, End, IInv, Typed
      <4> QED BY <2>1, <3>1, <4>1 DEF Ops
    <3>3. CASE Accepted(t)
      <4>1. op'[t] = NoTask \/ op'[t] = Start("meter", "wait")
          BY <1>2, <3>3 DEF Accepted, End, IInv, Typed
      <4> QED BY <2>1, <4>1 DEF Start
    <3> QED BY <2>7, <3>2, <3>3
  <2>8. CASE Refused(t)
    <3>1. op[t] \in Ops /\ op[t].step = "answer" /\ op[t] # NoTask
        BY <1>2, <2>8, RunningOp DEF Refused, At, Active, IInv
    <3>2. op[t].phase \notin {"meter", "alternate"}
        BY <2>2, <3>1
    <3>3. op'[t] = NoTask \/ op'[t] = [op[t] EXCEPT !.step = "ensure", !.retry = TRUE]
      <4>1. CASE ~op[t].retry
        <5>1. op' = [op EXCEPT ![t].step = "ensure", ![t].retry = TRUE]
            BY <2>8, <3>2, <4>1 DEF Refused
        <5> QED BY <1>2, <5>1 DEF IInv, Typed
      <4>2. CASE op[t].retry
        <5>1. End(t)
            BY <2>8, <3>2, <4>2 DEF Refused
        <5> QED BY <1>2, <5>1 DEF End, IInv, Typed
      <4> QED BY <4>1, <4>2
    <3> QED BY <2>1, <3>1, <3>3 DEF Ops
  <2> QED BY <2>3, <2>4, <2>5, <2>6, <2>7, <2>8 DEF Progress
<1>3. IInv /\ [Next]_vars => [Renewal /\ Quiet]_vars
    BY <1>1, <1>2
<1> QED BY Initial, Preserved, <1>3, PTL DEF Spec, RefusalsAreHeeded
===============================================================================
