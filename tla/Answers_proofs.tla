---------------------------- MODULE Answers_proofs -----------------------------
(* Proofs about Submissions and AddressCoordinator, the two components that   *)
(* conclude something from the answers of servers, for every value of the     *)
(* constants: what the journal, the drafts and the barrier of submissions     *)
(* promise, and what the address shows and reports.                           *)
EXTENDS MCAnswers, FiniteSetTheorems, SequenceTheorems, TLAPS

(* A family of sets that has the empty set, and each set whose subsets with   *)
(* one element less it has, has every finite set.                             *)
LEMMA SubsetInduction ==
    ASSUME NEW S, IsFiniteSet(S), NEW Q, {} \in Q,
           \A s \in SUBSET S : (s # {} /\ \A x \in s : s \ {x} \in Q) => s \in Q
    PROVE  S \in Q
<1> DEFINE T == {s \in SUBSET S : s \notin Q}
           R == StrictSubsetOrdering(S)
<1>1. IsWellFoundedOn(R, SUBSET S)
    BY FS_StrictSubsetOrderingWellFounded, FS_FiniteSubsetsOfFinite
<1>2. SUFFICES ASSUME T # {} PROVE FALSE
    OBVIOUS
<1>3. T \subseteq SUBSET S
    OBVIOUS
<1>4. PICK s \in T : \A u \in T : <<u, s>> \notin R
  <2> HIDE DEF T, R
  <2> QED BY <1>1, <1>2, <1>3, WFMin
<1>5. PICK x \in s : s \ {x} \notin Q
    OBVIOUS
<1>6. s \ {x} \in T
    BY <1>5
<1>7. <<s \ {x}, s>> \in R
    BY <1>5 DEF StrictSubsetOrdering
<1> QED BY <1>4, <1>6, <1>7

(* The element that the folds of the community modules choose.                *)
Pick(s) == CHOOSE x \in s : TRUE

(* A nonempty set of naturals has a least element.                            *)
LEMMA NatMin ==
    ASSUME NEW N, N \subseteq Nat, N # {}
    PROVE  \E m \in N : \A n \in N : m <= n
<1>1. PICK b \in N : TRUE
    OBVIOUS
<1> DEFINE Q == {s \in SUBSET (0..b) : s \cap N = {} \/ \E m \in s \cap N : \A n \in s \cap N : m <= n}
<1>2. IsFiniteSet(0..b)
    BY FS_Interval
<1>3. ASSUME NEW s \in SUBSET (0..b), s # {}, \A x \in s : s \ {x} \in Q
      PROVE  s \in Q
  <2>1. PICK x \in s : TRUE
      BY <1>3
  <2>2. x \in Nat /\ s \ {x} \in Q
      BY <1>3
  <2> QED BY <2>1, <2>2
<1>4. 0..b \in Q
  <2>1. {} \in Q
      OBVIOUS
  <2> HIDE DEF Q
  <2> QED BY <1>2, <1>3, <2>1, SubsetInduction
<1> QED BY <1>1, <1>4

(* f folds every subset of S.                                                 *)
IsFold(f, S, base, op) ==
    \A s \in SUBSET S : f[s] = IF s = {} THEN base ELSE op[Pick(s), f[s \ {Pick(s)}]]

(* Such an f exists whatever is folded: it is built for sets of 0, 1, 2, ...  *)
(* elements. So the CHOOSE by which a fold is defined does choose one.        *)
LEMMA FoldExists ==
    ASSUME NEW S, IsFiniteSet(S), NEW B, NEW base \in B, NEW op \in [S \X B -> B]
    PROVE  \E f \in [SUBSET S -> B] : IsFold(f, S, base, op)
<1> DEFINE Low(n) == {s \in SUBSET S : Cardinality(s) <= n}
           Def(s, f) == IF s = {} THEN base ELSE op[Pick(s), f[s \ {Pick(s)}]]
           Good(n) == \E f \in [Low(n) -> B] : \A s \in Low(n) : f[s] = Def(s, f)
           Bad == {n \in Nat : ~Good(n)}
<1>1. \A s \in SUBSET S : s # {} =>
         /\ Pick(s) \in s /\ s \ {Pick(s)} \in SUBSET S
         /\ Cardinality(s) \in Nat \ {0}
         /\ Cardinality(s \ {Pick(s)}) = Cardinality(s) - 1
  <2> TAKE s \in SUBSET S
  <2> HAVE s # {}
  <2>1. Pick(s) \in s
      BY DEF Pick
  <2>2. IsFiniteSet(s)
      BY FS_Subset
  <2>3. Cardinality(s) \in Nat /\ Cardinality(s) # 0
      BY <2>2, FS_CardinalityType, FS_EmptySet
  <2> QED BY <2>1, <2>2, <2>3, FS_RemoveElement
<1>0. \A s \in SUBSET S : Cardinality(s) \in Nat
    BY FS_Subset, FS_CardinalityType
<1>2. Good(0)
  <2>1. \A s \in Low(0) : s = {}
    <3> TAKE s \in Low(0)
    <3>1. s \in SUBSET S /\ Cardinality(s) <= 0
        OBVIOUS
    <3>2. s # {} => Cardinality(s) \in Nat \ {0}
        BY <1>1, <3>1
    <3> HIDE DEF Low
    <3> QED BY <3>1, <3>2
  <2> DEFINE f == [s \in Low(0) |-> base]
  <2>2. f \in [Low(0) -> B] /\ \A s \in Low(0) : f[s] = Def(s, f)
      BY <2>1
  <2> QED BY <2>2
<1>3. ASSUME NEW n \in Nat, Good(n)
      PROVE  Good(n + 1)
  <2>1. PICK f \in [Low(n) -> B] : \A s \in Low(n) : f[s] = Def(s, f)
      BY <1>3
  <2> DEFINE g == [s \in Low(n + 1) |-> Def(s, f)]
  <2>2. \A s \in Low(n + 1) : s # {} => Pick(s) \in S /\ s \ {Pick(s)} \in Low(n)
      BY <1>1
  <2>3. Low(n) \subseteq Low(n + 1)
    <3>1. \A s \in SUBSET S : Cardinality(s) <= n => Cardinality(s) <= n + 1
        BY <1>0
    <3> QED BY <3>1
  <2>4. g \in [Low(n + 1) -> B]
    <3>1. \A s \in Low(n + 1) : Def(s, f) \in B
        BY <2>2, <2>1
    <3> HIDE DEF Low, Def
    <3> QED BY <3>1
  <2>5. \A s \in Low(n) : g[s] = f[s]
    <3> HIDE DEF Low, Def
    <3> QED BY <2>1, <2>3
  <2>6. \A s \in Low(n + 1) : g[s] = Def(s, g)
    <3> TAKE s \in Low(n + 1)
    <3>1. g[s] = Def(s, f)
        OBVIOUS
    <3>2. s # {} => g[s \ {Pick(s)}] = f[s \ {Pick(s)}]
        BY <2>2, <2>5
    <3> HIDE DEF g, Low
    <3> QED BY <3>1, <3>2
  <2> HIDE DEF g, Low, Def
  <2> QED BY <2>4, <2>6
<1>4. \A n \in Nat : Good(n)
  <2>1. Bad \subseteq Nat
      OBVIOUS
  <2>2. SUFFICES ASSUME Bad # {} PROVE FALSE
      OBVIOUS
  <2>3. PICK m \in Bad : \A n \in Bad : m <= n
    <3> HIDE DEF Bad
    <3> QED BY <2>1, <2>2, NatMin
  <2> HIDE DEF Good
  <2>4. m # 0 /\ m - 1 \notin Bad /\ m \in Nat
      BY <1>2, <2>3
  <2>5. m - 1 \in Nat /\ Good(m - 1)
      BY <2>4
  <2>6. Good((m - 1) + 1)
      BY <2>5, <1>3
  <2> QED BY <2>6, <2>4, <2>3
<1>5. Low(Cardinality(S)) = SUBSET S /\ Cardinality(S) \in Nat
    BY FS_Subset, FS_CardinalityType
<1> HIDE DEF Low
<1>6. Good(Cardinality(S))
    BY <1>4, <1>5
<1> QED BY <1>5, <1>6 DEF IsFold

-------------------------------------------------------------------------------
(* A program may conclude nothing but one of four statuses from a reply.      *)
LEMMA ConclusionsType ==
    \A o \in Outcomes : Conclusions[o] \subseteq {"unknown", "accepted", "rejected", "partial"}
<1> SUFFICES ASSUME NEW o \in Outcomes, NEW v \in Conclusions[o]
             PROVE  v \in {"unknown", "accepted", "rejected", "partial"}
    OBVIOUS
<1>1. PICK payload \in {p \in Payloads : Honest(p, o)}, asked \in BOOLEAN :
          v = Verdict(payload, asked)
    BY DEF Conclusions
<1>2. SubmissionResult(payload) \in {"unknown", "accepted", "rejected", "partial"}
    BY DEF SubmissionResult
<1> QED BY <1>1, <1>2 DEF Verdict

-------------------------------------------------------------------------------
(* What the phase says of the other variables of the task that holds the lock.*)
Shape ==
    /\ phase # "free" => journal # NotLoaded
    /\ Saving => target # NotLoaded
    /\ phase \in {"source", "pending", "token", "post"} => task # NoTask
    /\ phase \in {"pending", "token", "post"} =>
          record.id \in Ids /\ record.status = "pending"
    /\ cancelled => Saving
    /\ entry = "unloaded" => phase = "free"
    /\ phase \in {"free", "recording"} => task = NoTask

Typed == TypeOK /\ Shape

LEMMA SignatureType ==
    ASSUME NEW d \in Drafts
    PROVE  Signature(d.context, d.readings) \in [day : {c.day : c \in Contexts},
                                                 readings : Readings]
BY DEF Drafts, Signature

LEMMA EvictKeepsOld ==
    \A pool, photos : Evict(pool, photos) \subseteq pool
BY DEF Evict

LEMMA TypedInit == Init => Typed
<1> SUFFICES ASSUME Init PROVE Typed
    OBVIOUS
<1>1. NoRecord \in Records
    BY DEF NoRecord, Records, Statuses
<1>2. disk \in Journals
    BY <1>1 DEF Init, Journals
<1> QED BY <1>1, <1>2 DEF Init, Typed, TypeOK, Shape, Phases, Saving

LEMMA TypedNext == Typed /\ [Next]_vars => Typed'
<1> SUFFICES ASSUME Typed, [Next]_vars PROVE Typed'
    OBVIOUS
<1> USE NoneAssumption DEF Typed, TypeOK, Shape, Saving, hostVars, draftVars, writeVars,
                           worldVars, taskVars, vars
<1>1. CASE LastAttempt
    BY <1>1 DEF LastAttempt, Loaded, MayEnter
<1>2. CASE Inspect
    BY <1>2 DEF Inspect, Loaded, MayEnter, Phases
<1>3. CASE ExpireDraft
    BY <1>3 DEF ExpireDraft
<1>4. CASE Prepare
  <2>1. PICK request \in Requests : PrepareBegin(request)
      BY <1>4 DEF Prepare
  <2>2. request \in Drafts
      BY DEF Requests, Drafts
  <2> QED BY <2>1, <2>2 DEF PrepareBegin, Loaded, MayEnter, Phases
<1>5. CASE Confirm
  <2>1. PICK draft \in drafts : ConfirmBegin(draft)
      BY <1>5 DEF Confirm
  <2> QED BY <2>1 DEF ConfirmBegin, Loaded, MayEnter, Phases
<1>6. CASE Unlock
  <2>1. PICK user \in Users, number \in Accounts, id \in Ids : Acknowledge(user, number, id)
      BY <1>6 DEF Unlock
  <2>2. Loaded \in Journals /\ Loaded # NotLoaded
      BY DEF Loaded
  <2>3. [Loaded[number] EXCEPT !.status = "acknowledged"] \in Records
      BY <2>2 DEF Journals, Records, Statuses
  <2>4. [Loaded EXCEPT ![number] = [Loaded[number] EXCEPT !.status = "acknowledged"]] \in Journals
      BY <2>2, <2>3 DEF Journals
  <2>5. NoRecord \in Records
      BY DEF NoRecord, Records, Statuses
  <2> QED BY <2>1, <2>2, <2>4, <2>5 DEF Acknowledge, SaveLast, Phases, MayEnter
<1>7. CASE Proceed
  <2>0. NoRecord \in Records
      BY DEF NoRecord, Records, Statuses
  <2>1. ASSUME Draft, Preparing PROVE Typed'
    <3>1. [task EXCEPT !.token = nextToken] \in Drafts
        BY <2>1 DEF Drafts, Preparing
    <3>2. drafts' \subseteq Drafts
        BY <2>1, <3>1, EvictKeepsOld DEF Draft
    <3>3. /\ phase' = "free" /\ task' = NoTask /\ record' = NoRecord
          /\ cancelled' = FALSE /\ target' = NotLoaded /\ landed' = FALSE
          /\ nextToken' \in Nat
          /\ UNCHANGED <<hostVars, journal, orphans, disk, images, nextId, worldVars>>
        BY <2>1 DEF Draft, Release
    <3> QED BY <2>0, <3>2, <3>3 DEF Phases
  <2>2. ASSUME Attempt, Confirming, phase # "free" PROVE Typed'
    <3> DEFINE rec == [id |-> nextId, status |-> "pending",
                       signature |-> Signature(task.context, task.readings)]
    <3>1. task \in Drafts /\ task.number \in Accounts
        BY <2>2 DEF Confirming, Drafts
    <3>2. rec \in Records /\ rec.id \in Ids /\ rec.status = "pending"
        BY <2>2, <3>1, SignatureType DEF Attempt, Records, Statuses, Ids
    <3>3. [journal EXCEPT ![task.number] = rec] \in Journals
        BY <2>2, <3>2 DEF Journals
    <3> HIDE DEF rec
    <3>4. /\ phase' = "pending" /\ record' = rec /\ landed' = FALSE
          /\ target' = [journal EXCEPT ![task.number] = rec]
          /\ UNCHANGED <<task, cancelled>> /\ nextId' \in Nat
          /\ UNCHANGED <<hostVars, draftVars, journal, orphans, disk, images, worldVars>>
        BY <2>2 DEF Attempt, SavePending, rec
    <3>5. journal \in Journals /\ target' \in Journals /\ target' # NotLoaded /\ task # NoTask
        BY <2>2, <3>1, <3>3, <3>4
    <3>6. Shape'
        BY <2>2, <3>2, <3>4, <3>5
    <3>7. TypeOK'
        BY <3>2, <3>4, <3>5 DEF Phases
    <3> QED BY <3>6, <3>7
  <2>3. ASSUME NEW rec \in Records, phase \in {"token", "post"},
               SaveLast(journal, task.number, rec),
               UNCHANGED <<hostVars, draftVars, journal, orphans, disk, images, nextId,
                           posted, outcome>>,
               settled' \subseteq settled \cup {record.id}
        PROVE  Typed'
    <3>1. [journal EXCEPT ![task.number] = rec] \in Journals
        BY <2>3 DEF Journals
    <3> QED BY <2>0, <2>3, <3>1 DEF SaveLast, Phases
  <2>4. CASE PrepareRead
      BY <2>1, <2>4 DEF PrepareRead
  <2>5. CASE ConfirmRead
      BY <2>2, <2>5 DEF ConfirmRead
  <2>6. CASE ReadThenSource
      BY <2>6 DEF ReadThenSource, Phases
  <2>7. CASE SourceHolds
      BY <2>1, <2>2, <2>7 DEF SourceHolds
  <2>8. CASE GiveUp
      BY <2>0, <2>8 DEF GiveUp, Release, Phases
  <2>9. CASE WriteLands
      BY <2>9 DEF WriteLands
  <2>10. CASE SaveReturns
      BY <2>0, <2>10 DEF SaveReturns, Release, Phases
  <2>11. CASE SaveRaises
      BY <2>0, <2>11 DEF SaveRaises, Release, Phases
  <2>12. CASE Post
      BY <2>12 DEF Post, Phases
  <2>13. CASE Refuse
    <3>1. [record EXCEPT !.status = "not_sent"] \in Records
        BY DEF Records, Statuses
    <3> QED BY <2>3, <2>13, <3>1 DEF Refuse
  <2>14. CASE TokenFails
    <3>1. [record EXCEPT !.status = "unknown"] \in Records
        BY DEF Records, Statuses
    <3> QED BY <2>3, <2>14, <3>1 DEF TokenFails
  <2>15. CASE ReplyArrives
    <3>1. outcome[record.id] \in Outcomes
        BY <2>15 DEF ReplyArrives
    <3>2. PICK verdict \in Conclusions[outcome[record.id]] :
              /\ SaveLast(journal, task.number, [record EXCEPT !.status = verdict])
              /\ settled' = IF verdict \in {"accepted", "rejected"}
                            THEN settled \cup {record.id} ELSE settled
        BY <2>15 DEF ReplyArrives
    <3>3. [record EXCEPT !.status = verdict] \in Records
        BY <3>1, <3>2, ConclusionsType DEF Records, Statuses
    <3> QED BY <2>3, <2>15, <3>2, <3>3 DEF ReplyArrives
  <2>16. CASE ReplyLost
    <3>1. [record EXCEPT !.status = "unknown"] \in Records
        BY DEF Records, Statuses
    <3> QED BY <2>3, <2>16, <3>1 DEF ReplyLost
  <2> QED BY <1>7, <2>4, <2>5, <2>6, <2>7, <2>8, <2>9, <2>10, <2>11, <2>12, <2>13, <2>14,
             <2>15, <2>16 DEF Proceed
<1>8. CASE Environment
  <2>0. NoRecord \in Records
      BY DEF NoRecord, Records, Statuses
  <2>1. CASE CabinetHandles
      BY <2>1 DEF CabinetHandles
  <2>2. CASE Cancel
      BY <2>0, <2>2 DEF Cancel, Release, Phases
  <2>3. CASE CancelAgain
      BY <2>0, <2>3 DEF CancelAgain, Release, Phases
  <2>4. CASE OrphanLands
      BY <2>4 DEF OrphanLands
  <2>5. CASE Crash
      BY <2>0, <2>5 DEF Crash, Restart, Release, Phases
  <2>6. CASE PowerFails
      BY <2>0, <2>6 DEF PowerFails, Restart, Release, Phases
  <2>7. CASE Authorize \/ Relink
      BY <2>7 DEF Authorize, Relink
  <2>8. CASE BeginUnload \/ BeginClose \/ FinishClose
      BY <2>8 DEF BeginUnload, BeginClose, FinishClose
  <2>9. CASE SetUp
      BY <2>9 DEF SetUp
  <2> QED BY <1>8, <2>1, <2>2, <2>3, <2>4, <2>5, <2>6, <2>7, <2>8, <2>9 DEF Environment
<1>9. CASE UNCHANGED vars
    BY <1>9
<1> QED BY <1>1, <1>2, <1>3, <1>4, <1>5, <1>6, <1>7, <1>8, <1>9 DEF Next

(* The journals, records and drafts keep their shape in every reachable state.*)
THEOREM Typing == Spec => []TypeOK
<1>1. Typed => TypeOK
    BY DEF Typed
<1> QED BY <1>1, TypedInit, TypedNext, PTL DEF Spec

-------------------------------------------------------------------------------
(* The invariant behind the barrier, while no write outlives its lock.        *)

(* Attempt numbers are handed out in order and none is sent twice; the one    *)
(* about to be sent is neither sent nor settled.                              *)
Fresh ==
    /\ orphans = {}
    /\ nextId > 0
    /\ \A post \in posted : post.id < nextId
    /\ \A id \in settled : id < nextId
    /\ \A number \in Accounts :
          /\ disk[number].id < nextId
          /\ \A image \in images : image[number].id < nextId
          /\ journal # NotLoaded => journal[number].id < nextId
          /\ target # NotLoaded => target[number].id < nextId
    /\ phase \in {"pending", "token", "post"} => record.id < nextId
    /\ phase \in {"pending", "token"} =>
          record.id \notin settled /\ \A post \in posted : post.id # record.id
    /\ \A one, other \in posted : one.id = other.id => one = other

(* Every attempt of the account is settled.                                   *)
Quiet(number) ==
    \A post \in posted : post.draft.number = number => post.id \in settled

Barred ==
    /\ DurableBarrier
    /\ Saving => Guards(target)
    /\ Saving /\ landed => disk = target
    /\ phase = "pending" => target[task.number] = record
    /\ phase \in {"reading", "source", "pending", "token"} /\ task # NoTask =>
          Quiet(task.number)
    /\ phase = "token" =>
          /\ journal[task.number] = record /\ disk[task.number] = record
          /\ \A image \in images : image[task.number] = record
    /\ phase = "post" =>
          \A post \in posted :
              post.draft.number = task.number /\ post.id \notin settled => post.id = record.id

IInv == Typed /\ Fresh /\ Barred

LEMMA FreshInit == Init => Fresh
BY NoneAssumption DEF Init, Fresh, NoRecord

(* One step keeps the numbering, action by action.                            *)
LEMMA FreshNext ==
    ASSUME Typed, Typed', Fresh, [Next]_vars, ~RepeatedCancel
    PROVE  Fresh'
<1> USE NoneAssumption DEF Fresh, hostVars, draftVars, writeVars, worldVars, taskVars, vars
<1>0. /\ disk \in Journals /\ (journal # NotLoaded => journal \in Journals)
      /\ (target # NotLoaded => target \in Journals) /\ images \subseteq Journals
      /\ record \in Records /\ nextId \in Nat /\ posted \subseteq [id : Ids, draft : Drafts]
      /\ settled \subseteq Ids /\ (task # NoTask => task \in Drafts)
      /\ (phase # "free" => journal # NotLoaded)
    BY DEF Typed, TypeOK, Shape
<1>a. /\ Loaded \in Journals /\ Loaded # NotLoaded
      /\ \A number \in Accounts : Loaded[number].id < nextId
    BY <1>0 DEF Loaded
<1>b. NoRecord.id = 0
    BY DEF NoRecord
<1>c. \A j \in Journals, n \in Accounts : j[n].id \in Nat
    BY DEF Journals, Records
<1>1. CASE LastAttempt
    BY <1>1, <1>a DEF LastAttempt
<1>2. CASE Inspect
    BY <1>2, <1>a DEF Inspect
<1>3. CASE ExpireDraft
    BY <1>3 DEF ExpireDraft
<1>4. CASE Prepare
    BY <1>4, <1>a DEF Prepare, PrepareBegin
<1>5. CASE Confirm
    BY <1>5, <1>a DEF Confirm, ConfirmBegin, MayEnter
<1>6. CASE Unlock
  <2>1. PICK user \in Users, number \in Accounts, id \in Ids : Acknowledge(user, number, id)
      BY <1>6 DEF Unlock
  <2> DEFINE rec == [Loaded[number] EXCEPT !.status = "acknowledged"]
  <2>2. rec.id = Loaded[number].id /\ id = Loaded[number].id
      BY <2>1, <1>a DEF Acknowledge, Journals, Records
  <2>3. \A n \in Accounts : [Loaded EXCEPT ![number] = rec][n].id < nextId
      BY <2>2, <1>a DEF Journals
  <2> QED BY <2>1, <2>2, <2>3, <1>a, <1>0 DEF Acknowledge, SaveLast
<1>7. CASE Proceed
  <2>1. ASSUME NEW rec, rec.id = record.id, phase \in {"token", "post"},
               SaveLast(journal, task.number, rec),
               UNCHANGED <<hostVars, draftVars, journal, orphans, disk, images, nextId,
                           posted, outcome>>,
               settled' \subseteq settled \cup {record.id}
        PROVE  Fresh'
    <3>1. \A n \in Accounts : [journal EXCEPT ![task.number] = rec][n].id < nextId
        BY <2>1, <1>0 DEF Journals
    <3> QED BY <2>1, <3>1, <1>0 DEF SaveLast
  <2>2. CASE PrepareRead \/ (phase = "source" /\ Draft) \/ GiveUp \/ SaveRaises
      BY <2>2, <1>0 DEF PrepareRead, Draft, GiveUp, SaveRaises, Release
  <2>3. CASE ConfirmRead \/ (phase = "source" /\ Attempt)
    <3> DEFINE rec == [id |-> nextId, status |-> "pending",
                       signature |-> Signature(task.context, task.readings)]
    <3>1. /\ phase' = "pending" /\ record' = rec /\ landed' = FALSE
          /\ target' = [journal EXCEPT ![task.number] = rec] /\ nextId' = nextId + 1
          /\ UNCHANGED <<journal, orphans, disk, images, worldVars>>
        BY <2>3 DEF ConfirmRead, Attempt, SavePending
    <3>2. rec.id = nextId
        OBVIOUS
    <3> HIDE DEF rec
    <3>3. \A n \in Accounts : journal[n].id < nextId /\ journal \in Journals
        BY <2>3, <1>0 DEF ConfirmRead
    <3>4. nextId < nextId' /\ \A x \in Nat : x < nextId => x < nextId'
        BY <3>1, <1>0
    <3>5. \A n \in Accounts : target'[n].id < nextId'
        BY <3>1, <3>2, <3>3, <3>4, <1>c DEF Journals
    <3>6. \A n \in Accounts : /\ disk[n].id < nextId' /\ journal[n].id < nextId'
                              /\ \A image \in images : image[n].id < nextId'
        BY <3>3, <3>4, <1>0, <1>c
    <3>7. /\ \A post \in posted : post.id < nextId' /\ post.id # nextId
          /\ \A id \in settled : id < nextId' /\ id # nextId
        BY <3>4, <1>0 DEF Ids
    <3> QED BY <3>1, <3>2, <3>4, <3>5, <3>6, <3>7, <1>0
  <2>4. CASE ReadThenSource
      BY <2>4 DEF ReadThenSource
  <2>5. CASE WriteLands
      BY <2>5, <1>0 DEF WriteLands, Typed, Shape
  <2>6. CASE SaveReturns
      BY <2>6, <1>0 DEF SaveReturns, Release, Typed, Shape, Saving
  <2>7. CASE Post
      BY <2>7, <1>0 DEF Post
  <2>8. CASE Refuse \/ TokenFails \/ ReplyLost
    <3>1. \A status : [record EXCEPT !.status = status].id = record.id
        BY <1>0 DEF Records
    <3> QED BY <2>1, <2>8, <3>1 DEF Refuse, TokenFails, ReplyLost
  <2>9. CASE ReplyArrives
    <3>1. PICK verdict : SaveLast(journal, task.number, [record EXCEPT !.status = verdict])
        BY <2>9 DEF ReplyArrives
    <3>2. [record EXCEPT !.status = verdict].id = record.id
        BY <1>0 DEF Records
    <3> QED BY <2>1, <2>9, <3>1, <3>2 DEF ReplyArrives
  <2> QED BY <1>7, <2>2, <2>3, <2>4, <2>5, <2>6, <2>7, <2>8, <2>9 DEF Proceed, SourceHolds
<1>8. CASE Environment
  <2>1. CASE CabinetHandles \/ Authorize \/ Relink \/ BeginUnload \/ BeginClose \/ FinishClose
      BY <2>1 DEF CabinetHandles, Authorize, Relink, BeginUnload, BeginClose, FinishClose
  <2>2. CASE Cancel
      BY <2>2 DEF Cancel, Release
  <2>3. CASE CancelAgain \/ OrphanLands
      BY <2>3 DEF CancelAgain, OrphanLands
  <2>4. CASE Crash
      BY <2>4 DEF Crash, Restart, Release
  <2>5. CASE PowerFails
      BY <2>5 DEF PowerFails, Restart, Release
  <2>6. CASE SetUp
      BY <2>6 DEF SetUp
  <2> QED BY <1>8, <2>1, <2>2, <2>3, <2>4, <2>5, <2>6 DEF Environment
<1>9. CASE UNCHANGED vars
    BY <1>9
<1> QED BY <1>1, <1>2, <1>3, <1>4, <1>5, <1>6, <1>7, <1>8, <1>9 DEF Next

LEMMA BarredInit == Init => Barred
BY DEF Init, Barred, DurableBarrier, Guards, Saving

(* One step keeps the barrier.                                                *)
LEMMA BarredNext ==
    ASSUME Typed, Fresh, Barred, [Next]_vars, ~RepeatedCancel
    PROVE  Barred'
<1> USE NoneAssumption DEF Barred, DurableBarrier, Guards, Quiet, Saving, hostVars, draftVars,
                           writeVars, worldVars, taskVars, vars
<1>0. /\ disk \in Journals /\ (journal # NotLoaded => journal \in Journals)
      /\ (target # NotLoaded => target \in Journals) /\ images \subseteq Journals
      /\ record \in Records /\ posted \subseteq [id : Ids, draft : Drafts]
      /\ (task # NoTask => task \in Drafts)
      /\ (phase # "free" => journal # NotLoaded)
    BY DEF Typed, TypeOK, Shape
<1>a. /\ Loaded \in Journals /\ Loaded # NotLoaded /\ Guards(Loaded)
    BY <1>0 DEF Loaded
<1>b. \A post \in posted : post.draft \in Drafts /\ post.draft.number \in Accounts
    BY <1>0 DEF Drafts
<1>c. \A number \in Accounts : ~Unresolved(Loaded[number]) => Quiet(number)
    BY <1>a, <1>b
<1>1. CASE LastAttempt
    BY <1>1, <1>a DEF LastAttempt, MayEnter
<1>2. CASE Inspect
  <2>1. task = NoTask
      BY <1>2 DEF Inspect, MayEnter, Typed, Shape
  <2> QED BY <1>2, <1>a, <2>1 DEF Inspect, MayEnter
<1>3. CASE ExpireDraft
    BY <1>3 DEF ExpireDraft
<1>4. CASE Prepare
  <2>1. PICK request \in Requests : PrepareBegin(request)
      BY <1>4 DEF Prepare
  <2>2. request.number \in Accounts
      BY DEF Requests
  <2> QED BY <2>1, <2>2, <1>a, <1>c DEF PrepareBegin, MayEnter
<1>5. CASE Confirm
  <2>1. PICK draft \in drafts : ConfirmBegin(draft)
      BY <1>5 DEF Confirm
  <2>2. draft.number \in Accounts
      BY DEF Drafts, Typed, TypeOK
  <2> QED BY <2>1, <2>2, <1>a, <1>c DEF ConfirmBegin, MayEnter
<1>6. CASE Unlock
  <2>1. PICK user \in Users, number \in Accounts, id \in Ids : Acknowledge(user, number, id)
      BY <1>6 DEF Unlock
  <2> DEFINE rec == [Loaded[number] EXCEPT !.status = "acknowledged"]
  <2>2. /\ phase' = "recording" /\ task' = NoTask /\ landed' = FALSE
        /\ target' = [Loaded EXCEPT ![number] = rec] /\ journal' = Loaded
        /\ settled' = settled \cup {id} /\ Loaded[number].id = id
        /\ UNCHANGED <<disk, images, posted>>
      BY <2>1 DEF Acknowledge, SaveLast
  <2>3. ASSUME NEW post \in posted, post.id \notin settled'
        PROVE  post.draft.number # number /\ target'[post.draft.number] = Loaded[post.draft.number]
      BY <2>2, <2>3, <1>a, <1>b DEF Journals
  <2>4. Guards(target)'
      BY <2>2, <2>3, <1>a
  <2> QED BY <2>2, <2>4, <1>a
<1>7. CASE Proceed
  <2>1. ASSUME NEW rec, phase \in {"token", "post"}, rec.id = record.id,
               SaveLast(journal, task.number, rec),
               UNCHANGED <<journal, disk, images, posted>>,
               settled \subseteq settled',
               Unresolved(rec) \/ record.id \in settled' \/ phase = "token"
        PROVE  Barred'
    <3>1. journal \in Journals /\ Guards(journal) /\ task.number \in Accounts
        BY <2>1, <1>0 DEF Typed, Shape, Drafts
    <3>2. target' = [journal EXCEPT ![task.number] = rec] /\ phase' = "recording"
          /\ landed' = FALSE /\ task' = NoTask
        BY <2>1 DEF SaveLast
    <3>3. ASSUME NEW post \in posted, post.id \notin settled'
          PROVE  target'[post.draft.number].id = post.id /\ Unresolved(target'[post.draft.number])
      <4>1. CASE post.draft.number # task.number
          BY <4>1, <3>1, <3>2, <3>3, <2>1, <1>b DEF Journals
      <4>2. CASE post.draft.number = task.number
        <5>1. phase = "post" /\ post.id = record.id
            BY <4>2, <3>3, <2>1, <1>0 DEF Typed, Shape
        <5>2. target'[post.draft.number] = rec
            BY <4>2, <3>1, <3>2 DEF Journals
        <5> QED BY <5>1, <5>2, <3>3, <2>1
      <4> QED BY <4>1, <4>2
    <3> QED BY <2>1, <3>1, <3>2, <3>3
  <2>2. CASE PrepareRead \/ (phase = "source" /\ Draft) \/ GiveUp \/ SaveRaises
      BY <2>2 DEF PrepareRead, Draft, GiveUp, SaveRaises, Release
  <2>3. CASE ConfirmRead \/ (phase = "source" /\ Attempt)
    <3> DEFINE rec == [id |-> nextId, status |-> "pending",
                       signature |-> Signature(task.context, task.readings)]
    <3>1. /\ phase' = "pending" /\ record' = rec /\ landed' = FALSE
          /\ target' = [journal EXCEPT ![task.number] = rec]
          /\ UNCHANGED <<task, journal, disk, images, worldVars>>
        BY <2>3 DEF ConfirmRead, Attempt, SavePending
    <3> HIDE DEF rec
    <3>2. journal \in Journals /\ Guards(journal) /\ phase \in {"reading", "source"}
        BY <2>3, <1>0 DEF ConfirmRead
    <3>3. task # NoTask /\ task.number \in Accounts /\ Quiet(task.number)
        BY <2>3, <3>2, <1>0 DEF ConfirmRead, Confirming, Drafts, Typed, Shape
    <3>4. target'[task.number] = rec
        BY <3>1, <3>2, <3>3 DEF Journals
    <3>5. ASSUME NEW post \in posted, post.id \notin settled
          PROVE  target'[post.draft.number] = journal[post.draft.number]
        BY <3>1, <3>2, <3>3, <3>5, <1>b DEF Journals
    <3>6. Guards(target)'
        BY <3>1, <3>2, <3>5
    <3> QED BY <3>1, <3>2, <3>3, <3>4, <3>6
  <2>4. CASE ReadThenSource
      BY <2>4 DEF ReadThenSource
  <2>5. CASE WriteLands
      BY <2>5 DEF WriteLands, Typed, Shape
  <2>6. CASE SaveReturns
    <3>1. disk = target /\ Guards(target) /\ target # NotLoaded
        BY <2>6 DEF SaveReturns, Typed, Shape
    <3>2. CASE cancelled \/ phase # "pending"
        BY <2>6, <3>1, <3>2 DEF SaveReturns, Release
    <3>3. CASE ~cancelled /\ phase = "pending"
        BY <2>6, <3>1, <3>3 DEF SaveReturns
    <3> QED BY <3>2, <3>3
  <2>7. CASE Post
    <3>1. /\ phase = "token" /\ phase' = "post" /\ task # NoTask /\ record.status = "pending"
          /\ posted' = posted \cup {[id |-> record.id, draft |-> task]}
          /\ UNCHANGED <<journal, task, record, disk, images, target, landed, settled>>
        BY <2>7 DEF Post, Typed, Shape
    <3>2. Unresolved(record)
        BY <3>1 DEF Unresolved
    <3> QED BY <3>1, <3>2
  <2>8. CASE Refuse
    <3> DEFINE rec == [record EXCEPT !.status = "not_sent"]
    <3>1. rec.id = record.id
        BY <1>0 DEF Records
    <3>2. /\ phase = "token" /\ SaveLast(journal, task.number, rec)
          /\ UNCHANGED <<journal, disk, images, posted, settled>>
        BY <2>8 DEF Refuse
    <3> HIDE DEF rec
    <3> QED BY <2>1, <3>1, <3>2
  <2>9. CASE TokenFails \/ ReplyLost
    <3> DEFINE rec == [record EXCEPT !.status = "unknown"]
    <3>1. rec.id = record.id /\ Unresolved(rec)
        BY <1>0 DEF Records, Unresolved
    <3>2. /\ phase \in {"token", "post"} /\ SaveLast(journal, task.number, rec)
          /\ UNCHANGED <<journal, disk, images, posted, settled>>
        BY <2>9 DEF TokenFails, ReplyLost
    <3> HIDE DEF rec
    <3> QED BY <2>1, <3>1, <3>2
  <2>10. CASE ReplyArrives
    <3>1. outcome[record.id] \in Outcomes
        BY <2>10 DEF ReplyArrives, Typed, TypeOK, Shape
    <3>2. PICK verdict \in Conclusions[outcome[record.id]] :
              /\ SaveLast(journal, task.number, [record EXCEPT !.status = verdict])
              /\ settled' = IF verdict \in {"accepted", "rejected"}
                            THEN settled \cup {record.id} ELSE settled
        BY <2>10 DEF ReplyArrives
    <3> DEFINE rec == [record EXCEPT !.status = verdict]
    <3>3. rec.id = record.id /\ rec.status = verdict
        BY <1>0 DEF Records
    <3>4. Unresolved(rec) \/ record.id \in settled'
        BY <3>1, <3>2, <3>3, ConclusionsType DEF Unresolved
    <3>5. /\ phase = "post" /\ SaveLast(journal, task.number, rec)
          /\ UNCHANGED <<journal, disk, images, posted>> /\ settled \subseteq settled'
        BY <2>10, <3>2 DEF ReplyArrives
    <3> HIDE DEF rec
    <3> QED BY <2>1, <3>3, <3>4, <3>5
  <2> QED BY <1>7, <2>2, <2>3, <2>4, <2>5, <2>6, <2>7, <2>8, <2>9, <2>10 DEF Proceed, SourceHolds
<1>8. CASE Environment
  <2>1. CASE CabinetHandles \/ Authorize \/ Relink \/ BeginUnload \/ BeginClose \/ FinishClose
      BY <2>1 DEF CabinetHandles, Authorize, Relink, BeginUnload, BeginClose, FinishClose
  <2>2. CASE Cancel
      BY <2>2 DEF Cancel, Release
  <2>3. CASE CancelAgain \/ OrphanLands
      BY <2>3 DEF CancelAgain, OrphanLands, Fresh
  <2>4. CASE Crash
      BY <2>4 DEF Crash, Restart, Release
  <2>5. CASE PowerFails
      BY <2>5 DEF PowerFails, Restart, Release
  <2>6. CASE SetUp
      BY <2>6 DEF SetUp, Typed, Shape
  <2> QED BY <1>8, <2>1, <2>2, <2>3, <2>4, <2>5, <2>6 DEF Environment
<1>9. CASE UNCHANGED vars
    BY <1>9
<1> QED BY <1>1, <1>2, <1>3, <1>4, <1>5, <1>6, <1>7, <1>8, <1>9 DEF Next

(* While no write outlives the lock it was made under, IInv is invariant.     *)
THEOREM Invariance ==
    ASSUME ~RepeatedCancel
    PROVE  Spec => []IInv
<1>1. Init => IInv
    BY TypedInit, FreshInit, BarredInit DEF IInv
<1>2. IInv /\ [Next]_vars => IInv'
    BY TypedNext, FreshNext, BarredNext DEF IInv
<1> QED BY <1>1, <1>2, PTL DEF Spec

(* An attempt that was sent and not settled blocks its account in memory and  *)
(* in whatever the file may hold after a crash.                               *)
THEOREM BarrierIsDurable ==
    ASSUME ~RepeatedCancel
    PROVE  Spec => []DurableBarrier
<1>1. IInv => DurableBarrier
    BY DEF IInv, Barred
<1> QED BY <1>1, Invariance, PTL

-------------------------------------------------------------------------------
(* Only three actions touch what was sent or settled.                         *)
LEMMA WorldSteps ==
    ASSUME [Next]_vars
    PROVE  \/ Post
           \/ ReplyArrives
           \/ Unlock
           \/ UNCHANGED <<posted, settled>>
<1> USE DEF worldVars, vars
<1>1. CASE LastAttempt \/ Inspect \/ ExpireDraft
    BY <1>1 DEF LastAttempt, Inspect, ExpireDraft
<1>2. CASE Prepare
    BY <1>2 DEF Prepare, PrepareBegin
<1>3. CASE Confirm
    BY <1>3 DEF Confirm, ConfirmBegin
<1>4. CASE Proceed
    BY <1>4 DEF Proceed, PrepareRead, ConfirmRead, ReadThenSource, SourceHolds, GiveUp, Draft,
                Attempt, WriteLands, SaveReturns, SaveRaises, Refuse, TokenFails, ReplyLost
<1>5. CASE Environment
    BY <1>5 DEF Environment, CabinetHandles, Cancel, CancelAgain, OrphanLands, Crash, PowerFails,
                Restart, Authorize, Relink, BeginUnload, BeginClose, FinishClose, SetUp
<1> QED BY <1>1, <1>2, <1>3, <1>4, <1>5 DEF Next

(* A POST leaves only with its user's authorization still valid, after every  *)
(* await of the operation.                                                    *)
THEOREM SendIsAuthorized == Spec => AuthorizedSend
<1>1. ASSUME [Next]_vars
      PROVE  posted' # posted =>
                \A post \in posted' \ posted :
                    /\ entry = "loaded" /\ post.draft.user \in admins
                    /\ post.draft.number \in linked
  <2>1. CASE Post
      BY <2>1 DEF Post, Authorized
  <2>2. CASE ReplyArrives \/ Unlock
      BY <2>2 DEF ReplyArrives, Unlock, Acknowledge
  <2> QED BY <1>1, <2>1, <2>2, WorldSteps
<1> QED BY <1>1, PTL DEF Spec, AuthorizedSend

LEMMA BarrierInit == Init => Barrier!Init
BY DEF Init, Barrier!Init, Open

LEMMA BarrierNext ==
    ASSUME IInv, [Next]_vars
    PROVE  [Barrier!Next]_<<[n \in Accounts |-> Open(n)], {post.id : post \in posted}>>
<1> DEFINE outstanding == [n \in Accounts |-> Open(n)]
           sent == {post.id : post \in posted}
<1>0. posted \subseteq [id : Ids, draft : Drafts] /\ (task # NoTask => task \in Drafts)
    BY DEF IInv, Typed, TypeOK
<1>1. CASE UNCHANGED <<posted, settled>>
    BY <1>1 DEF Open
<1>2. CASE Post
  <2>0. task \in Drafts /\ task.number \in Accounts /\ record.id \in Ids
      BY <1>2, <1>0 DEF Post, IInv, Typed, Shape, Drafts
  <2>a. [id |-> record.id, draft |-> task].id = record.id
        /\ [id |-> record.id, draft |-> task].draft = task
      OBVIOUS
  <2>1. PICK number \in Accounts, id \in Ids, item \in [id : Ids, draft : Drafts] :
            /\ posted' = posted \cup {item} /\ settled' = settled
            /\ item.id = id /\ item.draft.number = number /\ Quiet(number) /\ id \notin settled
            /\ \A post \in posted : post.id # id
      BY <2>0, <2>a, <1>2 DEF Post, IInv, Typed, Shape, Fresh, Barred
  <2>2. Open(number) = {} /\ id \notin sent
      BY <2>1 DEF Open, Quiet
  <2>3. Open(number)' = {id}
    <3>1. \A post \in posted : post.draft.number = number => post.id \in settled
        BY <2>1 DEF Quiet
    <3>2. ASSUME NEW x PROVE x \in Open(number)' <=> x = id
        BY <2>1, <3>1 DEF Open
    <3> QED BY <3>2
  <2>4. \A n \in Accounts \ {number} : Open(n)' = Open(n)
      BY <2>1 DEF Open
  <2>5. sent' = sent \cup {id}
    <3>1. ASSUME NEW x PROVE x \in sent' <=> x \in sent \cup {id}
        BY <2>1
    <3> QED BY <3>1
  <2>6. outstanding' = [outstanding EXCEPT ![number] = {id}]
      BY <2>1, <2>3, <2>4
  <2>7. Barrier!Send(number, id)
      BY <2>1, <2>2, <2>5, <2>6 DEF Barrier!Send
  <2> QED BY <2>1, <2>7 DEF Barrier!Next
<1>3. ASSUME NEW id \in Ids, settled' = settled \cup {id}, posted' = posted
      PROVE  [Barrier!Next]_<<outstanding, sent>>
  <2>1. CASE \A n \in Accounts : id \notin Open(n)
      BY <1>3, <2>1, <1>0 DEF Open, Drafts
  <2>2. ASSUME NEW number \in Accounts, id \in Open(number)
        PROVE  Barrier!Settle(number, id)
    <3>1. PICK post \in posted : post.id = id /\ post.draft.number = number
        BY <2>2 DEF Open
    <3>2. \A n \in Accounts \ {number} : id \notin Open(n)
        BY <3>1 DEF Open, IInv, Fresh
    <3>3. Open(number)' = Open(number) \ {id}
        BY <1>3 DEF Open
    <3>4. \A n \in Accounts \ {number} : Open(n)' = Open(n)
        BY <1>3, <3>2 DEF Open
    <3>5. outstanding' = [outstanding EXCEPT ![number] = @ \ {id}]
        BY <3>3, <3>4
    <3> QED BY <1>3, <2>2, <3>5 DEF Barrier!Settle
  <2> QED BY <2>1, <2>2 DEF Barrier!Next
<1>4. CASE ReplyArrives
  <2>1. record.id \in Ids
      BY <1>4 DEF ReplyArrives, IInv, Typed, Shape
  <2>2. posted' = posted /\ (settled' = settled \cup {record.id} \/ settled' = settled)
      BY <1>4 DEF ReplyArrives
  <2> QED BY <2>1, <2>2, <1>1, <1>3
<1>5. CASE Unlock
  <2>1. PICK user \in Users, number \in Accounts, id \in Ids : Acknowledge(user, number, id)
      BY <1>5 DEF Unlock
  <2> QED BY <2>1, <1>3 DEF Acknowledge
<1> QED BY <1>1, <1>2, <1>4, <1>5, WorldSteps

(* The manager implements the abstract promise: one unsettled request per     *)
(* account, and none sent twice.                                              *)
THEOREM ImplementsBarrier ==
    ASSUME ~RepeatedCancel
    PROVE  Spec => KeepsBarrier
<1>1. Init => Barrier!Init
    BY BarrierInit
<1>2. IInv /\ [Next]_vars =>
          [Barrier!Next]_<<[n \in Accounts |-> Open(n)], {post.id : post \in posted}>>
    BY BarrierNext
<1> QED BY <1>1, <1>2, Invariance, PTL DEF Spec, KeepsBarrier, Barrier!Spec

-------------------------------------------------------------------------------
(* What the tokens of drafts say: they are handed out in order, and one that  *)
(* was taken from the drafts, or sent, does not come back.                    *)
Spent ==
    /\ nextToken > 0
    /\ \A d \in drafts : 0 < d.token /\ d.token < nextToken
    /\ \A d, e \in drafts : d.token = e.token => d = e
    /\ \A post \in posted :
          /\ 0 < post.draft.token /\ post.draft.token < nextToken
          /\ \A d \in drafts : d.token # post.draft.token
    /\ Confirming =>
          /\ task.token < nextToken
          /\ \A d \in drafts : d.token # task.token
          /\ phase # "post" => \A post \in posted : post.draft.token # task.token
    /\ phase \in {"pending", "token", "post"} => Confirming
    /\ OneAttemptPerConfirmation

LEMMA SpentInit == Init => Spent
BY DEF Init, Spent, Confirming, OneAttemptPerConfirmation

(* One step keeps the tokens apart, also with tasks that are cancelled again. *)
LEMMA SpentNext ==
    ASSUME Typed, Spent, [Next]_vars
    PROVE  Spent'
<1> USE NoneAssumption DEF Spent, Confirming, Saving, OneAttemptPerConfirmation, hostVars,
                           draftVars, writeVars, worldVars, taskVars, vars
<1>0. /\ drafts \subseteq Drafts /\ nextToken \in Nat /\ posted \subseteq [id : Ids, draft : Drafts]
      /\ (task # NoTask => task \in Drafts)
      /\ \A d \in Drafts : d.token \in Nat
    BY DEF Typed, TypeOK, Drafts
<1>1. ASSUME UNCHANGED <<posted, nextToken>>, drafts' \subseteq drafts,
             \/ UNCHANGED <<phase, task>>
             \/ task' = NoTask /\ phase' \in {"free", "recording"}
      PROVE  Spent'
    BY <1>1
<1>2. CASE LastAttempt \/ ExpireDraft
    BY <1>1, <1>2 DEF LastAttempt, ExpireDraft
<1>3. CASE Inspect
    BY <1>3 DEF Inspect, MayEnter, Typed, Shape
<1>4. CASE Prepare
    BY <1>4 DEF Prepare, PrepareBegin, MayEnter, Requests
<1>5. CASE Confirm
  <2>1. PICK draft \in drafts : ConfirmBegin(draft)
      BY <1>5 DEF Confirm
  <2>2. /\ drafts' = drafts \ {draft} /\ posted' = posted /\ nextToken' = nextToken
        /\ \/ UNCHANGED <<phase, task>>
           \/ phase' = "reading" /\ task' = draft
      BY <2>1 DEF ConfirmBegin
  <2>3. CASE UNCHANGED <<phase, task>>
      BY <2>2, <2>3, <1>1
  <2>4. CASE phase' = "reading" /\ task' = draft
    <3>1. /\ 0 < draft.token /\ draft.token < nextToken
          /\ \A d \in drafts' : d \in drafts /\ d.token # draft.token
          /\ \A post \in posted : post.draft.token # draft.token
        BY <2>2
    <3> QED BY <2>2, <2>4, <3>1
  <2> QED BY <2>2, <2>3, <2>4
<1>6. CASE Unlock
    BY <1>1, <1>6 DEF Unlock, Acknowledge, SaveLast
<1>7. CASE Proceed
  <2>1. ASSUME Draft, Preparing PROVE Spent'
    <3> DEFINE new == [task EXCEPT !.token = nextToken]
    <3>1. new.token = nextToken
        BY <2>1, <1>0 DEF Preparing, Drafts
    <3>2. /\ drafts' \subseteq drafts \cup {new} /\ nextToken' = nextToken + 1
          /\ task' = NoTask /\ phase' = "free" /\ UNCHANGED posted
        BY <2>1, EvictKeepsOld DEF Draft, Release
    <3> HIDE DEF new
    <3> QED BY <1>0, <3>1, <3>2
  <2>2. ASSUME Attempt, phase \in {"reading", "source"}, Confirming PROVE Spent'
      BY <2>2 DEF Attempt, SavePending
  <2>3. CASE PrepareRead
      BY <2>1, <2>3 DEF PrepareRead
  <2>4. CASE ConfirmRead
      BY <2>2, <2>4 DEF ConfirmRead
  <2>5. CASE ReadThenSource
      BY <2>5 DEF ReadThenSource
  <2>6. CASE SourceHolds
      BY <2>1, <2>2, <2>6 DEF SourceHolds
  <2>7. CASE GiveUp \/ SaveRaises
      BY <1>1, <2>7 DEF GiveUp, SaveRaises, Release
  <2>8. CASE WriteLands
      BY <1>1, <2>8 DEF WriteLands
  <2>9. CASE SaveReturns
    <3>1. CASE cancelled \/ phase # "pending"
        BY <1>1, <2>9, <3>1 DEF SaveReturns, Release
    <3>2. CASE ~cancelled /\ phase = "pending"
        BY <2>9, <3>2 DEF SaveReturns
    <3> QED BY <3>1, <3>2
  <2>10. CASE Post
    <3> DEFINE new == [id |-> record.id, draft |-> task]
    <3>1. /\ phase = "token" /\ phase' = "post" /\ posted' = posted \cup {new}
          /\ UNCHANGED <<drafts, nextToken, task>>
        BY <2>10 DEF Post
    <3>2. Confirming /\ new.draft = task /\ task.token \in Nat /\ task.token > 0
        BY <3>1, <1>0
    <3> HIDE DEF new
    <3> QED BY <3>1, <3>2
  <2>11. CASE Refuse \/ TokenFails \/ ReplyLost
      BY <1>1, <2>11 DEF Refuse, TokenFails, ReplyLost, SaveLast
  <2>12. CASE ReplyArrives
      BY <1>1, <2>12 DEF ReplyArrives, SaveLast
  <2> QED BY <1>7, <2>3, <2>4, <2>5, <2>6, <2>7, <2>8, <2>9, <2>10, <2>11, <2>12 DEF Proceed
<1>8. CASE Environment
  <2>1. CASE CabinetHandles \/ OrphanLands \/ Authorize \/ Relink \/ BeginUnload \/ BeginClose
      BY <1>1, <2>1 DEF CabinetHandles, OrphanLands, Authorize, Relink, BeginUnload, BeginClose
  <2>2. CASE Cancel \/ CancelAgain
      BY <1>1, <2>2 DEF Cancel, CancelAgain, Release
  <2>3. CASE Crash \/ PowerFails
      BY <1>1, <2>3 DEF Crash, PowerFails, Restart, Release
  <2>4. CASE FinishClose \/ SetUp
      BY <1>1, <2>4 DEF FinishClose, SetUp
  <2> QED BY <1>8, <2>1, <2>2, <2>3, <2>4 DEF Environment
<1>9. CASE UNCHANGED vars
    BY <1>1, <1>9
<1> QED BY <1>2, <1>3, <1>4, <1>5, <1>6, <1>7, <1>8, <1>9 DEF Next

(* A confirmation permits at most one POST, however often the button is       *)
(* pressed, whatever fails and however often the program is restarted.        *)
THEOREM OnceConfirmedOnceSent == Spec => []OneAttemptPerConfirmation
<1>1. Init => Typed /\ Spent
    BY TypedInit, SpentInit
<1>2. Typed /\ Spent /\ [Next]_vars => Typed' /\ Spent'
    BY TypedNext, SpentNext
<1>3. Spent => OneAttemptPerConfirmation
    BY DEF Spent
<1> QED BY <1>1, <1>2, <1>3, PTL DEF Spec


-------------------------------------------------------------------------------
(* A well-formed reply names every zone of the meter: it has as many entries  *)
(* as zones, each names a zone, and no two the same.                          *)
LEMMA EveryZoneNamed ==
    ASSUME NEW payload \in Payloads, WellFormed(payload)
    PROVE  \A z \in Zones : \E i \in DOMAIN payload : payload[i].index = z
<1>1. PICK n \in Nat : payload \in [1..n -> Entries]
    BY CountAssumption DEF Payloads
<1>2. payload \in Seq(Entries)
    BY <1>1, SeqDef
<1>3. n = Count /\ DOMAIN payload = 1..Count
    BY <1>1, <1>2, LenProperties, CountAssumption DEF WellFormed
<1> SUFFICES ASSUME NEW z \in Zones, \A i \in 1..Count : payload[i].index # z PROVE FALSE
    BY <1>3
<1> DEFINE f == [i \in 1..Count |-> payload[i].index]
<1>4. f \in [1..Count -> Zones \ {z}]
    BY <1>3 DEF WellFormed
<1>5. IsFiniteSet(1..Count) /\ Cardinality(1..Count) = Count
    BY FS_Interval, CountAssumption
<1>6. IsFiniteSet(Zones) /\ Cardinality(Zones) = Count
    BY FS_Interval, CountAssumption DEF Zones
<1>7. IsFiniteSet(Zones \ {z}) /\ Cardinality(Zones \ {z}) = Count - 1
    BY <1>6, FS_RemoveElement
<1>8. \E x, y \in 1..Count : x # y /\ f[x] = f[y]
  <2>1. Cardinality(Zones \ {z}) < Cardinality(1..Count)
      BY <1>5, <1>7, CountAssumption
  <2> DEFINE S == 1..Count
             T == Zones \ {z}
  <2>2. f \in [S -> T] /\ IsFiniteSet(S) /\ IsFiniteSet(T) /\ Cardinality(T) < Cardinality(S)
      BY <1>4, <1>5, <1>7, <2>1
  <2> HIDE DEF f, S, T
  <2>3. \E x, y \in S : x # y /\ f[x] = f[y]
      BY <2>2, FS_PigeonHole
  <2> QED BY <2>3 DEF S
<1> QED BY <1>3, <1>8 DEF WellFormed

(* An acceptance or a rejection is concluded only from a reply that says so   *)
(* of every zone, and so only of what the cabinet did with every zone.        *)
LEMMA ConclusionsTell ==
    ASSUME NEW o \in Outcomes, NEW v \in Conclusions[o]
    PROVE  /\ v = "accepted" => o = [z \in Zones |-> "SUCCESS"]
           /\ v = "rejected" => o = [z \in Zones |-> "ERROR"]
           /\ v # "not_sent"
<1>1. PICK payload \in {p \in Payloads : Honest(p, o)}, asked \in BOOLEAN :
          v = Verdict(payload, asked)
    BY DEF Conclusions
<1>2. ASSUME NEW status \in {"SUCCESS", "ERROR"}, WellFormed(payload),
             {payload[i].status : i \in DOMAIN payload} = {status}
      PROVE  o = [z \in Zones |-> status]
  <2>1. ASSUME NEW z \in Zones PROVE o[z] = status
    <3>1. PICK i \in DOMAIN payload : payload[i].index = z
        BY <1>2, EveryZoneNamed
    <3>2. payload[i].status = status
        BY <1>2
    <3> QED BY <1>1, <1>2, <3>1, <3>2 DEF Honest
  <2> QED BY <2>1 DEF Outcomes
<1>3. v = "accepted" =>
          WellFormed(payload) /\ {payload[i].status : i \in DOMAIN payload} = {"SUCCESS"}
    BY <1>1 DEF Verdict, SubmissionResult
<1>4. v = "rejected" =>
          WellFormed(payload) /\ {payload[i].status : i \in DOMAIN payload} = {"ERROR"}
    BY <1>1 DEF Verdict, SubmissionResult
<1>5. v # "not_sent"
    BY ConclusionsType
<1> QED BY <1>2, <1>3, <1>4, <1>5


-------------------------------------------------------------------------------
(* Every journal that memory, the file or a write under way holds, and that   *)
(* the file may hold after a power failure.                                   *)
Copies == {disk} \cup images \cup orphans \cup ({journal, target} \ {NotLoaded})

(* A record is of an attempt that was begun, says nothing yet of the one      *)
(* about to be sent but that it is pending, and tells the truth of the others.*)
Genuine(rec) ==
    /\ rec.id < nextId
    /\ rec.status \in {"accepted", "rejected"} => rec.id \in Ids
    /\ phase \in {"pending", "token"} /\ rec.id = record.id => rec.status = "pending"
    /\ rec.status = "accepted" => outcome[rec.id] = [z \in Zones |-> "SUCCESS"]
    /\ rec.status = "rejected" => outcome[rec.id] = [z \in Zones |-> "ERROR"]
    /\ rec.status = "not_sent" => \A post \in posted : post.id # rec.id

Truth ==
    /\ \A j \in Copies, number \in Accounts : Genuine(j[number])
    /\ \A post \in posted : post.id < nextId
    /\ phase \in {"pending", "token", "post"} => record.id < nextId
    /\ phase \in {"pending", "token"} => \A post \in posted : post.id # record.id

(* A step writes no journal but copies of those there are, or one of them     *)
(* with one record replaced.                                                  *)
Replaces(rec) ==
    \E old \in Copies, number \in Accounts :
        /\ target' = [old EXCEPT ![number] = rec]
        /\ Copies' \subseteq Copies \cup {target'}

(* The journals of the next state are those of this one, but for the record   *)
(* that an attempt, its end or an acknowledgement writes.                     *)
LEMMA JournalSteps ==
    ASSUME Typed, [Next]_vars
    PROVE  \/ Copies' \subseteq Copies
           \/ /\ phase' = "pending" /\ record'.status = "pending" /\ Replaces(record')
           \/ /\ phase \in {"token", "post"} /\ phase' = "recording"
              /\ \E status \in {"unknown", "accepted", "rejected", "partial", "not_sent"} :
                    /\ Replaces([record EXCEPT !.status = status])
                    /\ status = "not_sent" => phase = "token"
                    /\ status \in {"accepted", "rejected"} =>
                          /\ outcome[record.id] # NoOutcome
                          /\ status \in Conclusions[outcome[record.id]]
           \/ /\ phase' = "recording"
              /\ \E old \in Copies, number \in Accounts :
                    Replaces([old[number] EXCEPT !.status = "acknowledged"])
<1> USE NoneAssumption DEF Saving, hostVars, draftVars, writeVars, worldVars, taskVars, vars
<1>0. /\ (phase # "free" => journal # NotLoaded) /\ (Saving => target # NotLoaded)
      /\ (task # NoTask => task \in Drafts) /\ (phase \in {"token", "post"} => task # NoTask)
      /\ \A d \in Drafts : d.number \in Accounts
    BY DEF Typed, TypeOK, Shape, Drafts
<1>a. Loaded \in Copies /\ Loaded # NotLoaded
    BY DEF Loaded, Copies, Typed, TypeOK
<1>1. ASSUME NEW old \in Copies, NEW number \in Accounts, NEW rec,
             target' = [old EXCEPT ![number] = rec], journal' \in Copies,
             UNCHANGED <<orphans, disk, images>>
      PROVE  Replaces(rec)
    BY <1>1 DEF Replaces, Copies
<1>2. CASE LastAttempt \/ Inspect \/ ExpireDraft
    BY <1>2, <1>a DEF LastAttempt, Inspect, ExpireDraft, Copies
<1>3. CASE Prepare
    BY <1>3, <1>a DEF Prepare, PrepareBegin, Copies
<1>4. CASE Confirm
    BY <1>4, <1>a DEF Confirm, ConfirmBegin, Copies
<1>5. CASE Unlock
  <2>1. PICK user \in Users, number \in Accounts, id \in Ids : Acknowledge(user, number, id)
      BY <1>5 DEF Unlock
  <2>2. Replaces([Loaded[number] EXCEPT !.status = "acknowledged"])
      BY <1>1, <1>a, <2>1 DEF Acknowledge, SaveLast
  <2> QED BY <1>a, <2>1, <2>2 DEF Acknowledge, SaveLast
<1>6. CASE Proceed
  <2>0. phase # "free" => journal \in Copies
      BY <1>0 DEF Copies
  <2>1. CASE PrepareRead \/ ReadThenSource \/ GiveUp \/ SaveRaises \/ (phase = "source" /\ Draft)
      BY <2>1 DEF PrepareRead, ReadThenSource, GiveUp, SaveRaises, Draft, Release, Copies
  <2>2. CASE ConfirmRead \/ (phase = "source" /\ Confirming /\ Attempt)
    <3> DEFINE rec == [id |-> nextId, status |-> "pending",
                       signature |-> Signature(task.context, task.readings)]
    <3>1. /\ phase' = "pending" /\ record' = rec
          /\ target' = [journal EXCEPT ![task.number] = rec] /\ journal' = journal
          /\ UNCHANGED <<orphans, disk, images>> /\ task # NoTask /\ phase # "free"
        BY <2>2 DEF ConfirmRead, Confirming, Attempt, SavePending
    <3>2. rec.status = "pending"
        OBVIOUS
    <3> HIDE DEF rec
    <3> QED BY <1>0, <1>1, <2>0, <3>1, <3>2
  <2>3. CASE WriteLands
      BY <1>0, <2>3 DEF WriteLands, Copies
  <2>4. CASE SaveReturns
      BY <1>0, <2>4 DEF SaveReturns, Release, Copies
  <2>5. CASE Post
      BY <2>5 DEF Post, Copies
  <2>6. CASE Refuse
    <3>1. Replaces([record EXCEPT !.status = "not_sent"])
        BY <1>0, <1>1, <2>0, <2>6 DEF Refuse, SaveLast
    <3> QED BY <2>6, <3>1 DEF Refuse, SaveLast
  <2>7. CASE TokenFails \/ ReplyLost
    <3>1. Replaces([record EXCEPT !.status = "unknown"])
        BY <1>0, <1>1, <2>0, <2>7 DEF TokenFails, ReplyLost, SaveLast
    <3> QED BY <2>7, <3>1 DEF TokenFails, ReplyLost, SaveLast
  <2>8. CASE ReplyArrives
    <3>1. outcome[record.id] \in Outcomes
        BY <2>8 DEF ReplyArrives, Typed, TypeOK, Shape
    <3>2. PICK verdict \in Conclusions[outcome[record.id]] :
              SaveLast(journal, task.number, [record EXCEPT !.status = verdict])
        BY <2>8 DEF ReplyArrives
    <3>3. Replaces([record EXCEPT !.status = verdict])
        BY <1>0, <1>1, <2>0, <2>8, <3>2 DEF ReplyArrives, SaveLast
    <3>4. verdict \in {"unknown", "accepted", "rejected", "partial"}
        BY <3>1, <3>2, ConclusionsType
    <3>5. phase = "post" /\ phase' = "recording" /\ outcome[record.id] # NoOutcome
        BY <2>8, <3>2 DEF ReplyArrives, SaveLast
    <3> QED BY <3>2, <3>3, <3>4, <3>5
  <2> QED BY <1>6, <2>1, <2>2, <2>3, <2>4, <2>5, <2>6, <2>7, <2>8 DEF Proceed, SourceHolds
<1>7. CASE Environment
  <2>1. CASE CabinetHandles \/ OrphanLands \/ Authorize \/ Relink \/ BeginUnload \/ BeginClose
             \/ FinishClose \/ SetUp
      BY <2>1 DEF CabinetHandles, OrphanLands, Authorize, Relink, BeginUnload, BeginClose,
                  FinishClose, SetUp, Copies
  <2>2. CASE Cancel
      BY <2>2 DEF Cancel, Release, Copies
  <2>3. CASE CancelAgain
      BY <2>3 DEF CancelAgain, Release, Copies, Typed, Shape
  <2>4. CASE Crash \/ PowerFails
      BY <2>4 DEF Crash, PowerFails, Restart, Release, Copies
  <2> QED BY <1>7, <2>1, <2>2, <2>3, <2>4 DEF Environment
<1>8. CASE UNCHANGED vars
    BY <1>8 DEF Copies
<1> QED BY <1>2, <1>3, <1>4, <1>5, <1>6, <1>7, <1>8 DEF Next


(* A step changes no outcome the cabinet has settled on, takes attempt        *)
(* numbers in order, and sends only the attempt at hand.                      *)
LEMMA AttemptSteps ==
    ASSUME Typed, [Next]_vars
    PROVE  /\ \A id \in Ids : outcome[id] # NoOutcome => outcome'[id] = outcome[id]
           /\ nextId' >= nextId
           /\ \/ posted' = posted
              \/ /\ phase = "token" /\ phase' = "post"
                 /\ \A post \in posted' : post \in posted \/ post.id = record.id
           /\ phase' \in {"pending", "token", "post"} =>
                 \/ /\ phase \in {"pending", "token", "post"} /\ record' = record
                    /\ phase = "post" => phase' = "post"
                 \/ phase' = "pending" /\ record'.id = nextId /\ nextId' = nextId + 1
<1> USE DEF Saving, hostVars, draftVars, writeVars, worldVars, taskVars, vars
<1>0. /\ nextId \in Nat /\ outcome \in [Ids -> Outcomes \cup {NoOutcome}]
      /\ posted \subseteq [id : Ids, draft : Drafts]
    BY DEF Typed, TypeOK
<1>1. CASE LastAttempt \/ Inspect \/ ExpireDraft
    BY <1>0, <1>1 DEF LastAttempt, Inspect, ExpireDraft
<1>2. CASE Prepare \/ Confirm
    BY <1>0, <1>2 DEF Prepare, PrepareBegin, Confirm, ConfirmBegin, MayEnter
<1>3. CASE Unlock
    BY <1>0, <1>3 DEF Unlock, Acknowledge, SaveLast
<1>4. CASE Proceed
  <2>1. CASE ConfirmRead \/ (phase = "source" /\ Attempt)
      BY <1>0, <2>1 DEF ConfirmRead, Attempt, SavePending
  <2>2. CASE PrepareRead \/ ReadThenSource \/ GiveUp \/ (phase = "source" /\ Draft)
      BY <1>0, <2>2 DEF PrepareRead, ReadThenSource, GiveUp, Draft, Release
  <2>3. CASE WriteLands \/ SaveReturns \/ SaveRaises
      BY <1>0, <2>3 DEF WriteLands, SaveReturns, SaveRaises, Release
  <2>4. CASE Post
      BY <1>0, <2>4 DEF Post
  <2>5. CASE Refuse \/ TokenFails \/ ReplyLost
      BY <1>0, <2>5 DEF Refuse, TokenFails, ReplyLost, SaveLast
  <2>6. CASE ReplyArrives
    <3>1. UNCHANGED <<nextId, posted, outcome>> /\ phase' = "recording"
        BY <2>6 DEF ReplyArrives, SaveLast
    <3> QED BY <1>0, <3>1
  <2> QED BY <1>4, <2>1, <2>2, <2>3, <2>4, <2>5, <2>6 DEF Proceed, SourceHolds
<1>5. CASE Environment
  <2>1. CASE CabinetHandles
      BY <1>0, <2>1 DEF CabinetHandles
  <2>2. CASE Cancel \/ CancelAgain \/ Crash \/ PowerFails
      BY <1>0, <2>2 DEF Cancel, CancelAgain, Crash, PowerFails, Restart, Release
  <2>3. CASE OrphanLands \/ Authorize \/ Relink \/ BeginUnload \/ BeginClose \/ FinishClose \/ SetUp
      BY <1>0, <2>3 DEF OrphanLands, Authorize, Relink, BeginUnload, BeginClose, FinishClose, SetUp
  <2> QED BY <1>5, <2>1, <2>2, <2>3 DEF Environment
<1>6. CASE UNCHANGED vars
    BY <1>0, <1>6
<1> QED BY <1>1, <1>2, <1>3, <1>4, <1>5, <1>6 DEF Next

LEMMA TruthInit == Init => Truth
<1> SUFFICES ASSUME Init PROVE Truth
    OBVIOUS
<1>1. \A j \in Copies, number \in Accounts : j[number] = NoRecord
    BY DEF Init, Copies
<1> QED BY <1>1 DEF Init, Truth, Genuine, NoRecord

(* One step keeps the journals truthful, whichever of them a step brings back.*)
LEMMA TruthNext ==
    ASSUME Typed, Typed', Truth, [Next]_vars
    PROVE  Truth'
<1>0. /\ Copies \subseteq Journals /\ record \in Records /\ nextId \in Nat /\ nextId' \in Nat
      /\ posted \subseteq [id : Ids, draft : Drafts]
      /\ outcome \in [Ids -> Outcomes \cup {NoOutcome}]
      /\ \A z \in {"SUCCESS", "ERROR"} : [x \in Zones |-> z] # NoOutcome
      /\ phase \in {"token", "post"} => record.id \in Ids
  <2>1. \A z \in {"SUCCESS", "ERROR"} : [x \in Zones |-> z] \in Outcomes
      BY DEF Outcomes
  <2> QED BY <2>1, NoneAssumption DEF Typed, TypeOK, Shape, Copies
<1>1. ASSUME NEW j \in Copies, NEW number \in Accounts PROVE j[number] \in Records
    BY <1>0 DEF Journals
<1>2. /\ \A post \in posted' : post.id < nextId'
      /\ phase' \in {"pending", "token", "post"} => record'.id < nextId'
      /\ phase' \in {"pending", "token"} => \A post \in posted' : post.id # record'.id
    BY <1>0, AttemptSteps DEF Truth, Ids, Records
<1>3. ASSUME NEW rec \in Records, Genuine(rec) PROVE Genuine(rec)'
  <2>1. rec.id \in Nat /\ rec.id < nextId /\ rec.id < nextId'
      BY <1>0, <1>3, AttemptSteps DEF Genuine, Records
  <2>2. phase' \in {"pending", "token"} /\ rec.id = record'.id => rec.status = "pending"
      BY <1>0, <1>3, <2>1, AttemptSteps DEF Genuine
  <2>3. rec.status = "not_sent" => \A post \in posted' : post.id # rec.id
      BY <1>0, <1>3, <2>1, AttemptSteps DEF Genuine
  <2> QED BY <1>0, <1>3, <2>1, <2>2, <2>3, AttemptSteps DEF Genuine
<1>4. \A j \in Copies, number \in Accounts : Genuine(j[number])'
    BY <1>1, <1>3 DEF Truth
<1>5. ASSUME NEW rec, Replaces(rec), Genuine(rec)'
      PROVE  \A j \in Copies', number \in Accounts : Genuine(j[number])'
    BY <1>0, <1>4, <1>5 DEF Replaces, Journals
<1>6. \A j \in Copies', number \in Accounts : Genuine(j[number])'
  <2>1. CASE Copies' \subseteq Copies
      BY <1>4, <2>1
  <2>2. CASE phase' = "pending" /\ record'.status = "pending" /\ Replaces(record')
      BY <1>2, <1>5, <2>2 DEF Genuine
  <2>3. ASSUME phase \in {"token", "post"}, phase' = "recording",
               NEW status \in {"unknown", "accepted", "rejected", "partial", "not_sent"},
               Replaces([record EXCEPT !.status = status]),
               status = "not_sent" => phase = "token",
               status \in {"accepted", "rejected"} =>
                  /\ outcome[record.id] # NoOutcome
                  /\ status \in Conclusions[outcome[record.id]]
        PROVE  \A j \in Copies', number \in Accounts : Genuine(j[number])'
    <3>0. PICK rec : rec = [record EXCEPT !.status = status]
        OBVIOUS
    <3>1. rec.id = record.id /\ rec.status = status /\ record.id \in Ids /\ record.id < nextId
        BY <1>0, <2>3, <3>0 DEF Records, Truth
    <3>2. outcome[record.id] # NoOutcome =>
              /\ outcome[record.id] \in Outcomes
              /\ outcome'[record.id] = outcome[record.id]
        BY <1>0, <3>1, AttemptSteps
    <3>3. /\ status = "accepted" => outcome'[record.id] = [z \in Zones |-> "SUCCESS"]
          /\ status = "rejected" => outcome'[record.id] = [z \in Zones |-> "ERROR"]
        BY <2>3, <3>2, ConclusionsTell
    <3>4. status = "not_sent" => \A post \in posted' : post.id # record.id
        BY <2>3, AttemptSteps DEF Truth
    <3>5. record.id < nextId'
        BY <1>0, <3>1, AttemptSteps DEF Ids
    <3>6. Genuine(rec)'
        BY <2>3, <3>1, <3>3, <3>4, <3>5 DEF Genuine
    <3> QED BY <1>5, <2>3, <3>0, <3>6
  <2>4. ASSUME NEW old \in Copies, NEW number \in Accounts, phase' = "recording",
               Replaces([old[number] EXCEPT !.status = "acknowledged"])
        PROVE  \A j \in Copies', n \in Accounts : Genuine(j[n])'
    <3> DEFINE rec == [old[number] EXCEPT !.status = "acknowledged"]
    <3>1. rec \in Records /\ rec.id = old[number].id /\ rec.status = "acknowledged"
        BY <1>1 DEF Records, Statuses
    <3>2. Genuine(old[number])'
        BY <1>4
    <3> HIDE DEF rec
    <3>3. Genuine(rec)'
        BY <2>4, <3>1, <3>2 DEF Genuine
    <3> QED BY <1>5, <2>4, <3>3 DEF rec
  <2> QED BY <2>1, <2>2, <2>3, <2>4, JournalSteps
<1> QED BY <1>2, <1>6 DEF Truth

(* What a journal says of a past attempt is true of what was sent and of what *)
(* the cabinet did with it, in memory, on disk and after any crash, for any   *)
(* number of zones and also when old writes land late.                        *)
THEOREM JournalIsTruthful == Spec => []TruthfulJournal
<1>1. Init => Typed /\ Truth
    BY TypedInit, TruthInit
<1>2. Typed /\ Truth /\ [Next]_vars => Typed' /\ Truth'
    BY TypedNext, TruthNext
<1>3. Truth => TruthfulJournal
    BY DEF Truth, TruthfulJournal, Truthful, Genuine, Copies
<1> QED BY <1>1, <1>2, <1>3, PTL DEF Spec

-------------------------------------------------------------------------------
(* The photos of a set of drafts, as prepare() adds them up.                  *)
Photos(S) == MapThenSumSet(PhotoBytes, S)

(* The photos of one draft are within the budget.                             *)
LEMMA PhotosOfOne ==
    /\ \A size \in PhotoSizes : size \in Nat /\ size <= PhotoBudget
    /\ \A d \in Drafts : d.photos \in PhotoSizes /\ d.photos \in Nat
<1>1. \A size \in PhotoSizes : size \in Nat /\ size <= PhotoBudget
    BY PhotoAssumption
<1>2. \A d \in Drafts : d.photos \in PhotoSizes
    BY DEF Drafts
<1> QED BY <1>1, <1>2

(* The function f adds up the photos of every subset of S.                    *)
Unfolds(f, S) ==
    \A s \in SUBSET S : f[s] = IF s = {} THEN 0 ELSE Pick(s).photos + f[s \ {Pick(s)}]

(* A function that unfolds as the sum does is the sum, on every subset.       *)
LEMMA PhotosUnfold ==
    ASSUME NEW S \in SUBSET Drafts, IsFiniteSet(S), NEW f \in [SUBSET S -> Nat], Unfolds(f, S),
           NEW T \in SUBSET S
    PROVE  Photos(T) = f[T]
<1> DEFINE Step(s, g) == IF s = {} THEN 0
                         ELSE LET x == CHOOSE x \in s : TRUE IN PhotoBytes(x) + g[s \ {x}]
           sum == CHOOSE g : g = [s \in SUBSET T |-> Step(s, g)]
           Q == {s \in SUBSET T : sum[s] = f[s]}
<1>1. Photos(T) = sum[T]
    BY DEF Photos, MapThenSumSet, MapThenFoldSet
<1>2. sum = [s \in SUBSET T |-> Step(s, sum)]
  <2> DEFINE g == [s \in SUBSET T |-> f[s]]
  <2>1. ASSUME NEW s \in SUBSET T
        PROVE  g[s] = Step(s, g)
    <3>1. f[s] = IF s = {} THEN 0 ELSE Pick(s).photos + f[s \ {Pick(s)}]
        BY DEF Unfolds
    <3>2. g[s] = f[s] /\ g[s \ {Pick(s)}] = f[s \ {Pick(s)}]
        OBVIOUS
    <3> HIDE DEF g
    <3> QED BY <3>1, <3>2 DEF Pick, PhotoBytes
  <2>2. g = [s \in SUBSET T |-> Step(s, g)]
    <3> HIDE DEF Step
    <3>1. g = [s \in SUBSET T |-> g[s]]
        OBVIOUS
    <3> HIDE DEF g
    <3> QED BY <2>1, <3>1
  <2> HIDE DEF g, Step
  <2> QED BY <2>2
<1> HIDE DEF sum
<1>3. \A s \in SUBSET T : sum[s] = IF s = {} THEN 0 ELSE Pick(s).photos + sum[s \ {Pick(s)}]
    BY <1>2 DEF Pick, PhotoBytes
<1>4. {} \in Q
    BY <1>3 DEF Unfolds
<1>5. ASSUME NEW s \in SUBSET T, s # {}, \A x \in s : s \ {x} \in Q
      PROVE  s \in Q
  <2>1. Pick(s) \in s
      BY <1>5 DEF Pick
  <2>2. sum[s \ {Pick(s)}] = f[s \ {Pick(s)}]
      BY <1>5, <2>1
  <2> QED BY <1>3, <1>5, <2>2 DEF Unfolds
<1>6. IsFiniteSet(T)
    BY FS_Subset
<1> HIDE DEF Q
<1>7. T \in Q
    BY <1>4, <1>5, <1>6, SubsetInduction
<1> QED BY <1>1, <1>7 DEF Q

(* The sum of no photos is 0, and one draft can be taken from any other sum.  *)
LEMMA PhotosAdd ==
    ASSUME NEW S \in SUBSET Drafts, IsFiniteSet(S)
    PROVE  /\ Photos({}) = 0
           /\ \A s \in SUBSET S : Photos(s) \in Nat
           /\ \A s \in SUBSET S : s # {} =>
                 Photos(s) = Pick(s).photos + Photos(s \ {Pick(s)})
<1> DEFINE op == [p \in S \X Nat |-> p[1].photos + p[2]]
<1>1. \A d \in S : d.photos \in Nat
    BY PhotosOfOne
<1>2. op \in [S \X Nat -> Nat]
    BY <1>1
<1>3. PICK f \in [SUBSET S -> Nat] : IsFold(f, S, 0, op)
  <2> HIDE DEF op
  <2> QED BY <1>2, FoldExists
<1>4. Unfolds(f, S)
  <2> SUFFICES ASSUME NEW s \in SUBSET S
               PROVE  f[s] = IF s = {} THEN 0 ELSE Pick(s).photos + f[s \ {Pick(s)}]
      BY DEF Unfolds
  <2>1. s # {} => Pick(s) \in S
      BY DEF Pick
  <2>2. f[s] = IF s = {} THEN 0 ELSE op[Pick(s), f[s \ {Pick(s)}]]
    <3> HIDE DEF op
    <3> QED BY <1>3 DEF IsFold
  <2>3. f[s \ {Pick(s)}] \in Nat
      OBVIOUS
  <2>4. s # {} => op[Pick(s), f[s \ {Pick(s)}]] = Pick(s).photos + f[s \ {Pick(s)}]
      BY <2>1, <2>3
  <2> QED BY <2>2, <2>4
<1>5. \A s \in SUBSET S : Photos(s) = f[s]
    BY <1>4, PhotosUnfold
<1> QED BY <1>4, <1>5 DEF Unfolds

(* The order in which drafts are added up does not matter.                    *)
LEMMA PhotosOfRest ==
    ASSUME NEW S \in SUBSET Drafts, IsFiniteSet(S), NEW x \in S
    PROVE  Photos(S) = x.photos + Photos(S \ {x})
<1> DEFINE Q == {s \in SUBSET S : \A d \in s : Photos(s) = d.photos + Photos(s \ {d})}
<1>1. {} \in Q
    OBVIOUS
<1>2. ASSUME NEW s \in SUBSET S, s # {}, \A d \in s : s \ {d} \in Q
      PROVE  s \in Q
  <2> SUFFICES ASSUME NEW d \in s PROVE Photos(s) = d.photos + Photos(s \ {d})
      OBVIOUS
  <2> DEFINE p == Pick(s)
  <2>1. p \in s /\ p \in Drafts /\ d \in Drafts
      BY DEF Pick
  <2>2. Photos(s) = p.photos + Photos(s \ {p})
      BY <1>2, PhotosAdd
  <2> HIDE DEF p
  <2>3. CASE d = p
      BY <2>2, <2>3
  <2>4. CASE d # p
    <3>1. s \ {p} \in Q /\ s \ {d} \in Q
        BY <1>2, <2>1
    <3>2. d \in s \ {p} /\ p \in s \ {d}
        BY <2>1, <2>4
    <3>3. Photos(s \ {p}) = d.photos + Photos((s \ {p}) \ {d})
        BY <3>1, <3>2
    <3>4. Photos(s \ {d}) = p.photos + Photos((s \ {d}) \ {p})
        BY <3>1, <3>2
    <3>5. Photos((s \ {p}) \ {d}) = Photos((s \ {d}) \ {p})
      <4>1. (s \ {p}) \ {d} = (s \ {d}) \ {p}
          OBVIOUS
      <4> QED BY <4>1
    <3>6. (s \ {d}) \ {p} \in SUBSET S
        OBVIOUS
    <3>7. Photos((s \ {d}) \ {p}) \in Nat
        BY <3>6, PhotosAdd
    <3>8. p.photos \in Nat /\ d.photos \in Nat
        BY <2>1, PhotosOfOne
    <3>9. \A a, b, c \in Nat : a + (b + c) = b + (a + c)
        OBVIOUS
    <3> QED BY ONLY <2>2, <3>3, <3>4, <3>5, <3>7, <3>8, <3>9
  <2> QED BY <2>3, <2>4
<1> HIDE DEF Q
<1>3. S \in Q
    BY <1>1, <1>2, SubsetInduction
<1> QED BY <1>3 DEF Q

(* Fewer drafts have no more photos.                                          *)
LEMMA PhotosOfFewer ==
    ASSUME NEW S \in SUBSET Drafts, IsFiniteSet(S), NEW T \in SUBSET S
    PROVE  Photos(T) <= Photos(S)
<1> DEFINE Q == {s \in SUBSET S : \A u \in SUBSET s : Photos(u) <= Photos(s)}
<1>0. \A s \in SUBSET S : Photos(s) \in Nat
    BY PhotosAdd
<1>1. {} \in Q
  <2>1. Photos({}) <= Photos({})
      BY PhotosAdd
  <2> QED BY <2>1
<1>2. ASSUME NEW s \in SUBSET S, s # {}, \A d \in s : s \ {d} \in Q
      PROVE  s \in Q
  <2> SUFFICES ASSUME NEW u \in SUBSET s PROVE Photos(u) <= Photos(s)
      OBVIOUS
  <2>1. CASE u = s
      BY <1>0, <2>1
  <2>2. CASE u # s
    <3>1. PICK d \in s : d \notin u
        BY <2>2
    <3>2. u \in SUBSET (s \ {d}) /\ s \ {d} \in Q
        BY <1>2, <3>1
    <3>3. Photos(u) <= Photos(s \ {d})
        BY <3>2
    <3>4. s \in SUBSET Drafts /\ IsFiniteSet(s)
        BY FS_Subset
    <3>5. Photos(s) = d.photos + Photos(s \ {d})
        BY <3>4, PhotosOfRest
    <3>6. d.photos \in Nat
        BY <3>4, PhotosOfOne
    <3>7. Photos(u) \in Nat /\ Photos(s \ {d}) \in Nat
        BY <1>0
    <3> HIDE DEF Q
    <3> QED BY <3>3, <3>5, <3>6, <3>7
  <2> QED BY <2>1, <2>2
<1> HIDE DEF Q
<1>3. S \in Q
    BY <1>1, <1>2, SubsetInduction
<1> QED BY <1>3 DEF Q

(* What stays after the oldest drafts made room leaves room for one more: it  *)
(* is no more than what is as new as its oldest one.                          *)
LEMMA EvictLeavesRoom ==
    ASSUME NEW pool \in SUBSET Drafts, IsFiniteSet(pool), NEW photos \in PhotoSizes
    PROVE  /\ IsFiniteSet(Evict(pool, photos))
           /\ Cardinality(Evict(pool, photos)) \in Nat
           /\ Cardinality(Evict(pool, photos)) < DraftLimit
           /\ photos + Photos(Evict(pool, photos)) <= PhotoBudget
<1> DEFINE kept == Evict(pool, photos)
           since(d) == {e \in pool : e.token >= d.token}
<1>1. IsFiniteSet(kept) /\ Cardinality(kept) \in Nat
    BY EvictKeepsOld, FS_Subset, FS_CardinalityType
<1>2. CASE kept = {}
  <2>1. Photos(kept) = 0
    <3> HIDE DEF kept
    <3> QED BY <1>2, FS_EmptySet, PhotosAdd
  <2>2. photos <= PhotoBudget /\ photos \in Nat
      BY PhotosOfOne
  <2> QED BY <1>1, <1>2, <2>1, <2>2, FS_EmptySet, DraftLimitAssumption
<1>3. CASE kept # {}
  <2>1. \A d \in kept : /\ d \in pool /\ d.token \in Nat /\ Cardinality(since(d)) < DraftLimit
                        /\ photos + Photos(since(d)) <= PhotoBudget
      BY DEF Evict, Fits, Drafts, Photos
  <2>2. {d.token : d \in kept} \in SUBSET Nat /\ {d.token : d \in kept} # {}
      BY <1>3, <2>1
  <2>a. PICK m \in {d.token : d \in kept} : \A n \in {d.token : d \in kept} : m <= n
    <3> HIDE DEF kept
    <3> QED BY <2>2, NatMin
  <2>3. PICK oldest \in kept : \A d \in kept : oldest.token <= d.token
    <3>1. PICK oldest \in kept : oldest.token = m
        OBVIOUS
    <3> QED BY <2>a, <3>1
  <2>4. kept \subseteq since(oldest)
      BY <2>1, <2>3
  <2>5. IsFiniteSet(since(oldest))
      BY FS_Subset
  <2>6. Cardinality(kept) <= Cardinality(since(oldest)) /\ Cardinality(since(oldest)) \in Nat
      BY <2>4, <2>5, FS_Subset, FS_CardinalityType
  <2>7. /\ Photos(kept) <= Photos(since(oldest))
        /\ Photos(kept) \in Nat /\ Photos(since(oldest)) \in Nat
    <3>1. kept \in SUBSET since(oldest) /\ since(oldest) \in SUBSET Drafts
        BY <2>4
    <3> HIDE DEF kept, since
    <3> QED BY <2>5, <3>1, PhotosOfFewer, PhotosAdd
  <2>8. photos + Photos(kept) <= PhotoBudget
    <3>1. photos + Photos(since(oldest)) <= PhotoBudget /\ photos \in Nat /\ PhotoBudget \in Nat
        BY <2>1, PhotosOfOne, PhotoAssumption
    <3> HIDE DEF kept, since
    <3> QED BY <2>7, <3>1
  <2> QED BY <1>1, <2>1, <2>6, <2>8, DraftLimitAssumption
<1> QED BY <1>1, <1>2, <1>3

(* Only the tail of prepare() adds a draft.                                   *)
LEMMA DraftSteps ==
    ASSUME [Next]_vars
    PROVE  drafts' \subseteq drafts \/ (task # NoTask /\ Draft)
<1> USE DEF draftVars, vars
<1>1. CASE LastAttempt \/ Inspect \/ ExpireDraft
    BY <1>1 DEF LastAttempt, Inspect, ExpireDraft
<1>2. CASE Prepare \/ Confirm \/ Unlock
    BY <1>2 DEF Prepare, PrepareBegin, Confirm, ConfirmBegin, Unlock, Acknowledge
<1>3. CASE Proceed
    BY <1>3 DEF Proceed, PrepareRead, ConfirmRead, ReadThenSource, SourceHolds, GiveUp,
                Attempt, WriteLands, SaveReturns, SaveRaises, Post, Refuse, TokenFails, ReplyArrives,
                ReplyLost, Preparing
<1>4. CASE Environment
    BY <1>4 DEF Environment, CabinetHandles, Cancel, CancelAgain, OrphanLands, Crash, PowerFails,
                Restart, Authorize, Relink, BeginUnload, BeginClose, FinishClose, SetUp
<1> QED BY <1>1, <1>2, <1>3, <1>4 DEF Next

(* No step takes the drafts out of their budget.                              *)
LEMMA BudgetNext ==
    ASSUME Typed, IsFiniteSet(drafts), DraftBudget, [Next]_vars
    PROVE  IsFiniteSet(drafts)' /\ DraftBudget'
<1>1. drafts \subseteq Drafts /\ Cardinality(drafts) \in Nat
    BY FS_CardinalityType DEF Typed, TypeOK
<1>a. FewDrafts /\ Photos(drafts) <= PhotoBudget /\ PhotoBudget \in Nat
    BY PhotoAssumption DEF DraftBudget, Photos
<1>b. SUFFICES IsFiniteSet(drafts') /\ FewDrafts' /\ Photos(drafts') <= PhotoBudget
    BY DEF DraftBudget, Photos
<1>2. CASE drafts' \subseteq drafts
  <2>1. IsFiniteSet(drafts') /\ Cardinality(drafts') <= Cardinality(drafts)
        /\ Cardinality(drafts') \in Nat
      BY <1>2, FS_Subset, FS_CardinalityType
  <2>2. FewDrafts'
      BY <1>1, <1>2, <1>a, <2>1, DraftLimitAssumption DEF FewDrafts
  <2>3. /\ Photos(drafts') <= Photos(drafts)
        /\ Photos(drafts') \in Nat /\ Photos(drafts) \in Nat
      BY <1>1, <1>2, PhotosOfFewer, PhotosAdd
  <2> QED BY <1>a, <2>1, <2>2, <2>3
<1>3. CASE task \in Drafts /\ Draft
  <2> DEFINE others == {d \in drafts : d.number # task.number \/ d.user # task.user}
             kept   == Evict(others, task.photos)
             new    == [task EXCEPT !.token = nextToken]
  <2>0. new \in Drafts /\ new.photos = task.photos /\ task.photos \in PhotoSizes
      BY <1>3 DEF Drafts, Typed, TypeOK
  <2>1. others \in SUBSET Drafts /\ IsFiniteSet(others) /\ kept \subseteq others
      BY <1>1, EvictKeepsOld, FS_Subset
  <2>2. IsFiniteSet(kept) /\ Cardinality(kept) \in Nat /\ Cardinality(kept) < DraftLimit
        /\ task.photos + Photos(kept) <= PhotoBudget
    <3>1. task.photos \in PhotoSizes
        BY <1>3 DEF Drafts
    <3> HIDE DEF others
    <3> QED BY <2>1, <3>1, EvictLeavesRoom
  <2>3. drafts' = kept \cup {new}
      BY <1>3 DEF Draft
  <2>4. new.number = task.number /\ new.user = task.user
      OBVIOUS
  <2>5. \A d \in kept : d.number # new.number \/ d.user # new.user
      BY <2>1, <2>4
  <2>6. \A d, e \in kept : d \in drafts /\ e \in drafts
      BY <2>1
  <2> HIDE DEF kept, new, others
  <2>7. IsFiniteSet(drafts') /\ Cardinality(drafts') <= DraftLimit
    <3>1. IsFiniteSet(kept \cup {new})
        BY <2>2, FS_AddElement
    <3>2. \/ Cardinality(kept \cup {new}) = Cardinality(kept)
          \/ Cardinality(kept \cup {new}) = Cardinality(kept) + 1
        BY <2>2, FS_AddElement
    <3>3. Cardinality(kept \cup {new}) <= DraftLimit
        BY ONLY <2>2, <3>2, DraftLimitAssumption
    <3> QED BY <2>3, <3>1, <3>3
  <2>8. FewDrafts'
      BY <1>a, <2>3, <2>5, <2>6, <2>7 DEF FewDrafts
  <2>9. Photos(drafts') <= PhotoBudget
    <3>1. drafts' \in SUBSET Drafts /\ new \in drafts' /\ drafts' \ {new} \in SUBSET kept
        BY <2>0, <2>1, <2>3
    <3>2. kept \in SUBSET Drafts
        BY <2>1
    <3>3. Photos(drafts') = new.photos + Photos(drafts' \ {new})
        BY <2>7, <3>1, PhotosOfRest
    <3>4. /\ Photos(drafts' \ {new}) <= Photos(kept)
          /\ Photos(drafts' \ {new}) \in Nat /\ Photos(kept) \in Nat
        BY <2>2, <3>1, <3>2, PhotosOfFewer, PhotosAdd
    <3>5. new.photos = task.photos /\ task.photos \in Nat
        BY <2>0, PhotosOfOne
    <3> QED BY <1>a, <2>2, <3>3, <3>4, <3>5
  <2> QED BY <2>7, <2>8, <2>9
<1>4. task # NoTask => task \in Drafts
    BY DEF Typed, TypeOK
<1> QED BY <1>2, <1>3, <1>4, DraftSteps

(* Memory never holds more drafts or photos than allowed, nor two drafts of a *)
(* user for one account, however requests to prepare one interleave with the  *)
(* rest: the loop in prepare() that drops the oldest drafts does not stop     *)
(* early.                                                                     *)
THEOREM DraftsStayInBudget == Spec => []DraftBudget
<1>1. Init => Typed /\ IsFiniteSet(drafts) /\ DraftBudget
  <2>1. Photos({}) = 0 /\ Cardinality({}) = 0 /\ IsFiniteSet({})
      BY FS_EmptySet, PhotosAdd
  <2> QED BY TypedInit, <2>1, PhotoAssumption, DraftLimitAssumption
          DEF Init, FewDrafts, DraftBudget, Photos
<1>2. Typed /\ (IsFiniteSet(drafts) /\ DraftBudget) /\ [Next]_vars
          => Typed' /\ (IsFiniteSet(drafts)' /\ DraftBudget')
    BY TypedNext, BudgetNext
<1> QED BY <1>1, <1>2, PTL DEF Spec

-------------------------------------------------------------------------------

(* The instant t is in one of the ranges, and ranges that neither overlap nor *)
(* touch.                                                                     *)
In(t, ranges) == \E r \in ranges : r[1] <= t /\ t < r[2]
Separated(ranges) == \A m, n \in ranges : m = n \/ m[2] < n[1] \/ n[2] < m[1]

(* What a range of instants is, and how one is made.                          *)
LEMMA SpanTyping ==
    ASSUME AddressAssumption, NEW r \in A!Spans
    PROVE  /\ r = <<r[1], r[2]>> /\ r[1] \in 0..Horizon /\ r[2] \in 0..Horizon /\ r[1] < r[2]
           /\ Horizon \in Nat
BY DEF A!Spans, A!Instants, AddressAssumption, A!AddressConstants

(* Two instants in order make a range.                                        *)
LEMMA SpanMaking ==
    ASSUME NEW a \in 0..Horizon, NEW b \in 0..Horizon, a < b
    PROVE  <<a, b>> \in A!Spans
BY DEF A!Spans, A!Instants

(* The least member of a set of instants.                                     *)
LEMMA MinOf ==
    ASSUME NEW N, N \subseteq Nat, N # {}
    PROVE  A!Min(N) \in N /\ \A n \in N : A!Min(N) <= n
BY NatMin DEF A!Min

(* The same for the greatest member, by reflection.                           *)
LEMMA MaxOf ==
    ASSUME NEW h \in Nat, NEW N, N \subseteq 0..h, N # {}
    PROVE  A!Max(N) \in N /\ \A n \in N : A!Max(N) >= n
<1> DEFINE D == {h - n : n \in N}
<1>1. D \subseteq Nat /\ D # {}
  <2>1. \A n \in N : h - n \in Nat
      OBVIOUS
  <2> QED BY <2>1
<1>2. PICK d \in D : \A e \in D : d <= e
  <2> HIDE DEF D
  <2> QED BY <1>1, NatMin
<1>3. PICK m \in N : d = h - m
    OBVIOUS
<1>4. \A n \in N : m >= n
  <2> TAKE n \in N
  <2>1. h - m <= h - n
      BY <1>2, <1>3
  <2> QED BY <2>1
<1> QED BY <1>4 DEF A!Max

(* merge_ranges(), one range at a time: what is merged stays separate, and    *)
(* says what it said and the new range.                                       *)
LEMMA AbsorbMerges ==
    ASSUME AddressAssumption, NEW range \in A!Spans, NEW merged \in SUBSET A!Spans, Separated(merged)
    PROVE  /\ A!Absorb(range, merged) \in SUBSET A!Spans
           /\ Separated(A!Absorb(range, merged))
           /\ \A t \in Int : In(t, A!Absorb(range, merged)) <=> In(t, merged) \/ In(t, {range})
<1> DEFINE met == {m \in merged : m[1] <= range[2] /\ range[1] <= m[2]} \cup {range}
           starts == {m[1] : m \in met}
           ends == {m[2] : m \in met}
           lo == A!Min(starts)
           hi == A!Max(ends)
           whole == <<lo, hi>>
<1>1. A!Absorb(range, merged) = (merged \ met) \cup {whole}
    BY DEF A!Absorb
<1>2. \A m \in met \cup merged : m[1] \in 0..Horizon /\ m[2] \in 0..Horizon /\ m[1] < m[2]
    BY SpanTyping
<1>3. Horizon \in Nat
    BY SpanTyping
<1>4. lo \in starts /\ \A m \in met : lo <= m[1]
  <2>1. starts \subseteq Nat /\ starts # {} /\ \A m \in met : m[1] \in starts
      BY <1>2
  <2> HIDE DEF starts, met
  <2> QED BY <2>1, MinOf
<1>5. hi \in ends /\ \A m \in met : m[2] <= hi
  <2>1. ends \subseteq 0..Horizon /\ ends # {} /\ \A m \in met : m[2] \in ends
      BY <1>2
  <2>2. hi \in ends /\ \A n \in ends : hi >= n
    <3> HIDE DEF ends, met
    <3> QED BY <2>1, <1>3, MaxOf
  <2> HIDE DEF hi
  <2> QED BY <2>1, <2>2
<1>6. PICK first \in met : lo = first[1]
    BY <1>4
<1>7. PICK last \in met : hi = last[2]
    BY <1>5
<1> HIDE DEF lo, hi
<1>8. /\ lo \in 0..Horizon /\ hi \in 0..Horizon /\ lo < hi
      /\ lo <= range[1] /\ range[2] <= hi
    BY <1>2, <1>4, <1>5, <1>6, <1>7
<1>9. whole \in A!Spans
    BY <1>8, SpanMaking
<1>10. \A n \in merged \ met : hi < n[1] \/ n[2] < lo
  <2> TAKE n \in merged \ met
  <2>1. n[1] > range[2] \/ n[2] < range[1]
      BY <1>2
  <2>2. \A m \in met : m = range \/ (m \in merged /\ m # n /\ m[1] <= range[2] /\ range[1] <= m[2])
      OBVIOUS
  <2>3. \A m \in met : m = range \/ m[2] < n[1] \/ n[2] < m[1]
      BY <2>2 DEF Separated
  <2>4. n \in merged /\ n[1] \in 0..Horizon /\ n[2] \in 0..Horizon /\ n[1] < n[2]
      BY <1>2
  <2> HIDE DEF met
  <2>5. CASE n[1] > range[2]
    <3> range[1] \in 0..Horizon /\ range[2] \in 0..Horizon
        BY SpanTyping
    <3>1. \A m \in met : m[2] < n[1]
      <4> TAKE m \in met
      <4>1. m[1] \in 0..Horizon /\ m[2] \in 0..Horizon /\ m[1] < m[2]
          BY <1>2
      <4>2. m = range \/ (m[1] <= range[2] /\ range[1] <= m[2])
          BY <2>2
      <4> QED BY <1>3, <4>1, <4>2, <2>3, <2>4, <2>5
    <3> QED BY <3>1, <1>7
  <2>6. CASE n[2] < range[1]
    <3> range[1] \in 0..Horizon /\ range[2] \in 0..Horizon
        BY SpanTyping
    <3>1. \A m \in met : n[2] < m[1]
      <4> TAKE m \in met
      <4>1. m[1] \in 0..Horizon /\ m[2] \in 0..Horizon /\ m[1] < m[2]
          BY <1>2
      <4>2. m = range \/ (m[1] <= range[2] /\ range[1] <= m[2])
          BY <2>2
      <4> QED BY <1>3, <4>1, <4>2, <2>3, <2>4, <2>6
    <3> QED BY <3>1, <1>6
  <2> QED BY <2>1, <2>5, <2>6
<1>11. Separated((merged \ met) \cup {whole})
  <2>1. \A m, n \in merged \ met : m = n \/ m[2] < n[1] \/ n[2] < m[1]
      BY DEF Separated
  <2>2. whole[1] = lo /\ whole[2] = hi
      OBVIOUS
  <2> HIDE DEF met, whole
  <2> QED BY <2>1, <2>2, <1>10 DEF Separated
<1>12. ASSUME NEW t \in Int
       PROVE  In(t, (merged \ met) \cup {whole}) <=> In(t, merged) \/ In(t, {range})
  <2>0. In(t, (merged \ met) \cup {whole}) <=> In(t, merged \ met) \/ (lo <= t /\ t < hi)
    <3>1. whole[1] = lo /\ whole[2] = hi
        OBVIOUS
    <3> HIDE DEF met, whole
    <3> QED BY <3>1 DEF In
  <2>1. In(t, met) => lo <= t /\ t < hi
      BY <1>2, <1>4, <1>5, <1>8 DEF In
  <2>2. ASSUME lo <= t, t < hi PROVE In(t, merged) \/ In(t, {range})
    <3>1. CASE t < range[1]
      <4>1. first \in merged /\ first[1] <= t /\ t < first[2]
          BY <3>1, <2>2, <1>2, <1>6
      <4> QED BY <4>1 DEF In
    <3>2. CASE t >= range[2]
      <4>1. last \in merged /\ last[1] <= t /\ t < last[2]
          BY <3>2, <2>2, <1>2, <1>7
      <4> QED BY <4>1 DEF In
    <3>3. CASE range[1] <= t /\ t < range[2]
        BY <3>3 DEF In
    <3> QED BY <3>1, <3>2, <3>3, <1>2
  <2>3. In(t, merged) \/ In(t, {range}) <=> In(t, merged \ met) \/ In(t, met)
      BY DEF In
  <2>4. In(t, merged \ met) => In(t, merged)
      BY DEF In
  <2> QED BY <2>0, <2>1, <2>2, <2>3, <2>4
<1> HIDE DEF met, whole
<1> QED BY <1>1, <1>9, <1>11, <1>12

(* Separate ranges are determined by the instants in them.                    *)
LEMMA Canonical ==
    ASSUME AddressAssumption, NEW these \in SUBSET A!Spans, NEW those \in SUBSET A!Spans,
           Separated(these), Separated(those),
           \A t \in Int : In(t, these) => In(t, those), \A t \in Int : In(t, those) => In(t, these)
    PROVE  these \subseteq those
<1> SUFFICES ASSUME NEW m \in these PROVE m \in those
    OBVIOUS
<1>1. \A x \in these \cup those : x = <<x[1], x[2]>> /\ x[1] \in Int /\ x[2] \in Int /\ x[1] < x[2]
    BY SpanTyping
<1>2. PICK n \in those : n[1] <= m[1] /\ m[1] < n[2]
  <2>1. In(m[1], these) /\ m[1] \in Int
      BY <1>1 DEF In
  <2> QED BY <2>1 DEF In
<1>3. n[1] = m[1]
  <2>1. SUFFICES ASSUME n[1] < m[1] PROVE FALSE
      BY <1>1, <1>2
  <2>2. In(m[1] - 1, those) /\ m[1] - 1 \in Int
      BY <1>1, <1>2, <2>1 DEF In
  <2>3. PICK x \in these : x[1] <= m[1] - 1 /\ m[1] - 1 < x[2]
      BY <2>2 DEF In
  <2>4. x # m /\ ~(x[2] < m[1]) /\ ~(m[2] < x[1])
      BY <2>3, <1>1
  <2> QED BY <2>4 DEF Separated
<1>4. n[2] = m[2]
  <2>1. ASSUME m[2] < n[2] PROVE FALSE
    <3>1. In(m[2], those) /\ m[2] \in Int
        BY <1>1, <1>3, <2>1 DEF In
    <3>2. PICK x \in these : x[1] <= m[2] /\ m[2] < x[2]
        BY <3>1 DEF In
    <3>3. x # m /\ ~(x[2] < m[1]) /\ ~(m[2] < x[1])
        BY <3>2, <1>1
    <3> QED BY <3>3 DEF Separated
  <2>2. ASSUME n[2] < m[2] PROVE FALSE
    <3>1. In(n[2], these) /\ n[2] \in Int
        BY <1>1, <1>3, <2>2 DEF In
    <3>2. PICK x \in those : x[1] <= n[2] /\ n[2] < x[2]
        BY <3>1 DEF In
    <3>3. x # n /\ ~(x[2] < n[1]) /\ ~(n[2] < x[1])
        BY <3>2, <1>1
    <3> QED BY <3>3 DEF Separated
  <2> QED BY <1>1, <2>1, <2>2
<1>5. m = n
    BY <1>1, <1>3, <1>4
<1> QED BY <1>5

(* There are finitely many ranges of instants, so any set of them can be      *)
(* folded.                                                                    *)
LEMMA SpansAreFew ==
    ASSUME AddressAssumption
    PROVE  IsFiniteSet(A!Spans)
<1>1. IsFiniteSet(0..Horizon)
    BY FS_Interval DEF AddressAssumption, A!AddressConstants
<1>2. IsFiniteSet((0..Horizon) \X (0..Horizon))
    BY <1>1, FS_Product
<1> QED BY <1>2, FS_Subset DEF A!Spans, A!Instants

(* merge_ranges() returns separate ranges of the same instants, in whatever   *)
(* order it takes them.                                                       *)
LEMMA RangesMerged ==
    ASSUME AddressAssumption, NEW S \in SUBSET A!Spans
    PROVE  LET merged == A!FoldSet(A!Absorb, {}, S)
           IN  /\ merged \in SUBSET A!Spans /\ Separated(merged)
               /\ \A t \in Int : In(t, merged) <=> In(t, S)
<1> DEFINE B == {m \in SUBSET A!Spans : Separated(m)}
           op == [p \in S \X B |-> A!Absorb(p[1], p[2])]
           Step(s, f) == IF s = {} THEN {} ELSE LET x == CHOOSE x \in s : TRUE
                                                IN  A!Absorb(x, f[s \ {x}])
           fold == CHOOSE f : f = [s \in SUBSET S |-> Step(s, f)]
           Q == {s \in SUBSET S : fold[s] \in B /\ \A t \in Int : In(t, fold[s]) <=> In(t, s)}
<1>1. A!FoldSet(A!Absorb, {}, S) = fold[S]
    BY DEF A!FoldSet, A!MapThenFoldSet
<1>2. IsFiniteSet(S)
    BY SpansAreFew, FS_Subset
<1>3. {} \in B /\ op \in [S \X B -> B]
  <2>1. {} \in B
      BY DEF Separated
  <2>2. \A x \in S, m \in B : A!Absorb(x, m) \in B
      BY AbsorbMerges
  <2> HIDE DEF B
  <2> QED BY <2>1, <2>2
<1>4. PICK f \in [SUBSET S -> B] : IsFold(f, S, {}, op)
  <2> HIDE DEF B, op
  <2> QED BY <1>2, <1>3, FoldExists
<1>5. f = [s \in SUBSET S |-> Step(s, f)]
  <2>1. ASSUME NEW s \in SUBSET S
        PROVE  f[s] = Step(s, f)
    <3>1. s # {} => Pick(s) \in S /\ f[s \ {Pick(s)}] \in B
        BY DEF Pick
    <3> HIDE DEF B
    <3>2. s # {} => op[Pick(s), f[s \ {Pick(s)}]] = A!Absorb(Pick(s), f[s \ {Pick(s)}])
        BY <3>1
    <3> HIDE DEF op
    <3> QED BY <1>4, <3>2 DEF IsFold, Pick
  <2> HIDE DEF B, Step
  <2> QED BY <2>1
<1>6. fold = [s \in SUBSET S |-> Step(s, fold)]
  <2> HIDE DEF Step
  <2> QED BY <1>5
<1>7. {} \in Q
  <2>1. fold[{}] = {}
    <3> HIDE DEF fold
    <3> QED BY <1>6
  <2> HIDE DEF fold
  <2> QED BY <1>3, <2>1 DEF In
<1>8. ASSUME NEW s \in SUBSET S, s # {}, \A x \in s : s \ {x} \in Q
      PROVE  s \in Q
  <2>1. Pick(s) \in s /\ Pick(s) \in A!Spans
      BY <1>8 DEF Pick
  <2> DEFINE rest == s \ {Pick(s)}
  <2>2. fold[s] = A!Absorb(Pick(s), fold[rest])
    <3> HIDE DEF fold
    <3> QED BY <1>6, <1>8 DEF Pick
  <2>3. rest \in Q
      BY <1>8, <2>1
  <2>a. /\ fold[rest] \in SUBSET A!Spans /\ Separated(fold[rest])
        /\ \A t \in Int : In(t, fold[rest]) <=> In(t, rest)
    <3> HIDE DEF fold
    <3> QED BY <2>3
  <2> HIDE DEF fold
  <2>4. /\ fold[s] \in B
        /\ \A t \in Int : In(t, fold[s]) <=> In(t, fold[rest]) \/ In(t, {Pick(s)})
    <3> DEFINE old == fold[rest]
    <3>1. /\ A!Absorb(Pick(s), old) \in SUBSET A!Spans
          /\ Separated(A!Absorb(Pick(s), old))
          /\ \A t \in Int : In(t, A!Absorb(Pick(s), old)) <=> In(t, old) \/ In(t, {Pick(s)})
      <4> HIDE DEF old
      <4>1. old \in SUBSET A!Spans /\ Separated(old)
          BY <2>a DEF old
      <4> QED BY <4>1, <2>1, AbsorbMerges
    <3> QED BY <3>1, <2>2
  <2>5. \A t \in Int : In(t, s) <=> In(t, rest) \/ In(t, {Pick(s)})
      BY <2>1 DEF In
  <2> HIDE DEF B
  <2> QED BY <2>a, <2>4, <2>5
<1>9. S \in Q
  <2> HIDE DEF Q
  <2> QED BY <1>2, <1>7, <1>8, SubsetInduction
<1> HIDE DEF fold
<1> QED BY <1>1, <1>9

(* The greater and the lesser of two instants.                                *)
LEMMA MaxOfTwo ==
    ASSUME NEW a \in Int, NEW b \in Int
    PROVE  A!Max({a, b}) = IF a >= b THEN a ELSE b
<1> DEFINE m == IF a >= b THEN a ELSE b
<1>1. m \in {a, b} /\ \A y \in {a, b} : m >= y
    OBVIOUS
<1>2. A!Max({a, b}) \in {a, b} /\ \A y \in {a, b} : A!Max({a, b}) >= y
  <2> HIDE DEF m
  <2> QED BY <1>1 DEF A!Max
<1> QED BY <1>2

(* The smaller of two, likewise.                                              *)
LEMMA MinOfTwo ==
    ASSUME NEW a \in Int, NEW b \in Int
    PROVE  A!Min({a, b}) = IF a <= b THEN a ELSE b
<1> DEFINE m == IF a <= b THEN a ELSE b
<1>1. m \in {a, b} /\ \A y \in {a, b} : m <= y
    OBVIOUS
<1>2. A!Min({a, b}) \in {a, b} /\ \A y \in {a, b} : A!Min({a, b}) <= y
  <2> HIDE DEF m
  <2> QED BY <1>1 DEF A!Min
<1> QED BY <1>2

(* The ranges to come are separate and hold the instants to come:             *)
(* unpublished_days() and the comparison of outages rest on it.               *)
LEMMA RangesSay ==
    ASSUME AddressAssumption, NEW S \in SUBSET A!Spans, NEW now \in 0..Horizon
    PROVE  /\ A!Ranges(S, now) \in SUBSET A!Spans /\ Separated(A!Ranges(S, now))
           /\ \A t \in Int : In(t, A!Ranges(S, now)) <=> (In(t, S) /\ now <= t)
<1> DEFINE late == {x \in S : x[2] > now}
           cut == {<<A!Max({r[1], now}), r[2]>> : r \in late}
<1>1. \A r \in late : /\ r[1] \in 0..Horizon /\ r[2] \in 0..Horizon /\ r[1] < r[2] /\ now < r[2]
                      /\ A!Max({r[1], now}) = IF r[1] >= now THEN r[1] ELSE now
  <2> TAKE r \in late
  <2>1. r[1] \in 0..Horizon /\ r[2] \in 0..Horizon /\ r[1] < r[2] /\ now < r[2]
      BY SpanTyping
  <2> HIDE DEF late
  <2> QED BY <2>1, MaxOfTwo
<1>2. cut \in SUBSET A!Spans
  <2>1. \A r \in late : <<A!Max({r[1], now}), r[2]>> \in A!Spans
    <3> TAKE r \in late
    <3>1. A!Max({r[1], now}) \in 0..Horizon /\ r[2] \in 0..Horizon /\ A!Max({r[1], now}) < r[2]
        BY <1>1
    <3> QED BY <3>1, SpanMaking
  <2> HIDE DEF late
  <2> QED BY <2>1
<1>3. ASSUME NEW t \in Int
      PROVE  In(t, cut) <=> (In(t, S) /\ now <= t)
  <2>1. In(t, cut) <=> \E r \in late : A!Max({r[1], now}) <= t /\ t < r[2]
    <3>1. ASSUME In(t, cut) PROVE \E r \in late : A!Max({r[1], now}) <= t /\ t < r[2]
      <4>1. PICK e \in cut : e[1] <= t /\ t < e[2]
          BY <3>1 DEF In
      <4>2. PICK r \in late : e = <<A!Max({r[1], now}), r[2]>>
          OBVIOUS
      <4> QED BY <4>1, <4>2
    <3>2. ASSUME NEW r \in late, A!Max({r[1], now}) <= t, t < r[2] PROVE In(t, cut)
      <4> DEFINE e == <<A!Max({r[1], now}), r[2]>>
      <4>1. e \in cut /\ e[1] = A!Max({r[1], now}) /\ e[2] = r[2]
          OBVIOUS
      <4> HIDE DEF e, cut
      <4> QED BY <3>2, <4>1 DEF In
    <3> QED BY <3>1, <3>2
  <2>2. \A r \in late : A!Max({r[1], now}) <= t <=> (r[1] <= t /\ now <= t)
      BY <1>1
  <2>3. In(t, S) /\ now <= t <=> \E r \in S : r[1] <= t /\ now <= t /\ t < r[2]
      BY DEF In
  <2>4. \A r \in S : now <= t /\ t < r[2] => r \in late
    <3> TAKE r \in S
    <3>1. r[2] \in 0..Horizon
        BY SpanTyping
    <3> QED BY <3>1
  <2>5. late \subseteq S
      OBVIOUS
  <2> HIDE DEF late, cut
  <2> QED BY <2>1, <2>2, <2>3, <2>4, <2>5
<1>4. A!Ranges(S, now) = A!FoldSet(A!Absorb, {}, cut)
    BY DEF A!Ranges
<1> HIDE DEF cut
<1> QED BY <1>2, <1>3, <1>4, RangesMerged

(* Two schedules that split the same time into different rows compare as      *)
(* equal.                                                                     *)
LEMMA SameRanges ==
    ASSUME AddressAssumption, NEW S \in SUBSET A!Spans, NEW T \in SUBSET A!Spans, NEW now \in 0..Horizon,
           NEW at \in 0..Horizon
    PROVE  A!Ranges(S, now) = A!Ranges(T, at) <=>
              \A t \in Int : (In(t, S) /\ now <= t) <=> (In(t, T) /\ at <= t)
<1>1. /\ A!Ranges(S, now) \in SUBSET A!Spans /\ Separated(A!Ranges(S, now))
      /\ \A t \in Int : In(t, A!Ranges(S, now)) <=> (In(t, S) /\ now <= t)
    BY RangesSay
<1>2. /\ A!Ranges(T, at) \in SUBSET A!Spans /\ Separated(A!Ranges(T, at))
      /\ \A t \in Int : In(t, A!Ranges(T, at)) <=> (In(t, T) /\ at <= t)
    BY RangesSay
<1>3. ASSUME \A t \in Int : (In(t, S) /\ now <= t) <=> (In(t, T) /\ at <= t)
      PROVE  A!Ranges(S, now) = A!Ranges(T, at)
  <2>1. /\ \A t \in Int : In(t, A!Ranges(S, now)) => In(t, A!Ranges(T, at))
        /\ \A t \in Int : In(t, A!Ranges(T, at)) => In(t, A!Ranges(S, now))
      BY <1>1, <1>2, <1>3
  <2>2. A!Ranges(S, now) \subseteq A!Ranges(T, at)
      BY <1>1, <1>2, <2>1, Canonical
  <2>3. A!Ranges(T, at) \subseteq A!Ranges(S, now)
      BY <1>1, <1>2, <2>1, Canonical
  <2> QED BY <2>2, <2>3
<1> QED BY <1>1, <1>2, <1>3

(* What two sets of ranges have in common.                                    *)
LEMMA CommonSays ==
    ASSUME AddressAssumption, NEW these \in SUBSET A!Spans, NEW those \in SUBSET A!Spans
    PROVE  /\ A!Common(these, those) \in SUBSET A!Spans
           /\ \A t \in Int : In(t, A!Common(these, those)) <=> (In(t, these) /\ In(t, those))
<1>1. ASSUME NEW r \in these, NEW s \in those
      PROVE  /\ A!Meet(r, s)[1] = IF r[1] >= s[1] THEN r[1] ELSE s[1]
             /\ A!Meet(r, s)[2] = IF r[2] <= s[2] THEN r[2] ELSE s[2]
             /\ A!Overlap(r, s) => A!Meet(r, s) \in A!Spans
  <2>1. /\ r[1] \in 0..Horizon /\ r[2] \in 0..Horizon /\ r[1] < r[2]
        /\ s[1] \in 0..Horizon /\ s[2] \in 0..Horizon /\ s[1] < s[2]
      BY SpanTyping
  <2> DEFINE a == IF r[1] >= s[1] THEN r[1] ELSE s[1]
             b == IF r[2] <= s[2] THEN r[2] ELSE s[2]
  <2>2. A!Max({r[1], s[1]}) = a /\ A!Min({r[2], s[2]}) = b
      BY <2>1, MaxOfTwo, MinOfTwo
  <2>3. A!Meet(r, s) = <<a, b>>
      BY <2>2 DEF A!Meet
  <2>4. a \in 0..Horizon /\ b \in 0..Horizon
      BY <2>1
  <2>5. A!Overlap(r, s) => a < b
      BY <2>1 DEF A!Overlap
  <2> QED BY <2>3, <2>4, <2>5, SpanMaking
<1>2. A!Common(these, those) = {A!Meet(p[1], p[2]) : p \in {q \in these \X those : A!Overlap(q[1], q[2])}}
    BY DEF A!Common
<1>3. A!Common(these, those) \in SUBSET A!Spans
    BY <1>1, <1>2
<1>4. ASSUME NEW t \in Int
      PROVE  In(t, A!Common(these, those)) <=> (In(t, these) /\ In(t, those))
  <2>1. \A r \in these, s \in those :
           (A!Overlap(r, s) /\ A!Meet(r, s)[1] <= t /\ t < A!Meet(r, s)[2]) <=>
           (r[1] <= t /\ t < r[2] /\ s[1] <= t /\ t < s[2])
    <3> TAKE r \in these, s \in those
    <3>1. /\ r[1] \in 0..Horizon /\ r[2] \in 0..Horizon /\ r[1] < r[2]
          /\ s[1] \in 0..Horizon /\ s[2] \in 0..Horizon /\ s[1] < s[2]
        BY SpanTyping
    <3> QED BY <3>1, <1>1 DEF A!Overlap
  <2>2. In(t, A!Common(these, those)) <=>
           \E r \in these, s \in those : A!Overlap(r, s) /\ A!Meet(r, s)[1] <= t /\ t < A!Meet(r, s)[2]
    <3> DEFINE all == A!Common(these, those)
    <3>1. \A r \in these, s \in those : A!Overlap(r, s) => A!Meet(r, s) \in all
      <4> TAKE r \in these, s \in those
      <4> HAVE A!Overlap(r, s)
      <4> DEFINE q == <<r, s>>
      <4>1. q \in {p \in these \X those : A!Overlap(p[1], p[2])} /\ A!Meet(q[1], q[2]) = A!Meet(r, s)
          OBVIOUS
      <4> HIDE DEF q
      <4> QED BY <4>1, <1>2
    <3>2. \A e \in all : \E r \in these, s \in those : A!Overlap(r, s) /\ e = A!Meet(r, s)
      <4> TAKE e \in all
      <4>1. PICK p \in {q \in these \X those : A!Overlap(q[1], q[2])} : e = A!Meet(p[1], p[2])
          BY <1>2
      <4>2. p[1] \in these /\ p[2] \in those /\ A!Overlap(p[1], p[2])
          OBVIOUS
      <4> QED BY <4>1, <4>2
    <3> HIDE DEF all
    <3>3. In(t, all) <=> \E r \in these, s \in those :
             A!Overlap(r, s) /\ A!Meet(r, s)[1] <= t /\ t < A!Meet(r, s)[2]
        BY <3>1, <3>2 DEF In
    <3> QED BY <3>3 DEF all
  <2>3. (In(t, these) /\ In(t, those)) <=>
           \E r \in these, s \in those : r[1] <= t /\ t < r[2] /\ s[1] <= t /\ t < s[2]
      BY DEF In
  <2> QED BY <2>1, <2>2, <2>3
<1> QED BY <1>3, <1>4

-------------------------------------------------------------------------------
(* The rows of a schedule record, and those of a group and kind.              *)
Rows == [group : Groups, kind : A!Kinds, range : A!Spans]
Out(rows, g, k) == {i.range : i \in {x \in rows : x.group = g /\ x.kind = k}}

(* The parts of a record are sets of ranges.                                  *)
LEMMA RecordTyping ==
    ASSUME AddressAssumption, NEW rec \in A!Records, NEW g, NEW k
    PROVE  /\ rec.coverage \in SUBSET [group : Groups, range : A!Spans]
           /\ rec.intervals \in SUBSET Rows
           /\ A!Covered(rec, g) \in SUBSET A!Spans
           /\ A!Outages(rec, g, k) \in SUBSET A!Spans
           /\ A!Outages(rec, g, k) = Out(rec.intervals, g, k)
           /\ A!CoveredGroups(rec) \in SUBSET Groups
           /\ rec # NoSchedule /\ rec # NoReading
BY DEF A!Records, Rows, A!Covered, A!Outages, Out, A!CoveredGroups, AddressAssumption, A!AddressConstants

(* At, of a rec. *)
LEMMA AtSays ==
    ASSUME AddressAssumption, NEW rec \in A!Records, NEW g, NEW t
    PROVE  A!At(rec, g, t) =
              IF In(t, A!Covered(rec, g)) THEN {k \in A!Kinds : In(t, A!Outages(rec, g, k))}
              ELSE {"unverified"}
BY RecordTyping DEF A!At, In

(* Without a schedule nothing is verified.                                    *)
LEMMA NothingAt ==
    ASSUME NEW g, NEW t
    PROVE  A!At(NoSchedule, g, t) = {"unverified"}
BY DEF A!At

(* What a record says of a verified instant is never that it is unverified.   *)
LEMMA KindsAreKnown ==
    ASSUME NEW P, P \subseteq A!Kinds
    PROVE  P # {"unverified"}
BY DEF A!Kinds

(* Cutting a published range out of remembered rows removes its instants of   *)
(* its group, and nothing else.                                               *)
LEMMA CutSays ==
    ASSUME AddressAssumption, NEW c \in [group : Groups, range : A!Spans], NEW rows \in SUBSET Rows
    PROVE  /\ A!Cut(c, rows) \in SUBSET Rows
           /\ \A g \in Groups, k \in A!Kinds : \A t \in Int :
                 In(t, Out(A!Cut(c, rows), g, k)) <=>
                 In(t, Out(rows, g, k)) /\ ~(g = c.group /\ In(t, {c.range}))
<1> DEFINE met == {i \in rows : i.group = c.group /\ A!Overlap(i.range, c.range)}
           first == {x \in met : x.range[1] < c.range[1]}
           last == {x \in met : x.range[2] > c.range[2]}
           Before(i) == [i EXCEPT !.range = <<@[1], c.range[1]>>]
           After(i) == [i EXCEPT !.range = <<c.range[2], @[2]>>]
           before == {Before(i) : i \in first}
           after == {After(i) : i \in last}
           kept == rows \ met
<1>1. A!Cut(c, rows) = kept \cup before \cup after
    BY DEF A!Cut
<1>2. c.range \in A!Spans /\ c.range[1] \in 0..Horizon /\ c.range[2] \in 0..Horizon /\ c.range[1] < c.range[2]
    BY SpanTyping
<1>3. \A i \in rows : /\ i = [group |-> i.group, kind |-> i.kind, range |-> i.range]
                      /\ i.range[1] \in 0..Horizon /\ i.range[2] \in 0..Horizon /\ i.range[1] < i.range[2]
    BY SpanTyping DEF Rows
<1>4. \A i \in first : /\ Before(i) = [group |-> i.group, kind |-> i.kind, range |-> <<i.range[1], c.range[1]>>]
                       /\ <<i.range[1], c.range[1]>> \in A!Spans /\ Before(i) \in Rows
  <2> TAKE i \in first
  <2>1. i \in rows /\ i.range[1] < c.range[1]
      OBVIOUS
  <2>2. <<i.range[1], c.range[1]>> \in A!Spans
      BY <2>1, <1>2, <1>3, SpanMaking
  <2>3. Before(i) = [group |-> i.group, kind |-> i.kind, range |-> <<i.range[1], c.range[1]>>]
      BY <2>1, <1>3
  <2> QED BY <2>1, <2>2, <2>3 DEF Rows
<1>5. \A i \in last : /\ After(i) = [group |-> i.group, kind |-> i.kind, range |-> <<c.range[2], i.range[2]>>]
                      /\ <<c.range[2], i.range[2]>> \in A!Spans /\ After(i) \in Rows
  <2> TAKE i \in last
  <2>1. i \in rows /\ c.range[2] < i.range[2]
      BY <1>2, <1>3
  <2>2. <<c.range[2], i.range[2]>> \in A!Spans
      BY <2>1, <1>2, <1>3, SpanMaking
  <2>3. After(i) = [group |-> i.group, kind |-> i.kind, range |-> <<c.range[2], i.range[2]>>]
      BY <2>1, <1>3
  <2> QED BY <2>1, <2>2, <2>3 DEF Rows
<1>6. A!Cut(c, rows) \in SUBSET Rows
  <2> HIDE DEF first, last, Before, After
  <2>1. before \in SUBSET Rows /\ after \in SUBSET Rows
      BY <1>4, <1>5
  <2> QED BY <1>1, <2>1
<1>7. ASSUME NEW g \in Groups, NEW k \in A!Kinds, NEW t \in Int
      PROVE  In(t, Out(kept \cup before \cup after, g, k)) <=>
             In(t, Out(rows, g, k)) /\ ~(g = c.group /\ In(t, {c.range}))
  <2> DEFINE Is(i) == i.group = g /\ i.kind = k /\ i.range[1] <= t /\ t < i.range[2]
  <2>1. \A some : In(t, Out(some, g, k)) <=> \E i \in some : Is(i)
      BY DEF In, Out
  <2>2. In(t, {c.range}) <=> c.range[1] <= t /\ t < c.range[2]
      BY DEF In
  <2>3. \A i \in kept : Is(i) => ~(g = c.group /\ In(t, {c.range}))
      BY <1>2, <1>3, <2>2 DEF A!Overlap
  <2>4. \A i \in first : Is(Before(i)) <=> Is(i) /\ t < c.range[1]
    <3> TAKE i \in first
    <3>1. i \in rows /\ c.range[1] < i.range[2]
        BY DEF A!Overlap
    <3>2. /\ Before(i).group = i.group /\ Before(i).kind = i.kind
          /\ Before(i).range[1] = i.range[1] /\ Before(i).range[2] = c.range[1]
        BY <1>4
    <3> HIDE DEF Before
    <3> QED BY <1>2, <1>3, <3>1, <3>2
  <2>5. \A i \in last : Is(After(i)) <=> Is(i) /\ c.range[2] <= t
      BY <1>2, <1>3, <1>5 DEF A!Overlap
  <2>6. \A i \in met : Is(i) /\ ~(c.range[1] <= t /\ t < c.range[2]) =>
           (i \in first /\ t < c.range[1]) \/ (i \in last /\ c.range[2] <= t)
      BY <1>2, <1>3
  <2>7. first \subseteq rows /\ last \subseteq rows /\ kept \subseteq rows /\ rows \subseteq kept \cup met
      OBVIOUS
  <2>8. \A i \in met : i.group = c.group
      OBVIOUS
  <2> HIDE DEF met, first, last, kept, Before, After, Is
  <2>9. (\E i \in kept \cup before \cup after : Is(i)) <=>
           (\E i \in kept : Is(i)) \/ (\E i \in first : Is(Before(i))) \/ (\E i \in last : Is(After(i)))
      OBVIOUS
  <2>10. g = c.group \/ ~\E i \in met : Is(i)
      BY <2>8 DEF Is
  <2>11. first \subseteq met /\ last \subseteq met
      BY DEF first, last
  <2> DEFINE covered == c.range[1] <= t /\ t < c.range[2]
  <2>12. ASSUME \E i \in kept \cup before \cup after : Is(i)
         PROVE  (\E i \in rows : Is(i)) /\ ~(g = c.group /\ covered)
    <3>1. CASE \E i \in kept : Is(i)
        BY <3>1, <2>2, <2>3, <2>7
    <3>2. CASE \E i \in first : Is(Before(i))
        BY <3>2, <2>4, <2>7, <1>2
    <3>3. CASE \E i \in last : Is(After(i))
        BY <3>3, <2>5, <2>7, <1>2
    <3> QED BY <2>9, <2>12, <3>1, <3>2, <3>3
  <2>13. ASSUME NEW i \in rows, Is(i), ~(g = c.group /\ covered)
         PROVE  \E j \in kept \cup before \cup after : Is(j)
    <3>1. CASE i \in kept
        BY <3>1, <2>13, <2>9
    <3>2. CASE i \in met
      <4>1. ~covered
          BY <3>2, <2>10, <2>13
      <4>2. (i \in first /\ t < c.range[1]) \/ (i \in last /\ c.range[2] <= t)
          BY <3>2, <4>1, <2>6, <2>13
      <4> QED BY <4>2, <2>4, <2>5, <2>9, <2>13
    <3> QED BY <3>1, <3>2, <2>7
  <2> QED BY <2>1, <2>2, <2>12, <2>13
<1> HIDE DEF kept, before, after
<1> QED BY <1>1, <1>6, <1>7

(* There are finitely many ranges of groups.                                  *)
LEMMA PlacesAreFew ==
    ASSUME AddressAssumption
    PROVE  IsFiniteSet([group : Groups, range : A!Spans])
<1> DEFINE f == [p \in Groups \X A!Spans |-> [group |-> p[1], range |-> p[2]]]
           T == [group : Groups, range : A!Spans]
<1>1. IsFiniteSet(Groups \X A!Spans)
  <2>1. IsFiniteSet(Groups)
      BY DEF AddressAssumption, A!AddressConstants, A!IsFiniteSet, IsFiniteSet
  <2> QED BY <2>1, SpansAreFew, FS_Product
<1>2. f \in Surjection(Groups \X A!Spans, T)
  <2>1. \A c \in T : <<c.group, c.range>> \in Groups \X A!Spans /\ f[<<c.group, c.range>>] = c
      OBVIOUS
  <2>2. f \in [Groups \X A!Spans -> T]
      OBVIOUS
  <2> HIDE DEF f, T
  <2> QED BY <2>1, <2>2 DEF Surjection
<1> HIDE DEF f
<1> QED BY <1>1, <1>2, FS_Surjection

(* All published ranges are cut out, in whatever order they come.             *)
LEMMA AllCut ==
    ASSUME AddressAssumption, NEW S \in SUBSET [group : Groups, range : A!Spans], NEW rows \in SUBSET Rows
    PROVE  LET left == A!FoldSet(A!Cut, rows, S)
           IN  /\ left \in SUBSET Rows
               /\ \A g \in Groups, k \in A!Kinds : \A t \in Int :
                     In(t, Out(left, g, k)) <=>
                     In(t, Out(rows, g, k)) /\ ~\E c \in S : c.group = g /\ In(t, {c.range})
<1> DEFINE B == SUBSET Rows
           op == [p \in S \X B |-> A!Cut(p[1], p[2])]
           Step(s, f) == IF s = {} THEN rows ELSE LET x == CHOOSE x \in s : TRUE
                                                  IN  A!Cut(x, f[s \ {x}])
           fold == CHOOSE f : f = [s \in SUBSET S |-> Step(s, f)]
           Left(s, left) == \A g \in Groups, k \in A!Kinds : \A t \in Int :
                 In(t, Out(left, g, k)) <=>
                 In(t, Out(rows, g, k)) /\ ~\E c \in s : c.group = g /\ In(t, {c.range})
           Q == {s \in SUBSET S : fold[s] \in B /\ Left(s, fold[s])}
<1>1. A!FoldSet(A!Cut, rows, S) = fold[S]
    BY DEF A!FoldSet, A!MapThenFoldSet
<1>2. IsFiniteSet(S)
    BY PlacesAreFew, FS_Subset
<1>3. rows \in B /\ op \in [S \X B -> B]
  <2>1. rows \in B
      OBVIOUS
  <2>2. \A x \in S, m \in B : A!Cut(x, m) \in B
      BY CutSays
  <2> HIDE DEF B
  <2> QED BY <2>1, <2>2
<1>4. PICK f \in [SUBSET S -> B] : IsFold(f, S, rows, op)
  <2> HIDE DEF B, op
  <2> QED BY <1>2, <1>3, FoldExists
<1>5. f = [s \in SUBSET S |-> Step(s, f)]
  <2>1. ASSUME NEW s \in SUBSET S
        PROVE  f[s] = Step(s, f)
    <3>1. s # {} => Pick(s) \in S /\ f[s \ {Pick(s)}] \in B
        BY DEF Pick
    <3> HIDE DEF B
    <3>2. s # {} => op[Pick(s), f[s \ {Pick(s)}]] = A!Cut(Pick(s), f[s \ {Pick(s)}])
        BY <3>1
    <3> HIDE DEF op
    <3> QED BY <1>4, <3>2 DEF IsFold, Pick
  <2> HIDE DEF B, Step
  <2> QED BY <2>1
<1>6. fold = [s \in SUBSET S |-> Step(s, fold)]
  <2> HIDE DEF Step
  <2> QED BY <1>5
<1> HIDE DEF fold
<1>7. {} \in Q
  <2>1. fold[{}] = rows
      BY <1>6
  <2> QED BY <1>3, <2>1
<1>8. ASSUME NEW s \in SUBSET S, s # {}, \A x \in s : s \ {x} \in Q
      PROVE  s \in Q
  <2>1. Pick(s) \in s /\ Pick(s) \in [group : Groups, range : A!Spans]
      BY <1>8 DEF Pick
  <2> DEFINE rest == s \ {Pick(s)}
             old == fold[rest]
  <2>2. fold[s] = A!Cut(Pick(s), old)
      BY <1>6, <1>8 DEF Pick
  <2>3. old \in SUBSET Rows /\ Left(rest, old)
      BY <1>8, <2>1
  <2> HIDE DEF old
  <2>4. /\ A!Cut(Pick(s), old) \in SUBSET Rows
        /\ \A g \in Groups, k \in A!Kinds : \A t \in Int :
             In(t, Out(A!Cut(Pick(s), old), g, k)) <=>
             In(t, Out(old, g, k)) /\ ~(g = Pick(s).group /\ In(t, {Pick(s).range}))
      BY <2>1, <2>3, CutSays
  <2>5. \A g, t : (\E c \in s : c.group = g /\ In(t, {c.range})) <=>
                  (\E c \in rest : c.group = g /\ In(t, {c.range})) \/
                  (g = Pick(s).group /\ In(t, {Pick(s).range}))
      BY <2>1
  <2> HIDE DEF rest
  <2>6. Left(s, A!Cut(Pick(s), old))
    <3> SUFFICES ASSUME NEW g \in Groups, NEW k \in A!Kinds, NEW t \in Int
                 PROVE  In(t, Out(A!Cut(Pick(s), old), g, k)) <=>
                        In(t, Out(rows, g, k)) /\ ~\E c \in s : c.group = g /\ In(t, {c.range})
        OBVIOUS
    <3>1. In(t, Out(A!Cut(Pick(s), old), g, k)) <=>
          In(t, Out(old, g, k)) /\ ~(g = Pick(s).group /\ In(t, {Pick(s).range}))
        BY <2>4
    <3>2. In(t, Out(old, g, k)) <=>
          In(t, Out(rows, g, k)) /\ ~\E c \in rest : c.group = g /\ In(t, {c.range})
        BY <2>3
    <3>3. (\E c \in s : c.group = g /\ In(t, {c.range})) <=>
          (\E c \in rest : c.group = g /\ In(t, {c.range})) \/
          (g = Pick(s).group /\ In(t, {Pick(s).range}))
        BY <2>5
    <3> QED BY <3>1, <3>2, <3>3
  <2> HIDE DEF Left
  <2> QED BY <2>2, <2>4, <2>6
<1>9. S \in Q
  <2> HIDE DEF Q
  <2> QED BY <1>2, <1>7, <1>8, SubsetInduction
<1> QED BY <1>1, <1>9

(* The instants of a range lie before the horizon.                            *)
LEMMA SpanInstants ==
    ASSUME AddressAssumption, NEW S \in SUBSET A!Spans, NEW t, In(t, S), t \in Int
    PROVE  t \in 0..(Horizon - 1)
BY SpanTyping DEF In

(* When two records differ at an instant that the later one has verified.     *)
LEMMA DifferenceAt ==
    ASSUME AddressAssumption, NEW prev \in A!Records, NEW cur \in A!Records, NEW g, NEW t
    PROVE  A!At(cur, g, t) \notin {{"unverified"}, A!At(prev, g, t)} <=>
              /\ In(t, A!Covered(cur, g))
              /\ \/ ~In(t, A!Covered(prev, g))
                 \/ \E k \in A!Kinds : ~(In(t, A!Outages(prev, g, k)) <=> In(t, A!Outages(cur, g, k)))
<1> DEFINE P == {k \in A!Kinds : In(t, A!Outages(prev, g, k))}
           C == {k \in A!Kinds : In(t, A!Outages(cur, g, k))}
<1>1. P # {"unverified"} /\ C # {"unverified"}
    BY KindsAreKnown
<1>2. P = C <=> \A k \in A!Kinds : In(t, A!Outages(prev, g, k)) <=> In(t, A!Outages(cur, g, k))
  <2>1. \A k \in A!Kinds : (k \in P <=> In(t, A!Outages(prev, g, k))) /\ (k \in C <=> In(t, A!Outages(cur, g, k)))
      OBVIOUS
  <2>2. P \subseteq A!Kinds /\ C \subseteq A!Kinds
      OBVIOUS
  <2> HIDE DEF P, C
  <2> QED BY <2>1, <2>2
<1>3. A!At(prev, g, t) = IF In(t, A!Covered(prev, g)) THEN P ELSE {"unverified"}
    BY AtSays
<1>4. A!At(cur, g, t) = IF In(t, A!Covered(cur, g)) THEN C ELSE {"unverified"}
    BY AtSays
<1> HIDE DEF P, C
<1> QED BY <1>1, <1>2, <1>3, <1>4

(* changed_groups() by its meaning: the groups of the previous record of      *)
(* which the current one verifies something else at an instant to come. The   *)
(* code compares merged ranges and the ranges newly covered; nowhere          *)
(* instants.                                                                  *)
LEMMA ChangedSays ==
    ASSUME AddressAssumption, NEW prev \in A!Records, NEW cur \in A!Records,
           NEW now \in 0..Horizon, NEW g \in Groups
    PROVE  g \in A!ChangedGroups(prev, cur, now) <=>
              /\ g \in A!CoveredGroups(prev)
              /\ \E t \in now..(Horizon - 1) : A!At(cur, g, t) \notin {{"unverified"}, A!At(prev, g, t)}
<1> DEFINE CP == A!Covered(prev, g)
           CC == A!Covered(cur, g)
           OP(k) == A!Outages(prev, g, k)
           OC(k) == A!Outages(cur, g, k)
           old == A!Ranges(CP, now)
           new == A!Ranges(CC, now)
           both == A!Common(old, new)
           common == A!Ranges(both, now)
           wp == A!Within(prev, g, common, now)
           wc == A!Within(cur, g, common, now)
<1>0. Horizon \in Nat /\ now \in Int
    BY DEF AddressAssumption, A!AddressConstants
<1>1. /\ CP \in SUBSET A!Spans /\ CC \in SUBSET A!Spans
      /\ \A k : OP(k) \in SUBSET A!Spans /\ OC(k) \in SUBSET A!Spans
    BY RecordTyping
<1>2. g \in A!ChangedGroups(prev, cur, now) <=>
         /\ g \in A!CoveredGroups(prev) /\ g \in A!CoveredGroups(cur)
         /\ new # {} /\ (common # new \/ wp # wc)
  <2>1. NoSchedule \notin {prev, cur}
      BY RecordTyping
  <2> QED BY <2>1 DEF A!ChangedGroups
<1> HIDE DEF CP, CC, OP, OC
<1>3. /\ old \in SUBSET A!Spans
      /\ \A t \in Int : In(t, old) <=> (In(t, CP) /\ now <= t)
    BY <1>1, RangesSay
<1>4. /\ new \in SUBSET A!Spans
      /\ \A t \in Int : In(t, new) <=> (In(t, CC) /\ now <= t)
    BY <1>1, RangesSay
<1> HIDE DEF old
<1>5. /\ both \in SUBSET A!Spans
      /\ \A t \in Int : In(t, both) <=> (In(t, old) /\ In(t, new))
  <2> HIDE DEF new
  <2> QED BY <1>3, <1>4, CommonSays
<1> HIDE DEF both
<1>6. /\ common \in SUBSET A!Spans
      /\ \A t \in Int : In(t, common) <=> (In(t, both) /\ now <= t)
    BY <1>5, RangesSay
<1>7. common = new <=> \A t \in Int : now <= t /\ In(t, CC) => In(t, CP)
  <2>1. common = new <=> \A t \in Int : (In(t, both) /\ now <= t) <=> (In(t, CC) /\ now <= t)
      BY <1>1, <1>5, SameRanges
  <2> HIDE DEF common, new
  <2> QED BY <2>1, <1>3, <1>4, <1>5
<1> HIDE DEF common
<1>8. wp = wc <=> \A k \in A!Kinds : \A t \in Int : In(t, common) => (In(t, OP(k)) <=> In(t, OC(k)))
  <2> DEFINE p(k) == A!Common(OP(k), common)
             c(k) == A!Common(OC(k), common)
  <2>1. wp = [k \in A!Kinds |-> A!Ranges(p(k), now)] /\ wc = [k \in A!Kinds |-> A!Ranges(c(k), now)]
      BY DEF A!Within, OP, OC
  <2>2. ASSUME NEW k \in A!Kinds
        PROVE  A!Ranges(p(k), now) = A!Ranges(c(k), now) <=>
                  \A t \in Int : In(t, common) => (In(t, OP(k)) <=> In(t, OC(k)))
    <3>1. /\ p(k) \in SUBSET A!Spans
          /\ \A t \in Int : In(t, p(k)) <=> (In(t, OP(k)) /\ In(t, common))
        BY <1>1, <1>6, CommonSays
    <3>2. /\ c(k) \in SUBSET A!Spans
          /\ \A t \in Int : In(t, c(k)) <=> (In(t, OC(k)) /\ In(t, common))
        BY <1>1, <1>6, CommonSays
    <3> HIDE DEF p, c
    <3>3. A!Ranges(p(k), now) = A!Ranges(c(k), now) <=>
             \A t \in Int : (In(t, p(k)) /\ now <= t) <=> (In(t, c(k)) /\ now <= t)
        BY <3>1, <3>2, SameRanges
    <3> QED BY <3>1, <3>2, <3>3, <1>6
  <2> HIDE DEF wp, wc, p, c
  <2> QED BY <2>1, <2>2
<1> HIDE DEF wp, wc
<1>9. \A t \in Int : In(t, CC) => g \in A!CoveredGroups(cur) /\ t \in 0..(Horizon - 1)
  <2>1. \A t : In(t, CC) => g \in A!CoveredGroups(cur)
      BY DEF In, CC, A!Covered, A!CoveredGroups
  <2> QED BY <2>1, <1>1, SpanInstants
<1>10. \A t : A!At(cur, g, t) \notin {{"unverified"}, A!At(prev, g, t)} <=>
                 /\ In(t, CC)
                 /\ ~In(t, CP) \/ \E k \in A!Kinds : ~(In(t, OP(k)) <=> In(t, OC(k)))
    BY DifferenceAt DEF CC, CP, OP, OC
<1>11. ASSUME common # new \/ wp # wc
       PROVE  \E t \in now..(Horizon - 1) : A!At(cur, g, t) \notin {{"unverified"}, A!At(prev, g, t)}
  <2> HIDE DEF new
  <2>1. PICK t \in Int :
           \/ now <= t /\ In(t, CC) /\ ~In(t, CP)
           \/ In(t, common) /\ \E k \in A!Kinds : ~(In(t, OP(k)) <=> In(t, OC(k)))
      BY <1>7, <1>8, <1>11
  <2>2. now <= t /\ In(t, CC) /\ t \in 0..(Horizon - 1)
      BY <2>1, <1>4, <1>5, <1>6, <1>9
  <2>3. t \in now..(Horizon - 1)
      BY <2>2, <1>0
  <2> QED BY <2>1, <2>2, <2>3, <1>10
<1>12. ASSUME NEW t \in now..(Horizon - 1), A!At(cur, g, t) \notin {{"unverified"}, A!At(prev, g, t)}
       PROVE  g \in A!CoveredGroups(cur) /\ new # {} /\ (common # new \/ wp # wc)
  <2>1. t \in Int /\ now <= t
      BY <1>0
  <2>2. In(t, CC) /\ (~In(t, CP) \/ \E k \in A!Kinds : ~(In(t, OP(k)) <=> In(t, OC(k))))
      BY <1>10, <1>12
  <2>3. In(t, new)
      BY <2>1, <2>2, <1>4
  <2>4. new # {}
      BY <2>3 DEF In
  <2> HIDE DEF new
  <2>5. In(t, CP) => In(t, common)
      BY <2>1, <2>3, <1>3, <1>5, <1>6
  <2> QED BY <2>1, <2>2, <2>4, <2>5, <1>7, <1>8, <1>9
<1> QED BY <1>2, <1>11, <1>12

(* remember_schedule() by its meaning: for a covered group the new record     *)
(* overrides the previous one at each instant to come that it verifies, and   *)
(* leaves the others as they were.                                            *)
LEMMA RememberSays ==
    ASSUME AddressAssumption, NEW prev \in A!Records, NEW cur \in A!Records, A!OutagesCovered(cur),
           NEW now \in 0..Horizon
    PROVE  LET all == A!Remember(prev, cur, now)
           IN  /\ all \in A!Records
               /\ (\A c \in cur.coverage : c.range[2] > now) => A!CoveredGroups(all) = A!CoveredGroups(cur)
               /\ \A g \in A!CoveredGroups(cur), t \in now..Horizon :
                     A!At(all, g, t) = IF A!At(cur, g, t) # {"unverified"} THEN A!At(cur, g, t)
                                       ELSE A!At(prev, g, t)
<1> DEFINE gs == A!CoveredGroups(cur)
           oldC == {c \in prev.coverage : c.range[2] > now /\ c.group \in gs}
           coverage == oldC \cup cur.coverage
           late == {i \in prev.intervals : i.range[2] > now}
           left == A!FoldSet(A!Cut, late, cur.coverage)
           intervals == {i \in left : i.group \in gs} \cup cur.intervals
           rec == [coverage |-> coverage, intervals |-> intervals]
           C(g) == A!Ranges(A!Covered(rec, g), now)
           I(g, k) == A!Ranges(A!Outages(rec, g, k), now)
           all == A!Remember(prev, cur, now)
<1>0. Horizon \in Nat /\ now \in Int
    BY DEF AddressAssumption, A!AddressConstants
<1>1. all = [coverage  |-> UNION {{[group |-> g, range |-> r] : r \in C(g)} : g \in gs},
             intervals |-> UNION {{[group |-> g, kind |-> k, range |-> r] : r \in I(g, k)} :
                                     g \in gs, k \in A!Kinds}]
  <2>1. prev # NoSchedule
      BY RecordTyping
  <2> QED BY <2>1 DEF A!Remember
<1>2. /\ prev.coverage \in SUBSET [group : Groups, range : A!Spans]
      /\ cur.coverage \in SUBSET [group : Groups, range : A!Spans]
      /\ prev.intervals \in SUBSET Rows /\ cur.intervals \in SUBSET Rows
      /\ gs \in SUBSET Groups
    BY RecordTyping
<1>3. /\ left \in SUBSET Rows
      /\ \A g \in Groups, k \in A!Kinds : \A t \in Int :
            In(t, Out(left, g, k)) <=>
            In(t, Out(late, g, k)) /\ ~\E c \in cur.coverage : c.group = g /\ In(t, {c.range})
  <2>1. late \in SUBSET Rows
      BY <1>2
  <2> HIDE DEF late
  <2> QED BY <1>2, <2>1, AllCut
<1>4. rec \in A!Records
  <2>1. coverage \in SUBSET [group : Groups, range : A!Spans]
      BY <1>2
  <2>2. intervals \in SUBSET Rows
    <3> HIDE DEF left
    <3> QED BY <1>2, <1>3
  <2> HIDE DEF coverage, intervals
  <2> QED BY <2>1, <2>2 DEF A!Records, Rows
<1>5. ASSUME NEW g \in gs
      PROVE  /\ A!Covered(rec, g) \in SUBSET A!Spans
             /\ C(g) \in SUBSET A!Spans
             /\ \A t \in now..Horizon : In(t, C(g)) <=> In(t, A!Covered(prev, g)) \/ In(t, A!Covered(cur, g))
  <2>1. A!Covered(rec, g) \in SUBSET A!Spans
      BY <1>4, RecordTyping
  <2>2. /\ C(g) \in SUBSET A!Spans
        /\ \A t \in Int : In(t, C(g)) <=> (In(t, A!Covered(rec, g)) /\ now <= t)
      BY <2>1, RangesSay
  <2>3. ASSUME NEW t \in now..Horizon
        PROVE  In(t, A!Covered(rec, g)) <=> In(t, A!Covered(prev, g)) \/ In(t, A!Covered(cur, g))
    <3>1. \A c \in prev.coverage : c.range[1] <= t /\ t < c.range[2] => c.range[2] > now
        BY <1>0, <1>2, SpanTyping
    <3>2. \A S, x : x = [coverage |-> S, intervals |-> intervals] =>
             (In(t, A!Covered(x, g)) <=> \E c \in S : c.group = g /\ c.range[1] <= t /\ t < c.range[2])
        BY DEF In, A!Covered
    <3>3. In(t, A!Covered(rec, g)) <=> \E c \in coverage : c.group = g /\ c.range[1] <= t /\ t < c.range[2]
        BY <3>2
    <3>4. In(t, A!Covered(prev, g)) <=> \E c \in prev.coverage : c.group = g /\ c.range[1] <= t /\ t < c.range[2]
        BY DEF In, A!Covered
    <3>5. In(t, A!Covered(cur, g)) <=> \E c \in cur.coverage : c.group = g /\ c.range[1] <= t /\ t < c.range[2]
        BY DEF In, A!Covered
    <3> HIDE DEF rec, intervals
    <3> QED BY <3>1, <3>3, <3>4, <3>5
  <2> HIDE DEF C, rec
  <2> QED BY <1>0, <2>1, <2>2, <2>3
<1>6. ASSUME NEW g \in gs, NEW k \in A!Kinds
      PROVE  /\ I(g, k) \in SUBSET A!Spans
             /\ \A t \in now..Horizon :
                  In(t, I(g, k)) <=> \/ In(t, A!Outages(prev, g, k)) /\ ~In(t, A!Covered(cur, g))
                                     \/ In(t, A!Outages(cur, g, k))
  <2>1. A!Outages(rec, g, k) \in SUBSET A!Spans
      BY <1>4, RecordTyping
  <2>2. /\ I(g, k) \in SUBSET A!Spans
        /\ \A t \in Int : In(t, I(g, k)) <=> (In(t, A!Outages(rec, g, k)) /\ now <= t)
      BY <2>1, RangesSay
  <2>3. ASSUME NEW t \in now..Horizon
        PROVE  In(t, A!Outages(rec, g, k)) <=>
                  \/ In(t, A!Outages(prev, g, k)) /\ ~In(t, A!Covered(cur, g))
                  \/ In(t, A!Outages(cur, g, k))
    <3> DEFINE Is(i) == i.group = g /\ i.kind = k /\ i.range[1] <= t /\ t < i.range[2]
    <3>1. \A i \in prev.intervals : Is(i) => i \in late
      <4> TAKE i \in prev.intervals
      <4>1. i.range \in A!Spans
          BY <1>2 DEF Rows
      <4>2. now <= t /\ t \in Int /\ i.range[2] \in Int
          BY <1>0, <4>1, SpanTyping
      <4> QED BY <1>0, <4>2
    <3>2. \A rows : In(t, Out(rows, g, k)) <=> \E i \in rows : Is(i)
        BY DEF In, Out
    <3>3. /\ In(t, A!Outages(prev, g, k)) <=> \E i \in prev.intervals : Is(i)
          /\ In(t, A!Outages(cur, g, k)) <=> \E i \in cur.intervals : Is(i)
          /\ In(t, A!Outages(rec, g, k)) <=> \E i \in rec.intervals : Is(i)
      <4> HIDE DEF Is, rec
      <4> QED BY <1>4, <3>2, RecordTyping
    <3>4. (\E i \in rec.intervals : Is(i)) <=> (\E i \in left : Is(i)) \/ (\E i \in cur.intervals : Is(i))
      <4>1. \A i \in left : Is(i) => i.group \in gs
          OBVIOUS
      <4>2. rec.intervals = intervals
          OBVIOUS
      <4> HIDE DEF left, Is, rec, gs
      <4> QED BY <4>1, <4>2
    <3>5. In(t, A!Covered(cur, g)) <=> \E c \in cur.coverage : c.group = g /\ In(t, {c.range})
        BY DEF In, A!Covered
    <3>6. (\E i \in left : Is(i)) <=> (\E i \in late : Is(i)) /\ ~In(t, A!Covered(cur, g))
      <4>1. t \in Int /\ g \in Groups
          BY <1>0, <1>2
      <4> HIDE DEF left, late, Is
      <4> QED BY <4>1, <1>3, <3>2, <3>5
    <3>7. late \subseteq prev.intervals
        OBVIOUS
    <3> HIDE DEF left, late, Is, rec
    <3> QED BY <3>1, <3>3, <3>4, <3>6, <3>7
  <2> HIDE DEF I, rec
  <2> QED BY <1>0, <2>2, <2>3
<1> HIDE DEF C, I, rec
<1>7. all \in A!Records
  <2>1. all.coverage \in SUBSET [group : Groups, range : A!Spans]
      BY <1>1, <1>2, <1>5
  <2>2. all.intervals \in SUBSET [group : Groups, kind : A!Kinds, range : A!Spans]
      BY <1>1, <1>2, <1>6
  <2> HIDE DEF all
  <2> QED BY <1>1, <2>1, <2>2 DEF A!Records
<1>8. \A g \in gs : A!Covered(all, g) = C(g)
  <2> TAKE g \in gs
  <2>1. \A c : c \in all.coverage /\ c.group = g <=> \E r \in C(g) : c = [group |-> g, range |-> r]
      BY <1>1
  <2> HIDE DEF all, gs
  <2>2. \A r \in A!Covered(all, g) : r \in C(g)
      BY <2>1 DEF A!Covered
  <2>3. ASSUME NEW r \in C(g)
        PROVE  r \in A!Covered(all, g)
    <3> DEFINE c == [group |-> g, range |-> r]
    <3>1. c \in all.coverage /\ c.group = g /\ c.range = r
        BY <2>1
    <3> HIDE DEF c
    <3> QED BY <3>1 DEF A!Covered
  <2> QED BY <2>2, <2>3
<1>9. \A g \in gs, k \in A!Kinds : A!Outages(all, g, k) = I(g, k)
  <2> TAKE g \in gs, k \in A!Kinds
  <2>1. \A i : i \in all.intervals /\ i.group = g /\ i.kind = k <=>
               \E r \in I(g, k) : i = [group |-> g, kind |-> k, range |-> r]
    <3>1. all.intervals = UNION {{[group |-> h, kind |-> l, range |-> r] : r \in I(h, l)} :
                                    h \in gs, l \in A!Kinds}
        BY <1>1
    <3>2. \A i : i \in all.intervals <=>
             \E h \in gs, l \in A!Kinds : \E r \in I(h, l) : i = [group |-> h, kind |-> l, range |-> r]
      <4> DEFINE D(h, l) == {[group |-> h, kind |-> l, range |-> r] : r \in I(h, l)}
      <4>1. all.intervals = UNION {D(h, l) : h \in gs, l \in A!Kinds}
          BY <3>1
      <4>2. \A i : i \in all.intervals <=> \E h \in gs, l \in A!Kinds : i \in D(h, l)
        <5> HIDE DEF all, gs, D
        <5> QED BY <4>1
      <4> HIDE DEF all, gs
      <4> QED BY <4>2
    <3> HIDE DEF all, gs
    <3> QED BY <3>2
  <2> HIDE DEF all, gs
  <2>2. \A r \in A!Outages(all, g, k) : r \in I(g, k)
      BY <2>1 DEF A!Outages
  <2>3. ASSUME NEW r \in I(g, k)
        PROVE  r \in A!Outages(all, g, k)
    <3> DEFINE i == [group |-> g, kind |-> k, range |-> r]
    <3>1. i \in all.intervals /\ i.group = g /\ i.kind = k /\ i.range = r
        BY <2>1
    <3> HIDE DEF i
    <3> QED BY <3>1 DEF A!Outages
  <2> QED BY <2>2, <2>3
<1>10. ASSUME \A c \in cur.coverage : c.range[2] > now
       PROVE  A!CoveredGroups(all) = gs
  <2>1. A!CoveredGroups(all) \subseteq gs
      BY <1>1 DEF A!CoveredGroups
  <2>2. ASSUME NEW g \in gs
        PROVE  g \in A!CoveredGroups(all)
    <3>1. PICK c \in cur.coverage : c.group = g
        BY DEF A!CoveredGroups
    <3> DEFINE t == c.range[2] - 1
    <3>2. c.range \in A!Spans /\ c.range[2] > now
        BY <1>2, <1>10
    <3>3. t \in now..Horizon /\ c.range[1] <= t /\ t < c.range[2]
        BY <3>2, <1>0, SpanTyping
    <3>4. In(t, A!Covered(cur, g))
      <4> HIDE DEF t
      <4> QED BY <3>1, <3>3 DEF In, A!Covered
    <3>5. In(t, A!Covered(all, g))
      <4> HIDE DEF t, gs
      <4> QED BY <1>5, <1>8, <3>3, <3>4
    <3> HIDE DEF all
    <3> QED BY <3>5 DEF In, A!Covered, A!CoveredGroups
  <2> QED BY <2>1, <2>2
<1>11. ASSUME NEW g \in gs, NEW t \in now..Horizon
       PROVE  A!At(all, g, t) = IF A!At(cur, g, t) # {"unverified"} THEN A!At(cur, g, t)
                                ELSE A!At(prev, g, t)
  <2> DEFINE K(r) == {k \in A!Kinds : In(t, A!Outages(r, g, k))}
  <2>1. \A r \in A!Records : /\ A!At(r, g, t) = IF In(t, A!Covered(r, g)) THEN K(r) ELSE {"unverified"}
                             /\ K(r) # {"unverified"}
      BY AtSays, KindsAreKnown
  <2>2. In(t, A!Covered(all, g)) <=> In(t, A!Covered(prev, g)) \/ In(t, A!Covered(cur, g))
    <3> HIDE DEF all, gs
    <3> QED BY <1>5, <1>8
  <2>3. \A k \in A!Kinds : In(t, A!Outages(all, g, k)) <=>
           \/ In(t, A!Outages(prev, g, k)) /\ ~In(t, A!Covered(cur, g))
           \/ In(t, A!Outages(cur, g, k))
    <3> HIDE DEF all, gs
    <3> QED BY <1>6, <1>9
  <2>4. \A k \in A!Kinds : In(t, A!Outages(cur, g, k)) => In(t, A!Covered(cur, g))
    <3> TAKE k \in A!Kinds
    <3> HAVE In(t, A!Outages(cur, g, k))
    <3>1. PICK i \in cur.intervals : i.group = g /\ i.range[1] <= t /\ t < i.range[2]
        BY DEF In, A!Outages
    <3>2. i.range[1] \in Int /\ i.range[2] \in Int /\ t \in Int
        BY <1>0, <1>2, SpanTyping DEF Rows
    <3>3. t \in i.range[1]..(i.range[2] - 1)
        BY <3>1, <3>2
    <3> QED BY <3>1, <3>3 DEF A!OutagesCovered, In
  <2>5. CASE In(t, A!Covered(cur, g))
    <3>1. K(all) = K(cur)
      <4> HIDE DEF all
      <4> QED BY <2>5, <2>3, <2>4
    <3> HIDE DEF K, all
    <3> QED BY <2>1, <2>2, <2>5, <3>1, <1>7
  <2>6. CASE ~In(t, A!Covered(cur, g))
    <3>1. K(all) = K(prev)
      <4> HIDE DEF all
      <4> QED BY <2>6, <2>3, <2>4
    <3> HIDE DEF K, all
    <3> QED BY <2>1, <2>2, <2>6, <3>1, <1>7
  <2> QED BY <2>5, <2>6
<1> HIDE DEF all
<1>12. \A g \in gs, t \in now..Horizon :
          A!At(all, g, t) = IF A!At(cur, g, t) # {"unverified"} THEN A!At(cur, g, t) ELSE A!At(prev, g, t)
    BY <1>11
<1> QED BY <1>7, <1>10, <1>12 DEF all

-------------------------------------------------------------------------------
(* A record says at the instants to come what listeners know, and knows the   *)
(* groups that they know.                                                     *)
Agrees(rec, what, now) ==
    \A g \in Groups :
        /\ (rec # NoSchedule /\ g \in A!CoveredGroups(rec)) <=>
               \E t \in A!Instants : what[g][t] # {"unverified"}
        /\ \A t \in now..Horizon : A!At(rec, g, t) = what[g][t]

(* What one who knows `what` knows after a verification of `current`, and     *)
(* whether that is news of a group: Learned and News of the component.        *)
Learning(what, current) ==
    IF current = NoSchedule THEN what
    ELSE [g \in Groups |-> [t \in A!Instants |->
            IF g \notin A!CoveredGroups(current) THEN {"unverified"}
            ELSE IF A!At(current, g, t) # {"unverified"} THEN A!At(current, g, t)
            ELSE what[g][t]]]

Newness(what, current, g, now) ==
    /\ \E t \in A!Instants : what[g][t] # {"unverified"}
    /\ \E t \in now..(Horizon - 1) : A!At(current, g, t) \notin {{"unverified"}, what[g][t]}

(* The record that update() retains.                                          *)
Retained(previous, current, now) ==
    IF current = NoSchedule THEN previous ELSE A!Remember(previous, current, now)

Scheduled == A!Records \cup {NoSchedule}

(* A group with a verified instant is covered.                                *)
LEMMA UncoveredAt ==
    ASSUME AddressAssumption, NEW rec \in A!Records, NEW g, NEW t
    PROVE  A!At(rec, g, t) # {"unverified"} => g \in A!CoveredGroups(rec)
BY AtSays DEF In, A!Covered, A!CoveredGroups

(* A covered group has a verified instant.                                    *)
LEMMA CoveredAt ==
    ASSUME AddressAssumption, NEW rec \in A!Records, NEW g \in A!CoveredGroups(rec)
    PROVE  \E t \in A!Instants : A!At(rec, g, t) # {"unverified"}
<1>1. PICK c \in rec.coverage : c.group = g
    BY DEF A!CoveredGroups
<1>2. c.range \in A!Spans
    BY <1>1, RecordTyping
<1>3. c.range[1] \in A!Instants /\ c.range[1] < c.range[2]
    BY <1>2, SpanTyping DEF A!Instants
<1>4. In(c.range[1], A!Covered(rec, g))
    BY <1>1, <1>3 DEF In, A!Covered, A!Instants
<1>5. A!At(rec, g, c.range[1]) # {"unverified"}
    BY <1>4, AtSays, KindsAreKnown
<1> QED BY <1>3, <1>5

(* If the record agreed with what listeners knew, the retained one agrees     *)
(* with what they know next.                                                  *)
LEMMA ReportSays ==
    ASSUME AddressAssumption, NEW previous \in Scheduled, NEW current \in Scheduled, NEW now \in 0..Horizon,
           current # NoSchedule => /\ A!OutagesCovered(current)
                                   /\ \A c \in current.coverage : c.range[2] > now,
           NEW what, Agrees(previous, what, now)
    PROVE  /\ Retained(previous, current, now) \in Scheduled
           /\ Agrees(Retained(previous, current, now), Learning(what, current), now)
           /\ A!ChangedGroups(previous, current, now) = {g \in Groups : Newness(what, current, g, now)}
<1>0. Horizon \in Nat /\ now \in Int /\ now..(Horizon - 1) \subseteq now..Horizon
      /\ now..Horizon \subseteq A!Instants /\ NoSchedule \notin A!Records
    BY DEF AddressAssumption, A!AddressConstants, A!Instants
<1>1. CASE current = NoSchedule
  <2>1. A!ChangedGroups(previous, current, now) = {}
      BY <1>1 DEF A!ChangedGroups
  <2>2. \A g \in Groups : ~Newness(what, current, g, now)
      BY <1>1, NothingAt DEF Newness
  <2> QED BY <1>1, <2>1, <2>2 DEF Retained, Learning
<1>2. CASE current # NoSchedule
  <2> DEFINE next == Retained(previous, current, now)
  <2>1. current \in A!Records /\ A!OutagesCovered(current) /\ \A c \in current.coverage : c.range[2] > now
      BY <1>2 DEF Scheduled
  <2>2. /\ next \in A!Records
        /\ A!CoveredGroups(next) = A!CoveredGroups(current)
        /\ \A g \in A!CoveredGroups(current), t \in now..Horizon :
              A!At(next, g, t) = IF A!At(current, g, t) # {"unverified"} THEN A!At(current, g, t)
                                 ELSE A!At(previous, g, t)
    <3>1. CASE previous = NoSchedule
      <4>1. next = current
          BY <1>2, <3>1 DEF Retained, A!Remember
      <4> HIDE DEF next
      <4> QED BY <4>1, <2>1, <3>1, NothingAt
    <3>2. CASE previous \in A!Records
      <4>1. next = A!Remember(previous, current, now)
          BY <1>2 DEF Retained
      <4> HIDE DEF next
      <4> QED BY <2>1, <3>2, <4>1, RememberSays
    <3> QED BY <3>1, <3>2 DEF Scheduled
  <2> HIDE DEF next
  <2>3. A!CoveredGroups(current) \subseteq Groups
      BY <2>1, RecordTyping
  <2> DEFINE learned == Learning(what, current)
  <2>4. \A g \in Groups, t \in A!Instants :
           learned[g][t] = IF g \notin A!CoveredGroups(current) THEN {"unverified"}
                           ELSE IF A!At(current, g, t) # {"unverified"} THEN A!At(current, g, t)
                           ELSE what[g][t]
      BY <1>2 DEF Learning
  <2> HIDE DEF learned
  <2>5. Agrees(next, learned, now)
    <3> SUFFICES ASSUME NEW g \in Groups
                 PROVE  /\ (next # NoSchedule /\ g \in A!CoveredGroups(next)) <=>
                              \E t \in A!Instants : learned[g][t] # {"unverified"}
                        /\ \A t \in now..Horizon : A!At(next, g, t) = learned[g][t]
        BY DEF Agrees
    <3>1. next # NoSchedule
        BY <2>2, <1>0
    <3>2. CASE g \notin A!CoveredGroups(current)
      <4>1. \A t \in A!Instants : learned[g][t] = {"unverified"}
          BY <3>2, <2>4
      <4>2. \A t : A!At(next, g, t) = {"unverified"}
          BY <3>2, <2>2, UncoveredAt
      <4> QED BY <3>2, <4>1, <4>2, <2>2, <1>0
    <3>3. CASE g \in A!CoveredGroups(current)
      <4>1. \E t \in A!Instants : learned[g][t] # {"unverified"}
          BY <3>3, <2>1, <2>4, CoveredAt
      <4>2. ASSUME NEW t \in now..Horizon
            PROVE  A!At(next, g, t) = learned[g][t]
        <5>1. A!At(previous, g, t) = what[g][t]
            BY DEF Agrees
        <5> QED BY <5>1, <3>3, <2>2, <2>4, <1>0
      <4> QED BY <4>1, <4>2, <3>1, <3>3, <2>2
    <3> QED BY <3>2, <3>3
  <2>6. ASSUME NEW g \in Groups
        PROVE  g \in A!ChangedGroups(previous, current, now) <=> Newness(what, current, g, now)
    <3>1. (previous # NoSchedule /\ g \in A!CoveredGroups(previous)) <=>
             \E t \in A!Instants : what[g][t] # {"unverified"}
        BY DEF Agrees
    <3>2. CASE previous = NoSchedule
        BY <3>1, <3>2 DEF A!ChangedGroups, Newness
    <3>3. CASE previous \in A!Records
      <4>1. g \in A!ChangedGroups(previous, current, now) <=>
               /\ g \in A!CoveredGroups(previous)
               /\ \E t \in now..(Horizon - 1) :
                     A!At(current, g, t) \notin {{"unverified"}, A!At(previous, g, t)}
          BY <2>1, <3>3, ChangedSays
      <4>2. \A t \in now..(Horizon - 1) : A!At(previous, g, t) = what[g][t]
          BY <1>0 DEF Agrees
      <4>3. previous # NoSchedule
          BY <3>3, <1>0
      <4> QED BY <3>1, <4>1, <4>2, <4>3 DEF Newness
    <3> QED BY <3>2, <3>3 DEF Scheduled
  <2>7. A!ChangedGroups(previous, current, now) \subseteq Groups
    <3>1. A!ChangedGroups(previous, current, now) \subseteq A!CoveredGroups(current)
        BY DEF A!ChangedGroups
    <3> QED BY <3>1, <2>3
  <2>8. A!ChangedGroups(previous, current, now) = {g \in Groups : Newness(what, current, g, now)}
      BY <2>6, <2>7
  <2> QED BY <2>2, <2>5, <2>8 DEF next, learned, Scheduled
<1> QED BY <1>1, <1>2

(* next_schedule_boundary() skips no boundary.                                *)
LEMMA BoundarySays ==
    ASSUME AddressAssumption, NEW reading \in Schedules \cup {NoReading}, NEW now \in 0..Horizon
    PROVE  /\ A!NextBoundary(reading, now) \in (now + 1)..(Horizon + 1)
           /\ \A t \in A!Boundaries(reading) : ~(now < t /\ t < A!NextBoundary(reading, now))
<1> DEFINE N == {t \in A!Boundaries(reading) : t > now} \cup {Horizon + 1}
<1>0. Horizon \in Nat /\ now \in Nat /\ now <= Horizon /\ Schedules \subseteq A!Records
    BY DEF AddressAssumption, A!AddressConstants
<1>1. A!Boundaries(reading) \subseteq 0..Horizon
  <2>1. CASE reading = NoReading
      BY <2>1 DEF A!Boundaries
  <2>2. CASE reading \in A!Records
    <3>1. \A c \in reading.coverage \cup reading.intervals : c.range[1] \in 0..Horizon /\ c.range[2] \in 0..Horizon
        BY <2>2, RecordTyping, SpanTyping DEF Rows
    <3> QED BY <3>1, <2>2, RecordTyping DEF A!Boundaries
  <2> QED BY <2>1, <2>2, <1>0
<1>2. N \subseteq (now + 1)..(Horizon + 1) /\ N \subseteq Nat /\ N # {}
    BY <1>0, <1>1
<1>3. A!Min(N) \in N /\ \A n \in N : A!Min(N) <= n
  <2> HIDE DEF N
  <2> QED BY <1>2, MinOf
<1>4. A!NextBoundary(reading, now) = A!Min(N)
    BY DEF A!NextBoundary
<1>5. \A t \in A!Boundaries(reading) : now < t => t \in N
    BY <1>1, <1>0
<1> DEFINE m == A!NextBoundary(reading, now)
<1>6. m \in N /\ \A n \in N : m <= n
    BY <1>3, <1>4
<1> HIDE DEF N, m
<1>7. m \in (now + 1)..(Horizon + 1)
    BY <1>2, <1>6
<1>8. ASSUME NEW t \in A!Boundaries(reading), now < t, t < m PROVE FALSE
  <2>1. m <= t /\ t \in Int /\ m \in Int
      BY <1>1, <1>5, <1>6, <1>7, <1>8
  <2> QED BY <1>8, <2>1
<1> QED BY <1>7, <1>8 DEF m

-------------------------------------------------------------------------------
(* The invariant. The shape of the refresh's state,                           *)
Steps == {"idle", "fetching", "snapshot", "loading", "saving"}
Changes == [baseline : A!Baselines, current : Scheduled, changed : SUBSET Groups, now : A!Instants]

AddressShape ==
    /\ clock \in A!Instants
    /\ polls \in [Refreshes -> Steps] /\ change \in [Refreshes -> Changes]
    /\ addressOk \in BOOLEAN /\ ready \in BOOLEAN /\ loaded \in BOOLEAN
    /\ lastOk \in BOOLEAN /\ overlapped \in BOOLEAN
    /\ groups \subseteq Groups
    /\ schedule \in Schedules \cup {NoReading}
    /\ tick \in {NoTick} \cup 1..(Horizon + 1)
    /\ baseline \in A!Baselines /\ baselineFile \in A!Baselines

(* what is live is verified and belongs to the groups last seen, unless       *)
(* refreshes overlapped: otherwise one alone is at the provider or saves the  *)
(* snapshot of what it verified,                                              *)
Live ==
    /\ A!ReadyIsVerified
    /\ ~overlapped => \A r, s \in Refreshes : A!AtProvider(r) /\ A!AtProvider(s) => r = s
    /\ ~overlapped => \A r \in Refreshes : polls[r] = "snapshot" =>
          /\ addressOk /\ schedule # NoReading
          /\ A!CoveredGroups(schedule) \subseteq groups

(* a refresh compares at the instant at which it began, and keeps no day gone *)
(* by,                                                                        *)
Upcoming ==
    \A r \in Refreshes :
        /\ polls[r] # "idle" => change[r].now = clock
        /\ polls[r] = "snapshot" \/ (polls[r] = "loading" /\ ready) =>
              \A c \in schedule.coverage : c.range[2] > clock

(* the baseline in memory and in the file, and the one being saved, agree     *)
(* with what the listeners know, knew at the last save, and will know,        *)
Agreement ==
    /\ Agrees(baseline.schedule, known, clock)
    /\ Agrees(baselineFile.schedule, knownFile, clock)
    /\ \A r \in Refreshes : polls[r] = "saving" =>
          Agrees(change[r].baseline.schedule, Learning(known, change[r].current), clock)

(* a refresh is about to report the news,                                     *)
Newly ==
    \A r \in Refreshes : polls[r] = "saving" =>
        change[r].changed = {g \in Groups : Newness(known, change[r].current, g, change[r].now)}

(* and the clock is set when nobody is to set it.                             *)
Awake    == AddressShape /\ A!ClockCovers
Verified == Awake /\ Live
Reported == Apart /\ ~overlapped /\ Upcoming /\ Agreement /\ Newly

(* The records that update() handles are records.                             *)
LEMMA RetainedTyping ==
    ASSUME AddressAssumption, NEW previous \in Scheduled, NEW current \in Scheduled, NEW now \in 0..Horizon,
           current # NoSchedule => A!OutagesCovered(current)
    PROVE  Retained(previous, current, now) \in Scheduled
<1>1. CASE current = NoSchedule
    BY <1>1 DEF Retained
<1>2. CASE current \in A!Records /\ previous = NoSchedule
    BY <1>2 DEF Retained, A!Remember, Scheduled
<1>3. CASE current \in A!Records /\ current # NoSchedule /\ previous \in A!Records
    BY <1>3, RememberSays DEF Retained, Scheduled
<1> QED BY <1>1, <1>2, <1>3 DEF Scheduled

(* schedule_record() of a published schedule.                                 *)
LEMMA RecordOfReading ==
    ASSUME AddressAssumption, NEW reading \in Schedules \cup {NoReading}
    PROVE  /\ A!ScheduleRecord(reading) \in Scheduled
           /\ A!ScheduleRecord(reading) # NoSchedule =>
                 /\ A!ScheduleRecord(reading) = reading /\ reading # NoReading
                 /\ A!OutagesCovered(reading)
BY DEF A!ScheduleRecord, Scheduled, AddressAssumption, A!AddressConstants

(* The fields of a baseline.                                                  *)
LEMMA BaselineTyping ==
    ASSUME NEW b
    PROVE  b \in A!Baselines <=> /\ b = [groups |-> b.groups, schedule |-> b.schedule]
                                 /\ b.groups \in {NoGroups} \cup SUBSET Groups
                                 /\ b.schedule \in Scheduled
BY DEF A!Baselines, Scheduled

(* What a refresh leaves when it ends or goes on to save or load the baseline. *)
Leaves(r) ==
    /\ \/ /\ polls' = [polls EXCEPT ![r] = "idle"]
          /\ tick' = A!NextBoundary(IF ready' THEN schedule' ELSE NoReading, clock)
       \/ /\ \E s \in {"loading", "saving"} : polls' = [polls EXCEPT ![r] = s]
          /\ UNCHANGED tick
    /\ change' \in [Refreshes -> Changes]

(* EndRefresh, Compare and Update leave the state so.                         *)
LEMMA EndLeaves ==
    ASSUME AddressAssumption, AddressShape, NEW r \in Refreshes, A!EndRefresh(r)
    PROVE  Leaves(r)
<1>1. A!NoChange \in Changes
  <2>1. A!NewBaseline \in A!Baselines
      BY BaselineTyping DEF A!NewBaseline, Scheduled
  <2>2. 0 \in A!Instants
      BY DEF AddressAssumption, A!AddressConstants, A!Instants
  <2> QED BY <2>1, <2>2 DEF A!NoChange, Changes, Scheduled
<1> QED BY <1>1 DEF A!EndRefresh, A!ScheduleClock, Leaves, AddressShape

(* A comparison goes on to save what it found, or ends the refresh.           *)
LEMMA CompareLeaves ==
    ASSUME AddressAssumption, AddressShape, NEW r \in Refreshes, NEW old \in A!Baselines, A!Compare(r, old),
           ready' \in BOOLEAN, schedule' \in Schedules \cup {NoReading}, groups' \in SUBSET Groups
    PROVE  Leaves(r)
<1> DEFINE current == IF ready' THEN A!ScheduleRecord(schedule') ELSE NoSchedule
           updated == [groups |-> groups', schedule |-> Retained(old.schedule, current, clock)]
           new == [baseline |-> updated, current |-> current, now |-> clock,
                   changed |-> A!ChangedGroups(old.schedule, current, clock)]
<1>1. A!EndRefresh(r) \/ (/\ polls' = [polls EXCEPT ![r] = "saving"]
                          /\ change' = [change EXCEPT ![r] = new] /\ UNCHANGED tick)
    BY DEF A!Compare, Retained
<1>2. current \in Scheduled /\ (current # NoSchedule => A!OutagesCovered(current))
    BY RecordOfReading DEF Scheduled
<1>3. clock \in 0..Horizon /\ old.schedule \in Scheduled
    BY BaselineTyping DEF AddressShape, A!Instants
<1> HIDE DEF current
<1>4. Retained(old.schedule, current, clock) \in Scheduled
    BY <1>2, <1>3, RetainedTyping
<1>5. updated \in A!Baselines
    BY <1>4, BaselineTyping
<1>6. A!ChangedGroups(old.schedule, current, clock) \subseteq Groups
  <2>1. A!ChangedGroups(old.schedule, current, clock) = {} \/
        (current # NoSchedule /\ A!ChangedGroups(old.schedule, current, clock) \subseteq A!CoveredGroups(current))
      BY DEF A!ChangedGroups
  <2> QED BY <2>1, <1>2, RecordTyping DEF Scheduled
<1> HIDE DEF updated
<1>7. new \in Changes
    BY <1>2, <1>3, <1>5, <1>6 DEF Changes, A!Instants
<1> HIDE DEF new
<1> QED BY <1>1, <1>7, EndLeaves DEF Leaves, AddressShape

(* update() compares, or goes on to load the baseline.                        *)
LEMMA UpdateLeaves ==
    ASSUME AddressAssumption, AddressShape, NEW r \in Refreshes, A!Update(r),
           ready' \in BOOLEAN, schedule' \in Schedules \cup {NoReading}, groups' \in SUBSET Groups
    PROVE  Leaves(r)
<1>1. CASE loaded
  <2>1. A!Compare(r, baseline) /\ baseline \in A!Baselines
      BY <1>1 DEF A!Update, AddressShape
  <2> QED BY <2>1, CompareLeaves
<1>2. CASE ~loaded
    BY <1>2 DEF A!Update, Leaves, AddressShape
<1> QED BY <1>1, <1>2

(* What is left has the shape, and the clock is set again when nobody goes on.*)
LEMMA LeavesTyped ==
    ASSUME AddressAssumption, AddressShape, NEW r \in Refreshes, Leaves(r), UNCHANGED clock,
           ready' \in BOOLEAN, schedule' \in Schedules \cup {NoReading}
    PROVE  /\ polls' \in [Refreshes -> Steps] /\ change' \in [Refreshes -> Changes]
           /\ tick' \in {NoTick} \cup 1..(Horizon + 1)
           /\ polls'[r] \in {"idle", "loading", "saving"}
           /\ \A s \in Refreshes \ {r} : polls'[s] = polls[s]
           /\ A!ClockCovers'
<1> DEFINE reading == IF ready' THEN schedule' ELSE NoReading
<1>1. polls \in [Refreshes -> Steps] /\ clock \in 0..Horizon /\ tick \in {NoTick} \cup 1..(Horizon + 1)
    BY DEF AddressShape, A!Instants
<1>2. /\ A!NextBoundary(reading, clock) \in (clock + 1)..(Horizon + 1)
      /\ \A t \in A!Boundaries(reading) : ~(clock < t /\ t < A!NextBoundary(reading, clock))
    BY <1>1, BoundarySays
<1>3. NoTick \notin 1..(Horizon + 1) /\ Horizon \in Nat
    BY DEF AddressAssumption, A!AddressConstants
<1>4. A!NextBoundary(reading, clock) \in 1..(Horizon + 1)
    BY <1>1, <1>2, <1>3
<1> HIDE DEF reading
<1>5. CASE polls' = [polls EXCEPT ![r] = "idle"] /\ tick' = A!NextBoundary(reading, clock)
  <2>1. tick' # NoTick /\ \A t \in A!Boundaries(reading) : ~(clock < t /\ t < tick')
      BY <1>2, <1>3, <1>4, <1>5
  <2>2. ready' => reading = schedule'
      BY DEF reading
  <2>3. A!ClockCovers'
      BY <2>1, <2>2 DEF A!ClockCovers, A!Boundaries
  <2> QED BY <1>1, <1>4, <1>5, <2>3 DEF Leaves, Steps
<1>6. CASE (\E s \in {"loading", "saving"} : polls' = [polls EXCEPT ![r] = s]) /\ UNCHANGED tick
  <2>1. polls'[r] \in {"loading", "saving"}
      BY <1>1, <1>6
  <2>2. A!ClockCovers'
      BY <2>1 DEF A!ClockCovers
  <2> QED BY <1>1, <1>6, <2>1, <2>2 DEF Leaves, Steps
<1> QED BY <1>5, <1>6 DEF Leaves, reading

(* Every refresh that goes on without a request of its own leaves the state   *)
(* so, and what it changes has its type.                                      *)
LEMMA ContinuationLeaves ==
    ASSUME AddressAssumption, AddressShape, NEW r \in Refreshes, NEW result \in A!Results,
           \/ A!SnapshotSaved(r) \/ A!BaselineLoaded(r) \/ A!BaselineSaved(r) \/ A!BaselineSaveFails(r)
           \/ A!FetchFails(r, result) \/ A!FetchUnpublished(r, result)
    PROVE  /\ Leaves(r) /\ UNCHANGED clock
           /\ addressOk' \in BOOLEAN /\ ready' \in BOOLEAN /\ loaded' \in BOOLEAN /\ lastOk' \in BOOLEAN
           /\ UNCHANGED overlapped
           /\ groups' \in SUBSET Groups /\ schedule' \in Schedules \cup {NoReading}
           /\ baseline' \in A!Baselines /\ baselineFile' \in A!Baselines
<1>1. CASE A!SnapshotSaved(r)
  <2>1. /\ ready' = TRUE /\ lastOk' = TRUE /\ A!Update(r)
        /\ UNCHANGED <<clock, addressOk, groups, schedule, loaded, baseline, baselineFile, overlapped>>
      BY <1>1 DEF A!SnapshotSaved, A!baselineVars
  <2> QED BY <2>1, UpdateLeaves DEF AddressShape
<1>2. CASE A!BaselineLoaded(r)
  <2>1. /\ loaded' = TRUE /\ baseline' \in A!Baselines /\ A!Compare(r, baseline')
        /\ UNCHANGED <<clock, addressOk, groups, schedule, ready, baselineFile, lastOk, overlapped>>
      BY <1>2 DEF A!BaselineLoaded, AddressShape
  <2> QED BY <2>1, CompareLeaves DEF AddressShape
<1>3. CASE A!BaselineSaved(r)
  <2>1. /\ baseline' = change[r].baseline /\ baselineFile' = baseline' /\ A!EndRefresh(r)
        /\ UNCHANGED <<clock, addressOk, groups, schedule, ready, loaded, lastOk, overlapped>>
      BY <1>3 DEF A!BaselineSaved
  <2>2. baseline' \in A!Baselines
      BY <2>1 DEF AddressShape, Changes
  <2> QED BY <2>1, <2>2, EndLeaves DEF AddressShape
<1>4. CASE A!BaselineSaveFails(r)
  <2>1. /\ A!EndRefresh(r)
        /\ UNCHANGED <<clock, addressOk, groups, schedule, ready, loaded, baseline, baselineFile,
                       lastOk, overlapped>>
      BY <1>4 DEF A!BaselineSaveFails, A!baselineVars, A!ghostVars
  <2> QED BY <2>1, EndLeaves DEF AddressShape
<1>5. CASE A!FetchFails(r, result)
  <2>1. /\ addressOk' \in BOOLEAN /\ groups' \in SUBSET Groups /\ lastOk' = FALSE /\ A!Update(r)
        /\ UNCHANGED <<clock, ready, schedule, loaded, baseline, baselineFile, overlapped>>
      BY <1>5 DEF A!FetchFails, A!baselineVars, AddressShape, A!Results
  <2> QED BY <2>1, UpdateLeaves DEF AddressShape
<1>6. CASE A!FetchUnpublished(r, result)
  <2>1. /\ addressOk' = TRUE /\ groups' \in SUBSET Groups /\ schedule' = NoReading /\ lastOk' = TRUE
        /\ A!Update(r) /\ UNCHANGED <<clock, ready, loaded, baseline, baselineFile, overlapped>>
      BY <1>6 DEF A!FetchUnpublished, A!baselineVars, A!Results
  <2> QED BY <2>1, UpdateLeaves DEF AddressShape
<1> QED BY <1>1, <1>2, <1>3, <1>4, <1>5, <1>6

(* At the start there is nothing to wake for.                                 *)
LEMMA AwakeStart ==
    ASSUME AddressAssumption, A!Init
    PROVE  Awake
<1>1. A!NewBaseline \in A!Baselines
    BY BaselineTyping DEF A!NewBaseline, Scheduled
<1>2. 0 \in A!Instants
    BY DEF AddressAssumption, A!AddressConstants, A!Instants
<1>3. A!NoChange \in Changes
    BY <1>1, <1>2 DEF A!NoChange, Changes, Scheduled
<1>4. AddressShape
    BY <1>1, <1>2, <1>3 DEF A!Init, AddressShape, Steps
<1> QED BY <1>4 DEF A!Init, Awake, A!ClockCovers

(* At the start nothing is live.                                              *)
LEMMA VerifiedStart ==
    ASSUME AddressAssumption, A!Init
    PROVE  Verified
BY AwakeStart DEF A!Init, Verified, Live, A!ReadyIsVerified, A!AtProvider

(* The state keeps its shape and the clock is set, however many refreshes     *)
(* overlap.                                                                   *)
LEMMA AwakeStep ==
    ASSUME AddressAssumption, Awake, A!Next
    PROVE  Awake'
<1> USE DEF Awake
<1>0. Schedules \subseteq A!Records /\ NoReading \notin A!Records /\ Horizon \in Nat
    BY DEF AddressAssumption, A!AddressConstants
<1>1. ASSUME NEW r \in Refreshes, A!Start(r) PROVE Awake'
  <2>1. /\ polls' = [polls EXCEPT ![r] = "fetching"] /\ ready' = FALSE
        /\ change' = [change EXCEPT ![r].now = clock]
        /\ UNCHANGED <<clock, groups, schedule, tick, loaded, baseline, baselineFile, lastOk>>
        /\ addressOk' = FALSE /\ overlapped' \in BOOLEAN
      BY <1>1 DEF A!Start, A!baselineVars
  <2>2. polls' \in [Refreshes -> Steps]
      BY <2>1 DEF AddressShape, Steps
  <2>3. change' \in [Refreshes -> Changes]
      BY <2>1 DEF AddressShape, Changes
  <2>4. AddressShape'
      BY <2>1, <2>2, <2>3 DEF AddressShape
  <2> QED BY <2>1, <2>4 DEF A!ClockCovers
<1>2. ASSUME NEW r \in Refreshes, NEW result \in A!Results, Leaves(r), UNCHANGED clock,
             addressOk' \in BOOLEAN, ready' \in BOOLEAN, loaded' \in BOOLEAN, lastOk' \in BOOLEAN, UNCHANGED overlapped,
             groups' \in SUBSET Groups, schedule' \in Schedules \cup {NoReading},
             baseline' \in A!Baselines, baselineFile' \in A!Baselines
      PROVE  Awake'
  <2>1. /\ polls' \in [Refreshes -> Steps] /\ change' \in [Refreshes -> Changes]
        /\ tick' \in {NoTick} \cup 1..(Horizon + 1) /\ A!ClockCovers'
      BY <1>2, LeavesTyped
  <2> QED BY <1>2, <2>1 DEF AddressShape
<1>3. ASSUME NEW r \in Refreshes, NEW result \in A!Results, A!FetchVerified(r, result) PROVE Awake'
  <2>1. /\ addressOk' = TRUE /\ groups' \in SUBSET Groups /\ schedule' \in Schedules
      BY <1>3 DEF A!FetchVerified, A!Results, A!Errors
  <2>2. /\ polls' = [polls EXCEPT ![r] = "snapshot"]
        /\ UNCHANGED <<clock, change, ready, tick, loaded, baseline, baselineFile, lastOk, overlapped>>
      BY <1>3 DEF A!FetchVerified, A!baselineVars, A!ghostVars
  <2>3. polls' \in [Refreshes -> Steps] /\ polls'[r] = "snapshot"
      BY <2>2 DEF AddressShape, Steps
  <2>4. AddressShape'
      BY <2>1, <2>2, <2>3 DEF AddressShape
  <2> QED BY <2>3, <2>4 DEF A!ClockCovers
<1>4. ASSUME A!ClockTick PROVE Awake'
  <2> DEFINE reading == IF ready THEN schedule ELSE NoReading
  <2>1. /\ UNCHANGED <<clock, polls, change, addressOk, groups, schedule, ready, loaded, baseline,
                       baselineFile, lastOk, overlapped>>
        /\ tick' = A!NextBoundary(reading, clock)
      BY <1>4 DEF A!ClockTick, A!ScheduleClock, A!refreshVars, A!baselineVars, A!ghostVars
  <2>2. /\ tick' \in (clock + 1)..(Horizon + 1)
        /\ \A t \in A!Boundaries(reading) : ~(clock < t /\ t < tick')
      BY <2>1, BoundarySays DEF AddressShape, A!Instants
  <2>3. tick' \in 1..(Horizon + 1) /\ tick' # NoTick
      BY <2>2, <1>0 DEF AddressShape, A!Instants, AddressAssumption, A!AddressConstants
  <2>4. AddressShape'
      BY <2>1, <2>3 DEF AddressShape
  <2>6. A!ClockCovers'
      BY <2>1, <2>2, <2>3 DEF A!ClockCovers, A!Boundaries
  <2> QED BY <2>4, <2>6
<1>5. ASSUME A!Pass PROVE Awake'
  <2>1. /\ clock < Horizon /\ (tick # NoTick => clock < tick) /\ clock' = clock + 1
        /\ UNCHANGED <<polls, change, addressOk, groups, schedule, ready, tick, loaded, baseline,
                       baselineFile, lastOk, overlapped>>
      BY <1>5 DEF A!Pass, A!refreshVars, A!sharedVars, A!baselineVars, A!ghostVars
  <2>2. AddressShape'
      BY <2>1, <1>0 DEF AddressShape, A!Instants
  <2>4. A!ClockCovers'
    <3>1. SUFFICES ASSUME ready, \A r \in Refreshes : polls[r] = "idle"
                   PROVE  tick # NoTick /\ \A t \in A!Boundaries(schedule) : ~(clock + 1 < t /\ t < tick)
        BY <2>1 DEF A!ClockCovers, A!Boundaries
    <3>2. tick # NoTick /\ \A t \in A!Boundaries(schedule) : ~(clock < t /\ t < tick)
        BY <3>1 DEF A!ClockCovers
    <3>3. schedule \in A!Records \/ schedule = NoReading
        BY <1>0 DEF AddressShape
    <3>4. \A t \in A!Boundaries(schedule) : t \in Int
      <4>1. schedule \in A!Records => \A c \in schedule.coverage \cup schedule.intervals :
                                          c.range[1] \in Int /\ c.range[2] \in Int
          BY RecordTyping, SpanTyping DEF Rows
      <4> QED BY <4>1, <3>3 DEF A!Boundaries
    <3>5. \A t \in A!Boundaries(schedule) : clock + 1 < t => clock < t
        BY <3>4 DEF AddressShape, A!Instants
    <3> QED BY <3>2, <3>5
  <2> QED BY <2>2, <2>4
<1>6. ASSUME A!Restart PROVE Awake'
  <2>1. /\ polls' = [r \in Refreshes |-> "idle"] /\ change' = [r \in Refreshes |-> A!NoChange]
        /\ addressOk' = FALSE /\ groups' = {} /\ schedule' = NoReading /\ ready' = FALSE
        /\ tick' = NoTick /\ loaded' = FALSE /\ baseline' = A!NewBaseline /\ lastOk' = TRUE
        /\ overlapped' = FALSE /\ clock' = clock
        /\ baselineFile' = baselineFile \/ \E r \in Refreshes : baselineFile' = change[r].baseline
      BY <1>6 DEF A!Restart
  <2>2. A!NewBaseline \in A!Baselines
      BY BaselineTyping DEF A!NewBaseline, Scheduled
  <2>3. A!NoChange \in Changes
    <3>1. 0 \in A!Instants
        BY <1>0 DEF A!Instants
    <3> QED BY <3>1, <2>2 DEF A!NoChange, Changes, Scheduled
  <2>4. baselineFile' \in A!Baselines
      BY <2>1 DEF AddressShape, Changes
  <2>5. AddressShape'
      BY <2>1, <2>2, <2>3, <2>4 DEF AddressShape, Steps
  <2> QED BY <2>1, <2>5 DEF A!ClockCovers
<1>7. A!Results # {}
  <2>1. [error |-> "both", groups |-> {}] \in A!Results
      BY DEF A!Results, A!Errors
  <2> QED BY <2>1
<1>8. ASSUME NEW r \in Refreshes, A!Refresh(r) PROVE Awake'
  <2>1. \E result \in A!Results :
            \/ A!Start(r) \/ A!FetchVerified(r, result)
            \/ A!SnapshotSaved(r) \/ A!BaselineLoaded(r) \/ A!BaselineSaved(r) \/ A!BaselineSaveFails(r)
            \/ A!FetchFails(r, result) \/ A!FetchUnpublished(r, result)
      BY <1>7, <1>8 DEF A!Refresh
  <2> QED BY <2>1, <1>1, <1>2, <1>3, ContinuationLeaves
<1> QED BY <1>4, <1>5, <1>6, <1>8 DEF A!Next

(* What is live stays verified, whatever the other refreshes still save or    *)
(* load, unless two overlapped while they asked the provider.                 *)
LEMMA LiveStep ==
    ASSUME AddressAssumption, Awake, Awake', Live, A!Next
    PROVE  Live'
<1> USE DEF Awake
<1>1. ASSUME overlapped' PROVE Live'
    BY <1>1 DEF Live, A!ReadyIsVerified
<1>2. ASSUME NEW r \in Refreshes, A!AtProvider(r), Leaves(r), ~overlapped, ~overlapped',
             ready' => /\ lastOk' /\ addressOk' /\ schedule' # NoReading
                       /\ A!CoveredGroups(schedule') \subseteq groups'
      PROVE  Live'
  <2>1. \A s \in Refreshes : ~A!AtProvider(s)'
    <3>1. \A s \in Refreshes \ {r} : ~A!AtProvider(s) /\ polls'[s] = polls[s]
        BY <1>2 DEF Live, Leaves, AddressShape
    <3>2. polls'[r] \in {"idle", "loading", "saving"}
        BY <1>2 DEF Leaves, AddressShape
    <3> QED BY <3>1, <3>2 DEF A!AtProvider
  <2>2. A!ReadyIsVerified'
      BY <1>2, <2>1 DEF A!ReadyIsVerified, A!CoveredGroups
  <2> QED BY <2>1, <2>2 DEF Live, A!AtProvider
<1>3. ASSUME NEW r \in Refreshes, A!Start(r) PROVE Live'
  <2>1. /\ polls[r] = "idle" /\ polls' = [polls EXCEPT ![r] = "fetching"] /\ ready' = FALSE
        /\ overlapped' = \E s \in Refreshes \ {r} : A!AtProvider(s)
      BY <1>3 DEF A!Start
  <2>2. CASE ~overlapped'
    <3>1. \A s \in Refreshes \ {r} : ~A!AtProvider(s)
        BY <2>1, <2>2
    <3>2. polls'[r] = "fetching" /\ \A s \in Refreshes \ {r} : polls'[s] = polls[s]
        BY <2>1 DEF AddressShape
    <3>3. \A s \in Refreshes \ {r} : ~A!AtProvider(s)'
        BY <3>1, <3>2 DEF A!AtProvider
    <3>4. \A s \in Refreshes : polls'[s] = "snapshot" => FALSE
        BY <3>2, <3>3 DEF A!AtProvider
    <3> QED BY <2>1, <3>3, <3>4 DEF Live, A!ReadyIsVerified
  <2> QED BY <1>1, <2>2
<1>4. ASSUME NEW r \in Refreshes, NEW result \in A!Results,
             A!FetchFails(r, result) \/ A!FetchUnpublished(r, result)
      PROVE  Live'
  <2>1. A!AtProvider(r) /\ UNCHANGED ready /\ Leaves(r) /\ UNCHANGED overlapped
      BY <1>4, ContinuationLeaves DEF A!FetchFails, A!FetchUnpublished, A!AtProvider
  <2>2. CASE ~overlapped
    <3>1. ~ready'
        BY <2>1, <2>2 DEF Live, A!ReadyIsVerified
    <3> QED BY <1>2, <2>1, <2>2, <3>1
  <2> QED BY <1>1, <2>1, <2>2
<1>5. ASSUME NEW r \in Refreshes, NEW result \in A!Results, A!FetchVerified(r, result) PROVE Live'
  <2>1. /\ addressOk' /\ schedule' # NoReading /\ A!CoveredGroups(schedule') \subseteq groups'
        /\ A!AtProvider(r) /\ UNCHANGED <<ready, overlapped>>
        /\ polls' = [polls EXCEPT ![r] = "snapshot"]
      BY <1>5 DEF A!FetchVerified, A!CoveredGroups, A!AtProvider, A!ghostVars
  <2>2. CASE ~overlapped
    <3>1. ~ready'
        BY <2>1, <2>2 DEF Live, A!ReadyIsVerified
    <3>2. \A s \in Refreshes \ {r} : ~A!AtProvider(s) /\ polls'[s] = polls[s]
        BY <2>1, <2>2 DEF Live, AddressShape
    <3>3. \A s \in Refreshes \ {r} : ~A!AtProvider(s)'
        BY <3>2 DEF A!AtProvider
    <3>4. A!ReadyIsVerified'
        BY <3>1 DEF A!ReadyIsVerified
    <3> QED BY <2>1, <3>3, <3>4 DEF Live, A!CoveredGroups
  <2> QED BY <1>1, <2>1, <2>2
<1>6. ASSUME NEW r \in Refreshes, A!SnapshotSaved(r) PROVE Live'
  <2>1. /\ polls[r] = "snapshot" /\ lastOk' = TRUE /\ UNCHANGED <<addressOk, groups, schedule, overlapped>>
      BY <1>6 DEF A!SnapshotSaved
  <2>2. Leaves(r) /\ A!AtProvider(r)
    <3>1. \E result : result \in A!Results
      <4>1. [error |-> "both", groups |-> {}] \in A!Results
          BY DEF A!Results, A!Errors
      <4> QED BY <4>1
    <3> QED BY <1>6, <2>1, <3>1, ContinuationLeaves DEF A!AtProvider
  <2>3. CASE ~overlapped
    <3>1. addressOk /\ schedule # NoReading /\ A!CoveredGroups(schedule) \subseteq groups
        BY <2>1, <2>3 DEF Live
    <3> QED BY <1>2, <2>1, <2>2, <2>3, <3>1 DEF A!CoveredGroups
  <2> QED BY <1>1, <2>1, <2>3
<1>7. ASSUME NEW r \in Refreshes, A!BaselineLoaded(r) \/ A!BaselineSaved(r) \/ A!BaselineSaveFails(r)
      PROVE  Live'
  <2>1. /\ UNCHANGED <<addressOk, groups, schedule, ready, lastOk, overlapped>>
        /\ ~A!AtProvider(r)
      BY <1>7 DEF A!BaselineLoaded, A!BaselineSaved, A!BaselineSaveFails, A!ghostVars, A!AtProvider
  <2>2. Leaves(r)
    <3>1. \E result : result \in A!Results
      <4>1. [error |-> "both", groups |-> {}] \in A!Results
          BY DEF A!Results, A!Errors
      <4> QED BY <4>1
    <3> QED BY <1>7, <3>1, ContinuationLeaves
  <2>3. \A s \in Refreshes : /\ A!AtProvider(s)' <=> A!AtProvider(s)
                             /\ polls'[s] = "snapshot" <=> polls[s] = "snapshot"
    <3>1. polls'[r] \in {"idle", "loading", "saving"} /\ \A s \in Refreshes \ {r} : polls'[s] = polls[s]
        BY <2>2 DEF Leaves, AddressShape
    <3> QED BY <2>1, <3>1 DEF A!AtProvider
  <2> QED BY <2>1, <2>3 DEF Live, A!ReadyIsVerified, A!CoveredGroups
<1>8. CASE A!ClockTick \/ A!Pass
  <2>1. UNCHANGED <<polls, addressOk, groups, schedule, ready, lastOk, overlapped>>
      BY <1>8 DEF A!ClockTick, A!Pass, A!refreshVars, A!sharedVars, A!ghostVars
  <2> QED BY <2>1 DEF Live, A!ReadyIsVerified, A!CoveredGroups, A!AtProvider
<1>9. CASE A!Restart
  <2>1. polls' = [r \in Refreshes |-> "idle"] /\ ready' = FALSE
      BY <1>9 DEF A!Restart
  <2> QED BY <2>1 DEF Live, A!ReadyIsVerified, A!AtProvider
<1>10. ASSUME NEW r \in Refreshes, A!Refresh(r) PROVE Live'
    BY <1>3, <1>4, <1>5, <1>6, <1>7, <1>10 DEF A!Refresh
<1> QED BY <1>8, <1>9, <1>10 DEF A!Next

(* Both parts together.                                                       *)
LEMMA VerifiedStep ==
    ASSUME AddressAssumption, Verified, A!Next
    PROVE  Verified'
BY AwakeStep, LiveStep DEF Verified

-------------------------------------------------------------------------------
(* The comparison finds the news, and the baseline to be saved agrees with    *)
(* what listeners are going to know.                                          *)
LEMMA CompareReports ==
    ASSUME AddressAssumption, AddressShape, NEW r \in Refreshes, NEW old \in A!Baselines,
           Apart, polls[r] # "idle", A!Compare(r, old), schedule' \in Schedules \cup {NoReading}, groups' \in SUBSET Groups,
           ready' => \A c \in schedule'.coverage : c.range[2] > clock,
           NEW what, Agrees(old.schedule, what, clock)
    PROVE  Apart' /\ \A s \in Refreshes :
              /\ polls'[s] \in {"idle", "saving"}
              /\ polls'[s] = "saving" =>
                    /\ change'[s].now = clock
                    /\ change'[s].changed = {g \in Groups : Newness(what, change'[s].current, g, clock)}
                    /\ Agrees(change'[s].baseline.schedule, Learning(what, change'[s].current), clock)
<1> DEFINE current == IF ready' THEN A!ScheduleRecord(schedule') ELSE NoSchedule
           next == Retained(old.schedule, current, clock)
           new == [baseline |-> [groups |-> groups', schedule |-> next], current |-> current, now |-> clock,
                   changed |-> A!ChangedGroups(old.schedule, current, clock)]
<1>1. A!EndRefresh(r) \/ (/\ polls' = [polls EXCEPT ![r] = "saving"]
                          /\ change' = [change EXCEPT ![r] = new])
    BY DEF A!Compare, Retained
<1>2. /\ current \in Scheduled
      /\ current # NoSchedule => /\ A!OutagesCovered(current)
                                 /\ \A c \in current.coverage : c.range[2] > clock
    BY RecordOfReading DEF Scheduled
<1>3. clock \in 0..Horizon /\ old.schedule \in Scheduled
    BY BaselineTyping DEF AddressShape, A!Instants
<1> HIDE DEF current
<1>4. /\ Agrees(next, Learning(what, current), clock)
      /\ A!ChangedGroups(old.schedule, current, clock) = {g \in Groups : Newness(what, current, g, clock)}
    BY <1>2, <1>3, ReportSays
<1>5. /\ polls \in [Refreshes -> Steps] /\ change \in [Refreshes -> Changes]
      /\ \A s \in Refreshes \ {r} : polls[s] = "idle"
    BY DEF AddressShape, Apart
<1>6. CASE A!EndRefresh(r)
  <2>1. polls' = [polls EXCEPT ![r] = "idle"]
      BY <1>6 DEF A!EndRefresh
  <2>2. \A s \in Refreshes : polls'[s] = "idle"
      BY <2>1, <1>5
  <2> QED BY <2>2 DEF Apart
<1>7. CASE polls' = [polls EXCEPT ![r] = "saving"] /\ change' = [change EXCEPT ![r] = new]
  <2> HIDE DEF new
  <2>1. /\ polls'[r] = "saving" /\ change'[r] = new
        /\ \A s \in Refreshes \ {r} : polls'[s] = "idle"
      BY <1>5, <1>7
  <2>2. /\ new.now = clock /\ new.current = current /\ new.baseline.schedule = next
        /\ new.changed = A!ChangedGroups(old.schedule, current, clock)
      BY DEF new
  <2> HIDE DEF next
  <2> QED BY <2>1, <2>2, <1>4 DEF Apart
<1> QED BY <1>1, <1>6, <1>7

(* What agrees now agrees later: fewer instants are to come.                  *)
LEMMA AgreesLater ==
    ASSUME NEW rec, NEW what, NEW now \in Int, NEW then \in Int, now <= then, Agrees(rec, what, now)
    PROVE  Agrees(rec, what, then)
<1>1. \A t \in then..Horizon : t \in now..Horizon
    OBVIOUS
<1> QED BY <1>1 DEF Agrees

(* Nothing is known at first.                                                 *)
LEMMA ReportedStart ==
    ASSUME AddressAssumption, A!Init
    PROVE  Reported
<1>1. known = A!Unknown /\ knownFile = A!Unknown /\ baseline = A!NewBaseline /\ baselineFile = A!NewBaseline
    BY DEF A!Init
<1>2. clock = 0 /\ \A r \in Refreshes : polls[r] = "idle"
    BY DEF A!Init
<1>3. Agrees(NoSchedule, A!Unknown, 0)
  <2>1. 0..Horizon = A!Instants
      BY DEF A!Instants
  <2>2. \A g \in Groups, t \in A!Instants : A!Unknown[g][t] = {"unverified"}
      BY DEF A!Unknown
  <2> QED BY <2>1, <2>2, NothingAt DEF Agrees
<1>4. A!NewBaseline.schedule = NoSchedule
    BY DEF A!NewBaseline
<1>5. ~overlapped
    BY DEF A!Init
<1> QED BY <1>1, <1>2, <1>3, <1>4, <1>5 DEF Reported, Apart, Upcoming, Agreement, Newly

(* A refresh that compares, or has to load the baseline first. *)
LEMMA UpdateReports ==
    ASSUME AddressAssumption, AddressShape, Agreement, NEW r \in Refreshes, A!Update(r),
           Apart, polls[r] # "idle", ~overlapped,
           schedule' \in Schedules \cup {NoReading}, groups' \in SUBSET Groups,
           ready' => \A c \in schedule'.coverage : c.range[2] > clock, change[r].now = clock,
           UNCHANGED <<clock, baseline, baselineFile, known, knownFile, overlapped>>
    PROVE  Reported'
<1>1. \A s \in Refreshes \ {r} : polls[s] = "idle"
    BY DEF Apart
<1>2. Agrees(baseline.schedule, known, clock) /\ Agrees(baselineFile.schedule, knownFile, clock)
    BY DEF Agreement
<1>3. CASE loaded
  <2>1. A!Compare(r, baseline) /\ baseline \in A!Baselines
      BY <1>3 DEF A!Update, AddressShape
  <2>2. Apart' /\ \A s \in Refreshes :
          /\ polls'[s] \in {"idle", "saving"}
          /\ polls'[s] = "saving" =>
                /\ change'[s].now = clock
                /\ change'[s].changed = {g \in Groups : Newness(known, change'[s].current, g, clock)}
                /\ Agrees(change'[s].baseline.schedule, Learning(known, change'[s].current), clock)
      BY <1>2, <2>1, CompareReports
  <2>3. Upcoming'
      BY <2>2 DEF Upcoming
  <2>4. Agreement' /\ Newly'
      BY <2>2, <1>2 DEF Agreement, Newly
  <2> QED BY <2>2, <2>3, <2>4 DEF Reported
<1>4. CASE ~loaded
  <2>1. polls' = [polls EXCEPT ![r] = "loading"] /\ change' = change
      BY <1>4 DEF A!Update
  <2>2. polls'[r] = "loading" /\ \A s \in Refreshes \ {r} : polls'[s] = "idle"
      BY <1>1, <2>1 DEF AddressShape
  <2>3. Upcoming'
      BY <2>1, <2>2 DEF Upcoming
  <2> QED BY <1>2, <2>2, <2>3 DEF Reported, Apart, Agreement, Newly
<1> QED BY <1>3, <1>4

(* Every step keeps what is known and what is compared in agreement.          *)
LEMMA ReportedStep ==
    ASSUME AddressAssumption, ~Straddles, Verified, Reported, A!Next, Apart'
    PROVE  Reported'
<1> USE DEF Reported, Verified, Awake
<1>0. \A r, s \in Refreshes : polls[r] # "idle" /\ polls[s] # "idle" => r = s
    BY DEF Apart
<1>a. Agrees(baseline.schedule, known, clock) /\ Agrees(baselineFile.schedule, knownFile, clock)
    BY DEF Agreement
<1>1. ASSUME NEW r \in Refreshes, A!Start(r) PROVE Reported'
  <2>1. /\ polls' = [polls EXCEPT ![r] = "fetching"]
        /\ change' = [change EXCEPT ![r].now = clock]
        /\ overlapped' = \E s \in Refreshes \ {r} : A!AtProvider(s)
        /\ UNCHANGED <<clock, baseline, baselineFile, known, knownFile>>
      BY <1>1 DEF A!Start, A!baselineVars
  <2>2. polls'[r] = "fetching" /\ change'[r].now = clock
      BY <2>1 DEF AddressShape, Changes
  <2>3. \A s \in Refreshes \ {r} : polls'[s] = "idle" /\ polls[s] = "idle"
      BY <2>1, <2>2 DEF Apart, AddressShape
  <2>4. ~overlapped'
      BY <2>1, <2>3 DEF A!AtProvider
  <2>5. Upcoming'
      BY <2>1, <2>2, <2>3 DEF Upcoming
  <2>6. \A s \in Refreshes : polls'[s] # "saving"
      BY <2>2, <2>3
  <2> QED BY <1>a, <2>1, <2>4, <2>5, <2>6 DEF Agreement, Newly
<1>2. ASSUME NEW r \in Refreshes, A!SnapshotSaved(r) PROVE Reported'
  <2>1. A!Update(r) /\ UNCHANGED <<clock, groups, schedule, baseline, baselineFile, known, knownFile, overlapped>>
        /\ polls[r] # "idle"
      BY <1>2 DEF A!SnapshotSaved, A!baselineVars
  <2>2. change[r].now = clock /\ \A c \in schedule.coverage : c.range[2] > clock
      BY <1>2 DEF A!SnapshotSaved, Upcoming
  <2> QED BY <2>1, <2>2, UpdateReports DEF AddressShape
<1>3. ASSUME NEW r \in Refreshes, A!BaselineLoaded(r) PROVE Reported'
  <2>1. /\ A!Compare(r, baseline')
        /\ UNCHANGED <<clock, groups, schedule, ready, baselineFile, knownFile, overlapped>>
        /\ polls[r] # "idle"
        /\ \/ baseline' = baselineFile /\ known' = knownFile
           \/ UNCHANGED <<baseline, known>>
      BY <1>3 DEF A!BaselineLoaded
  <2>2. baseline' \in A!Baselines /\ Agrees(baseline'.schedule, known', clock)
      BY <2>1, <1>a DEF AddressShape
  <2>3. ready => \A c \in schedule.coverage : c.range[2] > clock
      BY <1>3 DEF A!BaselineLoaded, Upcoming
  <2>4. Apart' /\ \A s \in Refreshes :
          /\ polls'[s] \in {"idle", "saving"}
          /\ polls'[s] = "saving" =>
                /\ change'[s].now = clock
                /\ change'[s].changed = {g \in Groups : Newness(known', change'[s].current, g, clock)}
                /\ Agrees(change'[s].baseline.schedule, Learning(known', change'[s].current), clock)
      BY <2>1, <2>2, <2>3, CompareReports DEF AddressShape
  <2>5. Upcoming'
      BY <2>1, <2>4 DEF Upcoming
  <2>6. Agreement' /\ Newly'
      BY <1>a, <2>1, <2>2, <2>4 DEF Agreement, Newly
  <2> QED BY <2>1, <2>4, <2>5, <2>6
<1>b. ASSUME NEW r \in Refreshes, polls[r] # "idle", A!EndRefresh(r)
      PROVE  \A s \in Refreshes : polls'[s] = "idle"
    BY <1>0, <1>b DEF A!EndRefresh, AddressShape
<1>4. ASSUME NEW r \in Refreshes, A!BaselineSaved(r) PROVE Reported'
  <2>1. /\ baseline' = change[r].baseline /\ baselineFile' = baseline'
        /\ known' = A!Learned(change[r].current) /\ knownFile' = known' /\ clock' = clock
        /\ overlapped' = overlapped
      BY <1>4 DEF A!BaselineSaved
  <2>2. A!Learned(change[r].current) = Learning(known, change[r].current)
      BY DEF A!Learned, Learning
  <2>3. Agrees(change[r].baseline.schedule, Learning(known, change[r].current), clock)
      BY <1>4 DEF A!BaselineSaved, Agreement
  <2>4. \A s \in Refreshes : polls'[s] = "idle"
      BY <1>4, <1>b DEF A!BaselineSaved
  <2> QED BY <2>1, <2>2, <2>3, <2>4 DEF Apart, Upcoming, Agreement, Newly
<1>5. ASSUME NEW r \in Refreshes, A!BaselineSaveFails(r) PROVE Reported'
  <2>1. UNCHANGED <<clock, baseline, baselineFile, known, knownFile, overlapped>>
      BY <1>5 DEF A!BaselineSaveFails, A!baselineVars, A!ghostVars
  <2>2. \A s \in Refreshes : polls'[s] = "idle"
      BY <1>5, <1>b DEF A!BaselineSaveFails
  <2> QED BY <1>a, <2>1, <2>2 DEF Apart, Upcoming, Agreement, Newly
<1>6. ASSUME NEW r \in Refreshes, NEW result \in A!Results, A!FetchFails(r, result) PROVE Reported'
  <2>1. ~ready /\ change[r].now = clock /\ polls[r] # "idle"
      BY <1>6 DEF A!FetchFails, Live, A!ReadyIsVerified, A!AtProvider, Upcoming
  <2>2. /\ groups' \in SUBSET Groups /\ A!Update(r)
        /\ UNCHANGED <<clock, ready, schedule, baseline, baselineFile, known, knownFile, overlapped>>
      BY <1>6 DEF A!FetchFails, A!baselineVars, AddressShape, A!Results
  <2> QED BY <2>1, <2>2, UpdateReports DEF AddressShape
<1>7. ASSUME NEW r \in Refreshes, NEW result \in A!Results, A!FetchUnpublished(r, result) PROVE Reported'
  <2>1. ~ready /\ change[r].now = clock /\ polls[r] # "idle"
      BY <1>7 DEF A!FetchUnpublished, Live, A!ReadyIsVerified, A!AtProvider, Upcoming
  <2>2. /\ groups' \in SUBSET Groups /\ schedule' = NoReading /\ A!Update(r)
        /\ UNCHANGED <<clock, ready, baseline, baselineFile, known, knownFile, overlapped>>
      BY <1>7 DEF A!FetchUnpublished, A!baselineVars, A!Results
  <2> QED BY <2>1, <2>2, UpdateReports DEF AddressShape
<1>8. ASSUME NEW r \in Refreshes, NEW result \in A!Results, A!FetchVerified(r, result) PROVE Reported'
  <2>1. change[r].now = clock
      BY <1>8 DEF A!FetchVerified, Upcoming
  <2>2. \A c \in schedule'.coverage : c.range[2] > clock
      BY <1>8, <2>1 DEF A!FetchVerified
  <2>3. /\ polls' = [polls EXCEPT ![r] = "snapshot"]
        /\ UNCHANGED <<clock, change, baseline, baselineFile, known, knownFile, overlapped>>
      BY <1>8 DEF A!FetchVerified, A!baselineVars, A!ghostVars
  <2>4. /\ polls'[r] = "snapshot" /\ change'[r].now = clock
        /\ \A s \in Refreshes \ {r} : polls'[s] = "idle"
      BY <1>0, <1>8, <2>1, <2>3 DEF AddressShape, A!FetchVerified
  <2>5. Upcoming'
      BY <2>2, <2>3, <2>4 DEF Upcoming
  <2>6. \A s \in Refreshes : polls'[s] # "saving"
      BY <2>4
  <2> QED BY <1>a, <2>3, <2>5, <2>6 DEF Agreement, Newly
<1>9. ASSUME A!ClockTick PROVE Reported'
  <2>1. UNCHANGED <<clock, polls, change, schedule, ready, baseline, baselineFile, known, knownFile,
                   overlapped>>
      BY <1>9 DEF A!ClockTick, A!refreshVars, A!baselineVars, A!ghostVars
  <2> QED BY <2>1 DEF Upcoming, Agreement, Newly
<1>10. ASSUME A!Pass PROVE Reported'
  <2>1. /\ \A r \in Refreshes : polls[r] = "idle"
        /\ clock' = clock + 1 /\ UNCHANGED <<polls, baseline, baselineFile, known, knownFile, overlapped>>
      BY <1>10 DEF A!Pass, A!refreshVars, A!baselineVars, A!ghostVars
  <2>2. clock \in Int /\ clock' \in Int /\ clock <= clock'
      BY <2>1 DEF AddressShape, A!Instants
  <2>3. Agrees(baseline.schedule, known, clock') /\ Agrees(baselineFile.schedule, knownFile, clock')
      BY <1>a, <2>2, AgreesLater
  <2> QED BY <2>1, <2>3 DEF Upcoming, Agreement, Newly
<1>11. ASSUME A!Restart PROVE Reported'
  <2>1. /\ polls' = [r \in Refreshes |-> "idle"] /\ baseline' = A!NewBaseline /\ known' = A!Unknown
        /\ clock' = clock /\ overlapped' = FALSE
        /\ \/ UNCHANGED <<baselineFile, knownFile>>
           \/ \E r \in {x \in Refreshes : polls[x] = "saving"} :
                 baselineFile' = change[r].baseline /\ knownFile' = A!Learned(change[r].current)
      BY <1>11 DEF A!Restart
  <2>2. Agrees(A!NewBaseline.schedule, A!Unknown, clock)
    <3>1. A!NewBaseline.schedule = NoSchedule
        BY DEF A!NewBaseline
    <3>2. \A g \in Groups, t \in A!Instants : A!Unknown[g][t] = {"unverified"}
        BY DEF A!Unknown
    <3>3. clock..Horizon \subseteq A!Instants
        BY DEF AddressShape, A!Instants
    <3> QED BY <3>1, <3>2, <3>3, NothingAt DEF Agrees
  <2>3. Agrees(baselineFile'.schedule, knownFile', clock)
    <3>1. CASE UNCHANGED <<baselineFile, knownFile>>
        BY <3>1, <1>a
    <3>2. ASSUME NEW r \in Refreshes, polls[r] = "saving", baselineFile' = change[r].baseline,
                 knownFile' = A!Learned(change[r].current)
          PROVE  Agrees(baselineFile'.schedule, knownFile', clock)
      <4>1. A!Learned(change[r].current) = Learning(known, change[r].current)
          BY DEF A!Learned, Learning
      <4> QED BY <3>2, <4>1 DEF Agreement
    <3> QED BY <2>1, <3>1, <3>2
  <2> QED BY <2>1, <2>2, <2>3 DEF Upcoming, Agreement, Newly
<1>12. (\E r \in Refreshes : A!Refresh(r)) \/ A!ClockTick \/ A!Pass \/ A!Restart
    BY DEF A!Next
<1> QED BY <1>1, <1>2, <1>3, <1>4, <1>5, <1>6, <1>7, <1>8, <1>9, <1>10, <1>11, <1>12 DEF A!Refresh

-------------------------------------------------------------------------------
(* However many refreshes overlap: when none is under way, the clock is set   *)
(* to wake no later than the next instant at which what the entities show     *)
(* changes, since every end of a refresh sets it again (_schedule_clock and   *)
(* _async_update_data of coordinator.py).                                     *)
THEOREM ClockAlwaysCovers == MCSpec => [](A!TypeOK /\ A!ClockCovers)
<1>1. MCInit => Awake
    BY AddressAssumption, AwakeStart DEF MCInit
<1>2. Awake /\ [MCNext]_allvars => Awake'
  <2> SUFFICES ASSUME Awake, [MCNext]_allvars PROVE Awake'
      OBVIOUS
  <2>1. CASE A!Next
      BY <2>1, AddressAssumption, AwakeStep
  <2>2. CASE UNCHANGED avars
      BY <2>2 DEF avars, Awake, AddressShape, A!ClockCovers, A!Boundaries
  <2> QED BY <2>1, <2>2 DEF MCNext, allvars
<1>3. Awake => A!TypeOK /\ A!ClockCovers
    BY DEF Awake, AddressShape, Steps, Changes, A!TypeOK
<1> QED BY <1>1, <1>2, <1>3, PTL DEF MCSpec

(* For any groups, schedules, horizon and number of refreshes, which may      *)
(* overlap as they like: what is announced as ready is the last schedule      *)
(* verified together with its address, and every failed poll or new one       *)
(* revokes it at once, except from the moment at which a refresh begins while *)
(* another still asks the provider or saves the snapshot to the next one that *)
(* begins with no other there (_async_update_data of coordinator.py); and     *)
(* with no exception the clock wakes at the next boundary (_schedule_clock).  *)
THEOREM ShownStaysVerified == MCSpec => []ShownIsVerified
<1>1. MCInit => Verified
    BY AddressAssumption, VerifiedStart DEF MCInit
<1>2. Verified /\ [MCNext]_allvars => Verified'
  <2> SUFFICES ASSUME Verified, [MCNext]_allvars PROVE Verified'
      OBVIOUS
  <2>1. CASE A!Next
      BY <2>1, AddressAssumption, VerifiedStep
  <2>2. CASE UNCHANGED avars
      BY <2>2 DEF avars, Verified, Awake, AddressShape, Live, A!ReadyIsVerified, A!ClockCovers, A!CoveredGroups,
                  A!AtProvider, A!Boundaries
  <2> QED BY <2>1, <2>2 DEF MCNext, allvars
<1>3. Verified => ShownIsVerified
  <2>1. Verified => A!TypeOK
      BY DEF Verified, Awake, AddressShape, Steps, Changes, A!TypeOK
  <2> QED BY <2>1 DEF Verified, Awake, Live, ShownIsVerified
<1> QED BY <1>1, <1>2, <1>3, PTL DEF MCSpec

(* When no instant passes during a refresh and refreshes come one at a time,  *)
(* the timer's or the button's, a change is reported exactly for the groups   *)
(* of which something new was verified, whatever rows describe it and however *)
(* polls, missing days, failing saves and restarts interleave:                *)
(* changed_groups() compares with the baseline, and the baseline is what the  *)
(* listeners know.                                                            *)
THEOREM NewsAreReported ==
    ASSUME ~Straddles
    PROVE  MCSpec => []ReportsAreNews
<1> DEFINE Inv == Verified /\ (subject = "address" => Reported)
<1>1. MCInit => Inv
    BY AddressAssumption, VerifiedStart, ReportedStart DEF MCInit
<1>2. Inv /\ [MCNext]_allvars => Inv'
  <2> SUFFICES ASSUME Inv, [MCNext]_allvars PROVE Inv'
      OBVIOUS
  <2>1. CASE subject = "address" /\ A!Next /\ Apart' /\ subject' = subject
      BY <2>1, AddressAssumption, VerifiedStep, ReportedStep
  <2>2. CASE subject = "overlap" /\ A!Next /\ subject' = subject
      BY <2>2, AddressAssumption, VerifiedStep
  <2>3. CASE UNCHANGED avars /\ subject' = subject
    <3>1. Verified'
        BY <2>3 DEF avars, Verified, Awake, AddressShape, Live, A!ReadyIsVerified, A!ClockCovers,
                    A!CoveredGroups, A!AtProvider, A!Boundaries
    <3>2. Reported => Reported'
        BY <2>3 DEF avars, Reported, Apart, Upcoming, Agreement, Newly
    <3> QED BY <2>3, <3>1, <3>2
  <2> QED BY <2>1, <2>2, <2>3 DEF MCNext, allvars
<1>3. Inv => ReportsAreNews
  <2>1. \A current, g, now : A!News(current, g, now) <=> Newness(known, current, g, now)
      BY DEF A!News, Newness
  <2> QED BY <2>1 DEF Reported, Newly, ReportsAreNews, A!ReportsAreNews
<1> QED BY <1>1, <1>2, <1>3, PTL DEF MCSpec

================================================================================
