----------------------------- MODULE RpcProofs -----------------------------
(***************************************************************************)
(* Proofs, for every set of endpoints and any number of calls, that a      *)
(* first rejection leaves no copy anywhere and that the fan-out of         *)
(* Broadcast is one submission of Submission.  Then, for every set of      *)
(* providers, timeout, window, height and number of reorganisations, what  *)
(* the reads of RpcReads return.                                           *)
(***************************************************************************)
EXTENDS MCRpc, FiniteSetTheorems, WellFoundedInduction, TLAPS

\* A first call that nothing of has landed left no copy anywhere.
Untouched ==
  /\ verdict = "none" <=> calls = 0
  /\ calls = 0 => holds = {} /\ stray = {}
  /\ calls = 1 /\ ~Landed => holds = {} /\ stray = {}
  /\ verdict \in {"none", "rejected"} => ~ambiguous

IInv == TypeOK /\ Untouched

LEMMA TypeInit == Init => TypeOK
  <1> SUFFICES ASSUME Init PROVE TypeOK
    OBVIOUS
  <1>1. ambiguous \in BOOLEAN
    BY DEF Init
  <1>2. QED
    BY <1>1 DEF Init, TypeOK, Tasks, Verdicts

\* The present call is running while a task of it is not joined.
LEMMA TypeStep == TypeOK /\ [Next]_vars => TypeOK'
  <1> SUFFICES ASSUME TypeOK, [Next]_vars PROVE TypeOK'
    OBVIOUS
  <1> USE DEF TypeOK, Tasks, Verdicts, Answers
  <1>1. CASE Submit
    <2>1. ambiguous' \in BOOLEAN
      BY <1>1 DEF Submit
    <2>2. QED
      BY <1>1, <2>1 DEF Submit
  <1>2. ASSUME NEW endpoint \in Endpoints,
               Take(endpoint) \/ AlreadyKnown(endpoint) \/ Refuse(endpoint)
        PROVE  TypeOK'
    BY <1>2 DEF Take, AlreadyKnown, Refuse, Answer
  <1>3. ASSUME NEW endpoint \in Endpoints, Break(endpoint) PROVE TypeOK'
    BY <1>3 DEF Break
  <1>4. ASSUME NEW endpoint \in Endpoints,
               StrayEnds(endpoint) \/ Gossip(endpoint) \/ Forget(endpoint)
        PROVE  TypeOK'
    BY <1>4 DEF StrayEnds, Gossip, Forget
  <1>5. ASSUME NEW endpoint \in Endpoints, JoinSuccess(endpoint) PROVE TypeOK'
    BY <1>5 DEF JoinSuccess
  <1>6. ASSUME NEW endpoint \in Endpoints, JoinFailure(endpoint) PROVE TypeOK'
    BY <1>6 DEF JoinFailure, IsAmbiguous
  <1>7. CASE UNCHANGED vars
    BY <1>7 DEF vars
  <1>8. QED
    BY <1>1, <1>2, <1>3, <1>4, <1>5, <1>6, <1>7 DEF Next, Join

-----------------------------------------------------------------------------
(* What each step does to the copies and to what the call knows of them.    *)

LEMMA SubmitEffect ==
  ASSUME TypeOK, Submit
  PROVE  /\ verdict # "running" /\ verdict' = "running" /\ ~Landed' /\ ~ambiguous'
         /\ calls' = calls + 1 /\ UNCHANGED <<holds, stray>>
  BY DEF TypeOK, Submit, Landed, Answers

LEMMA AnswerEffect ==
  ASSUME TypeOK, NEW endpoint \in Endpoints, Take(endpoint) \/ AlreadyKnown(endpoint)
  PROVE  /\ verdict = "running" /\ verdict' = "running" /\ Landed' /\ holds' # {}
         /\ UNCHANGED <<stray, ambiguous, calls>>
         /\ holds # {} \/ Take(endpoint)
  <1>1. task[endpoint] = "sent" /\ task'[endpoint] \in {"accepted", "known"}
    BY DEF TypeOK, Take, AlreadyKnown, Answer
  <1>2. verdict = "running"
    BY <1>1 DEF TypeOK
  <1>3. QED
    BY <1>1, <1>2 DEF Take, AlreadyKnown, Answer, Landed, Answers

LEMMA RefuseEffect ==
  ASSUME TypeOK, NEW endpoint \in Endpoints, Refuse(endpoint)
  PROVE  UNCHANGED Landed /\ UNCHANGED <<holds, stray, ambiguous, verdict, calls>>
  BY DEF TypeOK, Refuse, Answer, Landed, Answers

LEMMA BreakEffect ==
  ASSUME TypeOK, NEW endpoint \in Endpoints, Break(endpoint)
  PROVE  /\ verdict = "running" /\ verdict' = "running" /\ Landed' /\ stray \subseteq stray'
         /\ UNCHANGED <<holds, ambiguous, calls>>
  <1>1. task[endpoint] # "joined" /\ task'[endpoint] = "broken"
    BY DEF TypeOK, Break
  <1>2. QED
    BY <1>1 DEF TypeOK, Break, Landed, Answers

LEMMA NodeEffect ==
  ASSUME NEW endpoint \in Endpoints,
         StrayEnds(endpoint) \/ Gossip(endpoint) \/ Forget(endpoint)
  PROVE  /\ holds # {} \/ stray # {}
         /\ UNCHANGED Landed /\ UNCHANGED <<ambiguous, verdict, calls>>
  BY DEF StrayEnds, Gossip, Forget, Landed

LEMMA SuccessEffect ==
  ASSUME TypeOK, NEW endpoint \in Endpoints, JoinSuccess(endpoint)
  PROVE  /\ verdict = "running" /\ verdict' = "accepted" /\ Landed /\ Landed'
         /\ UNCHANGED Landed
         /\ stray \subseteq stray' /\ UNCHANGED <<holds, ambiguous, calls>>
  <1>1. verdict = "running" /\ verdict' = "accepted" /\ Landed /\ Landed'
    BY DEF TypeOK, JoinSuccess, Landed, Answers
  <1>2. UNCHANGED Landed
    BY <1>1 DEF Landed
  <1>3. QED
    BY <1>1, <1>2 DEF JoinSuccess

LEMMA FailureEffect ==
  ASSUME TypeOK, NEW endpoint \in Endpoints, JoinFailure(endpoint)
  PROVE  /\ verdict = "running" /\ UNCHANGED Landed /\ UNCHANGED <<holds, stray, calls>>
         /\ \/ verdict' = "running"
            \/ verdict' = "unknown" /\ Landed
            \/ verdict' = "rejected" /\ ~Landed /\ ~ambiguous'
  <1> USE DEF TypeOK, JoinFailure, Landed, Answers, IsAmbiguous
  <1>1. verdict = "running" /\ UNCHANGED <<holds, stray, calls>>
    OBVIOUS
  <1>2. CASE \E other \in Endpoints \ {endpoint} : task[other] # "joined"
    BY <1>2
  <1>3. CASE \A other \in Endpoints \ {endpoint} : task[other] = "joined"
    <2>1. CASE ambiguous \/ task[endpoint] = "broken"
      BY <1>3, <2>1
    <2>2. CASE ~ambiguous /\ task[endpoint] = "refused"
      BY <1>3, <2>2
    <2>3. QED
      BY <2>1, <2>2
  <1>4. QED
    BY <1>1, <1>2, <1>3

-----------------------------------------------------------------------------

LEMMA UntouchedStep == IInv /\ [Next]_vars => Untouched'
  <1> SUFFICES ASSUME IInv, [Next]_vars PROVE Untouched'
    OBVIOUS
  <1> USE DEF IInv, Untouched
  <1>1. CASE Submit
    BY <1>1, SubmitEffect DEF TypeOK
  <1>2. ASSUME NEW endpoint \in Endpoints, Take(endpoint) \/ AlreadyKnown(endpoint)
        PROVE  Untouched'
    BY <1>2, AnswerEffect
  <1>3. ASSUME NEW endpoint \in Endpoints, Refuse(endpoint) PROVE Untouched'
    BY <1>3, RefuseEffect
  <1>4. ASSUME NEW endpoint \in Endpoints, Break(endpoint) PROVE Untouched'
    BY <1>4, BreakEffect
  <1>5. ASSUME NEW endpoint \in Endpoints,
               StrayEnds(endpoint) \/ Gossip(endpoint) \/ Forget(endpoint)
        PROVE  Untouched'
    BY <1>5, NodeEffect
  <1>6. ASSUME NEW endpoint \in Endpoints, JoinSuccess(endpoint) PROVE Untouched'
    BY <1>6, SuccessEffect
  <1>7. ASSUME NEW endpoint \in Endpoints, JoinFailure(endpoint) PROVE Untouched'
    BY <1>7, FailureEffect
  <1>8. CASE UNCHANGED vars
    BY <1>8 DEF vars, Landed
  <1>9. QED
    BY <1>1, <1>2, <1>3, <1>4, <1>5, <1>6, <1>7, <1>8 DEF Next, Join

LEMMA Invariance == Spec => []IInv
  <1>1. Init => IInv
    BY TypeInit DEF Init, IInv, Untouched
  <1>2. IInv /\ [Next]_vars => IInv'
    BY TypeStep, UntouchedStep DEF IInv
  <1>3. QED
    BY <1>1, <1>2, PTL DEF Spec

\* Every variable has its type, and a returned call waits for nothing.
THEOREM TypeCorrect == Spec => []TypeOK
  <1>1. IInv => TypeOK
    BY DEF IInv
  <1>2. QED
    BY <1>1, Invariance, PTL

\* A first submission that every endpoint refused left no copy anywhere.
THEOREM RejectionIsSafe == Spec => []RejectedIsAbsent
  <1>1. IInv => RejectedIsAbsent
    BY DEF IInv, Untouched, TypeOK, RejectedIsAbsent, Landed, Answers
  <1>2. QED
    BY <1>1, Invariance, PTL

-----------------------------------------------------------------------------

LEMMA RefinesStep == TypeOK /\ [Next]_vars => [Abstract!Next]_(Abstract!submission)
  <1> SUFFICES ASSUME TypeOK, [Next]_vars PROVE [Abstract!Next]_(Abstract!submission)
    OBVIOUS
  <1> USE DEF Abstract!Next, Abstract!submission
  <1>1. CASE Submit
    BY <1>1, SubmitEffect DEF Abstract!Submit
  <1>2. ASSUME NEW endpoint \in Endpoints, Take(endpoint) \/ AlreadyKnown(endpoint)
        PROVE  Abstract!Land
    BY <1>2, AnswerEffect DEF Abstract!Land
  <1>3. ASSUME NEW endpoint \in Endpoints, Refuse(endpoint)
        PROVE  UNCHANGED Abstract!submission
    BY <1>3, RefuseEffect
  <1>4. ASSUME NEW endpoint \in Endpoints, Break(endpoint) PROVE Abstract!Land
    BY <1>4, BreakEffect DEF Abstract!Land
  <1>5. ASSUME NEW endpoint \in Endpoints,
               StrayEnds(endpoint) \/ Gossip(endpoint) \/ Forget(endpoint)
        PROVE  Abstract!Vanish \/ UNCHANGED Abstract!submission
    BY <1>5, NodeEffect DEF Abstract!Vanish
  <1>6. ASSUME NEW endpoint \in Endpoints, JoinSuccess(endpoint) PROVE Abstract!Accept
    BY <1>6, SuccessEffect DEF Abstract!Accept
  <1>7. ASSUME NEW endpoint \in Endpoints, JoinFailure(endpoint)
        PROVE  Abstract!GiveUp \/ Abstract!Reject \/ UNCHANGED Abstract!submission
    BY <1>7, FailureEffect DEF Abstract!GiveUp, Abstract!Reject
  <1>8. CASE UNCHANGED vars
    BY <1>8 DEF vars, Landed
  <1>9. QED
    BY <1>1, <1>2, <1>3, <1>4, <1>5, <1>6, <1>7, <1>8 DEF Next, Join

\* The fan-out over the endpoints is one submission.
THEOREM ImplementsSubmission == Spec => IsSubmission
  <1>1. Init => Abstract!Init
    BY DEF Init, Abstract!Init, Landed, Answers
  <1>2. TypeOK /\ [Next]_vars => [Abstract!Next]_(Abstract!submission)
    BY RefinesStep
  <1>3. QED
    BY <1>1, <1>2, TypeCorrect, PTL DEF Spec, IsSubmission, Abstract!Spec

-----------------------------------------------------------------------------
(* Largest and smallest elements.                                            *)

NatLess == {pair \in Nat \X Nat : pair[1] < pair[2]}

LEMMA LeastNumber ==
  ASSUME NEW T \in SUBSET Nat, T # {}
  PROVE  \E x \in T : \A y \in T : x <= y
<1>1. IsWellFoundedOn(NatLess, Nat)
  BY NatLessThanWellFounded DEF OpToRel, NatLess
<1>2. PICK x \in T : \A y \in T : <<y, x>> \notin NatLess
  BY <1>1, WFMin
<1>3. ASSUME NEW y \in T PROVE x <= y
  <2>1. x \in Nat /\ y \in Nat /\ ~(y < x)
    BY <1>2 DEF NatLess
  <2> QED
    BY <2>1
<1> QED
  BY <1>3

LEMMA MinIsLeast ==
  ASSUME NEW T \in SUBSET Nat, T # {}
  PROVE  Reads!Min(T) \in T /\ \A y \in T : Reads!Min(T) <= y
<1>1. PICK x \in T : \A y \in T : x <= y
  BY LeastNumber
<1> QED
  BY <1>1 DEF Reads!Min

LEMMA MaxIsLargest ==
  ASSUME NEW bound \in Nat, NEW T \in SUBSET (0..bound), T # {}
  PROVE  Reads!Max(T) \in T /\ \A y \in T : Reads!Max(T) >= y
<1> DEFINE below == {bound - x : x \in T}
<1>1. below \in SUBSET Nat /\ below # {}
  <2>1. \A x \in T : bound - x \in Nat
    OBVIOUS
  <2> QED
    BY <2>1
<1>2. PICK least \in below : \A d \in below : least <= d
  BY <1>1, LeastNumber
<1>3. PICK x \in T : least = bound - x
  BY <1>2
<1>4. ASSUME NEW y \in T PROVE x >= y
  <2>1. bound - x <= bound - y
    BY <1>2, <1>3
  <2> QED
    BY <2>1
<1> QED
  BY <1>4 DEF Reads!Max

LEMMA SameCardinality == \A S : Reads!Cardinality(S) = Cardinality(S)
  BY DEF Cardinality, Reads!Cardinality, IsFiniteSet, Reads!IsFiniteSet

-----------------------------------------------------------------------------
(* What a read knows.                                                        *)

ReadsTyped ==
  /\ best \in Reads!Chains
  /\ view \in [Providers -> Reads!Chains]
  /\ start \in [Providers -> Reads!Chains]
  /\ kind \in Reads!AllKinds
  /\ about \in Reads!Forks \cup {Reads!Nothing}
  /\ kind \in {"ink", "call_at"} => about \in Reads!Forks
  /\ reply \in [Providers -> Reads!Chains \cup {Reads!Failed, Reads!Awaited}]
  /\ waited \in 0..Timeout
  /\ first \in 0..Timeout \cup {Reads!Nothing}

\* A provider follows forks in their order, and never goes back on one.
ViewsGrow ==
  \A p \in Providers :
    /\ view[p].fork <= best.fork
    /\ \/ start[p].fork < view[p].fork
       \/ start[p].fork = view[p].fork /\ start[p].height <= view[p].height

\* So it answers from no less of a chain than it had when the read began, and about
\* a block only if it has the block.
RepliesGrow ==
  \A p \in Providers :
    /\ reply[p].fork = start[p].fork => start[p].height <= reply[p].height
    /\ kind = "call_at" /\ p \in Reads!Replied =>
         Reads!HasBlock(reply[p]) /\ reply[p].fork = about

\* A read that is not running has returned what its answers come to.
ResultIsKept ==
  ~Reads!Running =>
    result = IF Reads!Replied = {} THEN Reads!Error ELSE Reads!Aggregate(Reads!Answers)

ReadsInv == ReadsTyped /\ ViewsGrow /\ RepliesGrow /\ ResultIsKept

LEMMA ReadsInit == Reads!Init => ReadsInv
<1> SUFFICES ASSUME Reads!Init PROVE ReadsInv
  OBVIOUS
<1> USE ReadsAssumption
    DEF Reads!Init, Reads!Chains, Reads!Forks, Reads!Failed, Reads!Awaited, Reads!Nothing
<1>1. best.fork = 0 /\ best \in Reads!Chains
  OBVIOUS
<1>2. \A p \in Providers : view[p] \in Reads!Chains /\ view[p].fork = 0
  OBVIOUS
<1>3. \A p \in Providers : reply[p] = Reads!Failed /\ start[p] = view[p]
  OBVIOUS
<1>4. ReadsTyped
  BY <1>1 DEF ReadsTyped, Reads!AllKinds, Reads!Largest
<1>5. ViewsGrow
  BY <1>1, <1>2, <1>3 DEF ViewsGrow
<1>6. Reads!Replied = {}
  BY <1>3 DEF Reads!Replied
<1>7. RepliesGrow
  BY <1>2, <1>3, <1>6 DEF RepliesGrow
<1>8. ResultIsKept
  BY <1>6 DEF ResultIsKept, Reads!Running, Reads!Reading, Reads!Error
<1> QED
  BY <1>4, <1>5, <1>7, <1>8 DEF ReadsInv

LEMMA TypedStep == ReadsTyped /\ [Reads!Next]_readVars => ReadsTyped'
<1> SUFFICES ASSUME ReadsTyped, [Reads!Next]_readVars PROVE ReadsTyped'
  OBVIOUS
<1> USE ReadsAssumption DEF ReadsTyped
<1>1. ASSUME NEW operation \in Kinds, Reads!Read(operation) PROVE ReadsTyped'
  <2>1. operation \in Reads!AllKinds
    BY KindsAssumption
  <2>2. best.fork \in 0..MaxFork
    BY DEF Reads!Chains, Reads!Forks
  <2>3. /\ about' \in Reads!Forks \cup {Reads!Nothing}
        /\ operation \in {"ink", "call_at"} => about' \in Reads!Forks
    BY <1>1, <2>2 DEF Reads!Read, Reads!Forks, Reads!Pinned
  <2> QED
    BY <1>1, <2>1, <2>3 DEF Reads!Read, Reads!chain
<1>2. ASSUME NEW p \in Providers, Reads!Respond(p) PROVE ReadsTyped'
  BY <1>2 DEF Reads!Respond, Reads!chain
<1>3. ASSUME NEW p \in Providers, Reads!Refuse(p) \/ Reads!TimeOut(p) PROVE ReadsTyped'
  BY <1>3 DEF Reads!Refuse, Reads!TimeOut, Reads!chain
<1>4. ASSUME NEW p \in Providers, Reads!Follow(p) PROVE ReadsTyped'
  BY <1>4 DEF Reads!Follow
<1>5. CASE Reads!Tick
  BY <1>5 DEF Reads!Tick, Reads!chain
<1>6. CASE Reads!Return
  BY <1>6 DEF Reads!Return, Reads!chain
<1>7. CASE Reads!NewBlock
  BY <1>7 DEF Reads!NewBlock, Reads!Chains, Reads!Forks
<1>8. CASE Reads!Reorganise
  BY <1>8 DEF Reads!Reorganise, Reads!Chains, Reads!Forks
<1>9. CASE UNCHANGED readVars
  BY <1>9 DEF readVars
<1> QED
  BY <1>1, <1>2, <1>3, <1>4, <1>5, <1>6, <1>7, <1>8, <1>9 DEF Reads!Next

LEMMA ViewsStep == ReadsInv /\ [Reads!Next]_readVars => ViewsGrow'
<1> SUFFICES ASSUME ReadsInv, [Reads!Next]_readVars PROVE ViewsGrow'
  OBVIOUS
<1> USE DEF ViewsGrow
<1>1. /\ best.fork \in Int
      /\ \A p \in Providers : /\ view[p].fork \in Int /\ view[p].height \in Int
                            /\ start[p].fork \in Int /\ start[p].height \in Int
  BY ReadsAssumption DEF ReadsInv, ReadsTyped, Reads!Chains, Reads!Forks
<1>2. ViewsGrow /\ view \in [Providers -> Reads!Chains]
  BY DEF ReadsInv, ReadsTyped
<1>3. ASSUME NEW operation \in Kinds, Reads!Read(operation) PROVE ViewsGrow'
  BY <1>1, <1>2, <1>3 DEF Reads!Read, Reads!chain
<1>4. ASSUME NEW p \in Providers, Reads!Follow(p) PROVE ViewsGrow'
  <2>1. PICK c \in Reads!Chains :
          /\ c.fork = best.fork
          /\ view[p].fork = c.fork => view[p].height < c.height
          /\ view' = [view EXCEPT ![p] = c]
    BY <1>4 DEF Reads!Follow
  <2>2. c.fork \in Int /\ c.height \in Int
    BY ReadsAssumption DEF Reads!Chains, Reads!Forks
  <2>3. UNCHANGED <<best, start>>
    BY <1>4 DEF Reads!Follow
  <2>4. \A q \in Providers \ {p} : view'[q] = view[q]
    BY <1>2, <2>1
  <2>5. view'[p] = c
    BY <1>2, <2>1
  <2> QED
    BY <1>1, <1>2, <2>1, <2>2, <2>3, <2>4, <2>5
<1>5. CASE Reads!Reorganise
  <2>1. best'.fork = best.fork + 1 /\ UNCHANGED <<view, start>>
    BY <1>5 DEF ReadsInv, ReadsTyped, Reads!Reorganise, Reads!Chains
  <2> QED
    BY <1>1, <1>2, <2>1
<1>6. CASE Reads!NewBlock
  <2>1. best'.fork = best.fork /\ UNCHANGED <<view, start>>
    BY <1>6 DEF ReadsInv, ReadsTyped, Reads!NewBlock, Reads!Chains
  <2> QED
    BY <1>2, <2>1
<1>7. CASE \/ \E p \in Providers : Reads!Respond(p) \/ Reads!Refuse(p) \/ Reads!TimeOut(p)
           \/ Reads!Tick \/ Reads!Return \/ UNCHANGED readVars
  <2>1. UNCHANGED <<best, view, start>>
    BY <1>7 DEF Reads!Respond, Reads!Refuse, Reads!TimeOut, Reads!Tick, Reads!Return,
       readVars, Reads!chain
  <2> QED
    BY <1>2, <2>1
<1> QED
  BY <1>3, <1>4, <1>5, <1>6, <1>7 DEF Reads!Next

LEMMA RepliesStep == ReadsInv /\ [Reads!Next]_readVars => RepliesGrow'
<1> SUFFICES ASSUME ReadsInv, [Reads!Next]_readVars PROVE RepliesGrow'
  OBVIOUS
<1>1. ReadsTyped /\ ViewsGrow /\ RepliesGrow
  BY DEF ReadsInv
<1>2. \A p \in Providers : start[p].fork \in Nat
  BY <1>1, ReadsAssumption DEF ReadsTyped, Reads!Chains, Reads!Forks
<1>3. ASSUME NEW operation \in Kinds, Reads!Read(operation) PROVE RepliesGrow'
  <2>1. \A p \in Providers : reply'[p] = Reads!Awaited /\ start'[p].fork \in Nat
    BY <1>1, <1>3, ReadsAssumption DEF ReadsTyped, Reads!Read, Reads!Chains, Reads!Forks
  <2>2. Reads!Awaited.fork \notin Nat
    BY DEF Reads!Awaited, Reads!Nothing
  <2>3. Reads!Replied' = {}
    BY <2>1 DEF Reads!Replied
  <2> QED
    BY <2>1, <2>2, <2>3 DEF RepliesGrow
<1>4. ASSUME NEW p \in Providers, Reads!Respond(p) PROVE RepliesGrow'
  <2>1. /\ reply' = [reply EXCEPT ![p] = view[p]]
        /\ kind = "call_at" => Reads!HasBlock(view[p]) /\ view[p].fork = about
        /\ UNCHANGED <<start, kind, about>>
    BY <1>4 DEF Reads!Respond, Reads!Knows
  <2>2. reply'[p] = view[p] /\ \A q \in Providers \ {p} : reply'[q] = reply[q]
    BY <1>1, <2>1 DEF ReadsTyped
  <2>3. \A q \in Providers \ {p} : q \in Reads!Replied' => q \in Reads!Replied
    BY <2>2 DEF Reads!Replied
  <2>4. view[p].fork = start[p].fork => start[p].height <= view[p].height
    BY <1>1, ReadsAssumption DEF ViewsGrow, ReadsTyped, Reads!Chains, Reads!Forks
  <2> QED
    BY <1>1, <2>1, <2>2, <2>3, <2>4 DEF RepliesGrow, Reads!HasBlock
<1>5. ASSUME NEW p \in Providers, Reads!Refuse(p) \/ Reads!TimeOut(p) PROVE RepliesGrow'
  <2>1. reply' = [reply EXCEPT ![p] = Reads!Failed] /\ UNCHANGED <<start, kind, about>>
    BY <1>5 DEF Reads!Refuse, Reads!TimeOut
  <2>2. reply'[p] = Reads!Failed /\ \A q \in Providers \ {p} : reply'[q] = reply[q]
    BY <1>1, <2>1 DEF ReadsTyped
  <2>3. \A q \in Providers : q \in Reads!Replied' => q # p /\ q \in Reads!Replied
    BY <2>2 DEF Reads!Replied
  <2>4. Reads!Failed.fork \notin Nat
    BY DEF Reads!Failed, Reads!Nothing
  <2> QED
    BY <1>1, <1>2, <2>1, <2>2, <2>3, <2>4 DEF RepliesGrow, Reads!HasBlock
<1>6. CASE \/ \E p \in Providers : Reads!Follow(p)
           \/ Reads!Tick \/ Reads!Return \/ Reads!NewBlock \/ Reads!Reorganise
           \/ UNCHANGED readVars
  <2>1. UNCHANGED <<start, reply, kind, about>>
    BY <1>6 DEF Reads!Follow, Reads!Tick, Reads!Return, Reads!NewBlock, Reads!Reorganise, readVars
  <2>2. Reads!Replied' = Reads!Replied
    BY <2>1 DEF Reads!Replied
  <2> QED
    BY <1>1, <2>1, <2>2 DEF RepliesGrow, Reads!HasBlock
<1> QED
  BY <1>3, <1>4, <1>5, <1>6 DEF Reads!Next

\* What the answers come to depends on the read and the replies alone.
LEMMA AggregateStays ==
  ASSUME UNCHANGED <<kind, about, reply>>
  PROVE  /\ Reads!Replied' = Reads!Replied
         /\ Reads!Aggregate(Reads!Answers)' = Reads!Aggregate(Reads!Answers)
<1>1. Reads!Replied' = Reads!Replied
  BY DEF Reads!Replied
<1>2. \A c : Reads!Answer(c)' = Reads!Answer(c)
  BY DEF Reads!Answer
<1>3. Reads!Answers' = Reads!Answers
  BY <1>1, <1>2 DEF Reads!Answers
<1>4. \A answers : Reads!Aggregate(answers)' = Reads!Aggregate(answers)
  BY DEF Reads!Aggregate, Reads!Code, Reads!BlockReceipt
<1> QED
  BY <1>1, <1>3, <1>4

LEMMA ResultStep == ReadsInv /\ [Reads!Next]_readVars => ResultIsKept'
<1> SUFFICES ASSUME ReadsInv, [Reads!Next]_readVars PROVE ResultIsKept'
  OBVIOUS
<1> USE DEF ResultIsKept, Reads!Running
<1>1. CASE Reads!Return
  BY <1>1, AggregateStays DEF Reads!Return
<1>2. CASE \/ \E p \in Providers : Reads!Follow(p)
           \/ Reads!NewBlock \/ Reads!Reorganise \/ UNCHANGED readVars
  <2>1. UNCHANGED <<kind, about, reply, result>>
    BY <1>2 DEF Reads!Follow, Reads!NewBlock, Reads!Reorganise, readVars
  <2> QED
    BY <2>1, AggregateStays DEF ReadsInv
<1>3. CASE \/ \E operation \in Kinds : Reads!Read(operation)
           \/ \E p \in Providers : Reads!Respond(p) \/ Reads!Refuse(p) \/ Reads!TimeOut(p)
           \/ Reads!Tick
  <2>1. result' = Reads!Reading
    BY <1>3 DEF Reads!Read, Reads!Respond, Reads!Refuse, Reads!TimeOut, Reads!Tick
  <2> QED
    BY <2>1
<1> QED
  BY <1>1, <1>2, <1>3 DEF Reads!Next

LEMMA ReadsInvariance == Reads!Spec => []ReadsInv
<1>1. ReadsInv /\ [Reads!Next]_readVars => ReadsInv'
  BY TypedStep, ViewsStep, RepliesStep, ResultStep DEF ReadsInv
<1>2. Reads!vars = readVars
  BY DEF Reads!vars, readVars
<1> QED
  BY <1>1, <1>2, ReadsInit, PTL DEF Reads!Spec, Reads!vars, readVars

-----------------------------------------------------------------------------
(* What the answers come to.                                                 *)

LEMMA AnswersAreFinite ==
  ASSUME ReadsTyped
  PROVE  IsFiniteSet(Reads!Answers)
<1> DEFINE answered == [p \in Reads!Replied |-> Reads!Answer(reply[p])]
<1>1. IsFiniteSet(Reads!Replied)
  BY ReadsAssumption, FS_Subset DEF Reads!Replied
<1>2. answered \in Surjection(Reads!Replied, Reads!Answers)
  BY DEF Surjection, Reads!Answers
<1> HIDE DEF answered
<1> QED
  BY <1>1, <1>2, FS_Surjection

LEMMA RepliesAreChains ==
  ASSUME ReadsTyped, NEW p \in Reads!Replied
  PROVE  /\ p \in Providers /\ reply[p] \in Reads!Chains
         /\ reply[p].fork \in Nat /\ reply[p].height \in 0..MaxHeight
         /\ start[p].fork \in Nat /\ start[p].height \in 0..MaxHeight
         /\ Reads!Answer(reply[p]) \in Reads!Answers
<1>1. p \in Providers /\ reply[p] \in Reads!Chains
  BY DEF ReadsTyped, Reads!Replied
<1>2. start[p] \in Reads!Chains /\ Reads!Answer(reply[p]) \in Reads!Answers
  BY <1>1 DEF ReadsTyped, Reads!Answers
<1> QED
  BY <1>1, <1>2, ReadsAssumption DEF Reads!Chains, Reads!Forks

LEMMA AgreedIsOne ==
  ASSUME NEW answers, IsFiniteSet(answers)
  PROVE  \/ Reads!Agreed(answers) = Reads!Error
         \/ \E a : answers = {a} /\ Reads!Agreed(answers) = Reads!Value(a)
<1>1. CASE Cardinality(answers) = 1
  <2>1. PICK a : answers = {a}
    BY <1>1, FS_Singleton
  <2> QED
    BY <1>1, <2>1, SameCardinality DEF Reads!Agreed
<1>2. CASE Cardinality(answers) # 1
  BY <1>2, SameCardinality DEF Reads!Agreed
<1> QED
  BY <1>1, <1>2

LEMMA OneIsAgreed ==
  ASSUME NEW a
  PROVE  Reads!Agreed({a}) = Reads!Value(a)
<1>1. Reads!Cardinality({a}) = 1
  BY FS_Singleton, SameCardinality
<1> QED
  BY <1>1 DEF Reads!Agreed

LEMMA ValueIsAggregate ==
  ASSUME ReadsInv, result.outcome = "value"
  PROVE  Reads!Replied # {} /\ result = Reads!Aggregate(Reads!Answers)
<1>1. result # Reads!Reading /\ result # Reads!Error
  BY DEF Reads!Reading, Reads!Error
<1> QED
  BY <1>1 DEF ReadsInv, ResultIsKept, Reads!Running

LEMMA ReceiptsAgree == ReadsInv => ReceiptIsAgreed
<1> SUFFICES ASSUME ReadsInv, Reads!Returned("receipt")
             PROVE  IF result.value = Reads!Nothing
                    THEN \A p \in Providers : ~Reads!KnewAll(p, 1)
                    ELSE \A p \in Reads!Replied :
                           Reads!HasBlock(reply[p]) => reply[p].fork = result.value
  BY DEF ReceiptIsAgreed, Reads!ReceiptIsAgreed
<1> DEFINE answers == Reads!Answers
<1>1. ReadsTyped /\ RepliesGrow /\ kind = "receipt" /\ result.outcome = "value"
  BY DEF ReadsInv, Reads!Returned
<1>2. result = Reads!Receipt(answers)
  BY <1>1, ValueIsAggregate DEF Reads!Aggregate, Reads!Largest
<1>3. \A c : Reads!Answer(c) = IF Reads!HasBlock(c) THEN c.fork ELSE Reads!Nothing
  BY <1>1 DEF Reads!Answer, Reads!Largest
<1> HIDE DEF answers
<1>4. CASE answers = {Reads!Nothing}
  <2>1. \A p \in Reads!Replied : ~Reads!HasBlock(reply[p])
    <3> SUFFICES ASSUME NEW p \in Reads!Replied, Reads!HasBlock(reply[p]) PROVE FALSE
      OBVIOUS
    <3>1. reply[p].fork \in Nat /\ reply[p].fork = Reads!Nothing
      BY <1>1, <1>3, <1>4, RepliesAreChains DEF answers
    <3> QED
      BY <3>1 DEF Reads!Nothing
  <2>2. \A p \in Providers : ~Reads!KnewAll(p, 1)
    <3> SUFFICES ASSUME NEW p \in Providers, Reads!KnewAll(p, 1) PROVE FALSE
      OBVIOUS
    <3>1. p \in Reads!Replied /\ start[p].fork = reply[p].fork /\ start[p].height >= 1
      BY DEF Reads!KnewAll
    <3>2. start[p].height <= reply[p].height /\ reply[p].height \in Nat /\ start[p].height \in Nat
      BY <1>1, <3>1, ReadsAssumption, RepliesAreChains DEF RepliesGrow
    <3> QED
      BY <2>1, <3>1, <3>2 DEF Reads!HasBlock
  <2>3. result.value = Reads!Nothing
    BY <1>2, <1>4 DEF Reads!Receipt, Reads!Value
  <2> QED
    BY <2>2, <2>3
<1>5. CASE answers # {Reads!Nothing}
  <2>1. IsFiniteSet(answers \ {Reads!Nothing})
    BY <1>1, AnswersAreFinite, FS_RemoveElement DEF answers
  <2>2. result = Reads!Agreed(answers \ {Reads!Nothing}) /\ result # Reads!Error
    BY <1>1, <1>2, <1>5 DEF Reads!Receipt, Reads!Error
  <2>3. PICK a : answers \ {Reads!Nothing} = {a} /\ result = Reads!Value(a)
    BY <2>1, <2>2, AgreedIsOne
  <2>4. result.value = a /\ a # Reads!Nothing
    BY <2>3 DEF Reads!Value
  <2>5. ASSUME NEW p \in Reads!Replied, Reads!HasBlock(reply[p])
        PROVE  reply[p].fork = a
    <3>1. reply[p].fork \in answers /\ reply[p].fork \in Nat
      BY <1>1, <1>3, <2>5, RepliesAreChains DEF answers
    <3>2. reply[p].fork # Reads!Nothing
      BY <3>1 DEF Reads!Nothing
    <3> QED
      BY <2>3, <3>1, <3>2
  <2> QED
    BY <2>4, <2>5
<1> QED
  BY <1>4, <1>5

\* ReceiptIsAgreed: for all providers, however far they lag behind and whatever
\* reorganisations they follow.
THEOREM ReceiptsAreAgreed == Reads!Spec => []ReceiptIsAgreed
  BY ReceiptsAgree, ReadsInvariance, PTL

LEMMA ReadsAreSafe == ReadsInv => ReadsAreOnTheSafeSide
<1> SUFFICES ASSUME ReadsInv, NEW p \in Providers, NEW h \in 1..MaxHeight, Reads!KnewAll(p, h)
             PROVE  /\ Reads!Returned("nonce") =>
                         /\ result.value >= h
                         /\ \E q \in Reads!Replied : result.value = reply[q].height
                    /\ Reads!Returned("balance") => result.value <= MaxHeight - h
                    /\ Reads!Returned("logs") => <<start[p].fork, h>> \in result.value
  BY DEF ReadsAreOnTheSafeSide, Reads!ReadsAreOnTheSafeSide
<1> DEFINE answers == Reads!Answers
<1>1. ReadsTyped /\ RepliesGrow /\ h \in Nat /\ MaxHeight \in Nat
  BY ReadsAssumption DEF ReadsInv
<1>2. p \in Reads!Replied /\ start[p].fork = reply[p].fork /\ start[p].height >= h
  BY DEF Reads!KnewAll
<1>3. /\ h <= reply[p].height /\ reply[p].height \in 0..MaxHeight
      /\ Reads!Answer(reply[p]) \in answers
  BY <1>1, <1>2, RepliesAreChains DEF RepliesGrow
<1>4. answers = {Reads!Answer(reply[q]) : q \in Reads!Replied}
  BY DEF Reads!Answers
<1> HIDE DEF answers
<1>5. ASSUME Reads!Returned("nonce")
      PROVE  /\ result.value >= h
             /\ \E q \in Reads!Replied : result.value = reply[q].height
  <2>1. kind = "nonce" /\ result = Reads!Value(Reads!Max(answers))
    BY <1>5, ValueIsAggregate DEF Reads!Returned, Reads!Aggregate, Reads!Largest, answers
  <2>2. \A c : Reads!Answer(c) = c.height
    BY <2>1 DEF Reads!Answer, Reads!Largest
  <2>3. answers \in SUBSET (0..MaxHeight) /\ answers # {}
    BY <1>1, <1>2, <1>4, <2>2, RepliesAreChains
  <2>4. Reads!Max(answers) \in answers /\ \A y \in answers : Reads!Max(answers) >= y
    BY <1>1, <2>3, MaxIsLargest
  <2>5. result.value = Reads!Max(answers)
    BY <2>1 DEF Reads!Value
  <2>6. result.value \in answers /\ \A y \in answers : result.value >= y
    BY <2>4, <2>5
  <2>7. result.value \in Nat
    <3>1. result.value \in 0..MaxHeight
      BY <2>3, <2>6
    <3> QED
      BY <3>1
  <2>8. result.value >= reply[p].height
    BY <1>3, <2>2, <2>6
  <2>9. result.value >= h
    BY <1>1, <1>3, <2>7, <2>8
  <2>10. \E q \in Reads!Replied : result.value = reply[q].height
    BY <1>4, <2>2, <2>6
  <2> QED
    BY <2>9, <2>10
<1>6. ASSUME Reads!Returned("balance")
      PROVE  result.value <= MaxHeight - h
  <2>1. kind = "balance" /\ result = Reads!Value(Reads!Min(answers))
    BY <1>6, ValueIsAggregate DEF Reads!Returned, Reads!Aggregate, Reads!Largest, answers
  <2>2. \A c : Reads!Answer(c) = MaxHeight - c.height
    BY <2>1 DEF Reads!Answer, Reads!Largest
  <2>3. answers \in SUBSET Nat /\ answers # {}
    <3>1. \A q \in Reads!Replied : MaxHeight - reply[q].height \in Nat
      BY <1>1, RepliesAreChains
    <3> QED
      BY <1>2, <1>4, <2>2, <3>1
  <2>4. Reads!Min(answers) \in Nat /\ Reads!Min(answers) <= MaxHeight - reply[p].height
    BY <1>3, <2>2, <2>3, MinIsLeast
  <2>5. result.value = Reads!Min(answers)
    BY <2>1 DEF Reads!Value
  <2> QED
    BY <1>1, <1>3, <2>4, <2>5
<1>7. ASSUME Reads!Returned("logs")
      PROVE  <<start[p].fork, h>> \in result.value
  <2>1. kind = "logs" /\ result = Reads!Value(UNION answers)
    BY <1>7, ValueIsAggregate DEF Reads!Returned, Reads!Aggregate, Reads!Largest, answers
  <2>2. Reads!Answer(reply[p]) = Reads!Logs(reply[p])
    BY <2>1 DEF Reads!Answer, Reads!Largest
  <2>3. <<reply[p].fork, h>> \in Reads!Logs(reply[p])
    BY <1>1, <1>3 DEF Reads!Logs
  <2>4. result.value = UNION answers
    BY <2>1 DEF Reads!Value
  <2> QED
    BY <1>2, <1>3, <2>2, <2>3, <2>4
<1> QED
  BY <1>5, <1>6, <1>7

\* ReadsAreOnTheSafeSide: the nonce counts, the balance has paid for and the logs
\* show whatever any provider in the answer had when the read began.
THEOREM ReadsCountEverything == Reads!Spec => []ReadsAreOnTheSafeSide
  BY ReadsAreSafe, ReadsInvariance, PTL

\* Answers that agree are all the value that is returned.
LEMMA AllAgree ==
  ASSUME ReadsTyped, result = Reads!Agreed(Reads!Answers), result.outcome = "value"
  PROVE  \A p \in Reads!Replied : Reads!Answer(reply[p]) = result.value
<1>1. PICK a : Reads!Answers = {a} /\ result = Reads!Value(a)
  <2>1. result # Reads!Error
    BY DEF Reads!Error
  <2> QED
    BY <2>1, AnswersAreFinite, AgreedIsOne
<1>2. result.value = a
  BY <1>1 DEF Reads!Value
<1> QED
  BY <1>1, <1>2 DEF Reads!Answers

LEMMA PinnedAgree ==
  ASSUME ReadsInv, kind \in Reads!Pinned, result.outcome = "value"
  PROVE  /\ about \in {result.value, Reads!Nothing}
         /\ \A p \in Reads!Replied : Reads!HasBlock(reply[p]) /\ reply[p].fork = result.value
<1> DEFINE answers == Reads!Answers
<1>1. ReadsTyped /\ RepliesGrow
  BY DEF ReadsInv
<1>2. Reads!Replied # {} /\ result = Reads!Aggregate(answers)
  BY ValueIsAggregate
<1>3. \A c : Reads!Answer(c) = IF Reads!HasBlock(c) THEN c.fork ELSE Reads!Nothing
  BY DEF Reads!Answer, Reads!Pinned, Reads!Largest
<1>4. \A p \in Reads!Replied : Reads!Answer(reply[p]) \in answers
  BY DEF Reads!Answers
<1> HIDE DEF answers
<1>5. CASE kind = "call_at"
  <2>1. \A p \in Reads!Replied : Reads!HasBlock(reply[p]) /\ reply[p].fork = about
    BY <1>1, <1>5 DEF RepliesGrow, Reads!Replied
  <2>2. result = Reads!Agreed(answers)
    BY <1>2, <1>5 DEF Reads!Aggregate, Reads!Largest
  <2>3. \A p \in Reads!Replied : Reads!Answer(reply[p]) = result.value
    BY <1>1, <2>2, AllAgree DEF answers
  <2> QED
    BY <1>2, <1>3, <2>1, <2>3
<1>6. CASE kind = "code"
  <2>1. result = Reads!Code(answers)
    BY <1>2, <1>6 DEF Reads!Aggregate, Reads!Largest
  <2>2. /\ result = Reads!Agreed(answers)
        /\ Reads!Nothing \notin answers /\ about \in answers \cup {Reads!Nothing}
    BY <2>1 DEF Reads!Code, Reads!Error
  <2>3. \A p \in Reads!Replied : Reads!Answer(reply[p]) = result.value
    BY <1>1, <2>2, AllAgree DEF answers
  <2>4. \A a \in answers : a = result.value
    BY <2>3 DEF answers, Reads!Answers
  <2> QED
    BY <1>3, <1>4, <2>2, <2>3, <2>4
<1>7. CASE kind = "ink"
  <2>1. result = Reads!BlockReceipt(answers)
    BY <1>2, <1>7 DEF Reads!Aggregate, Reads!Largest
  <2>2. answers = {about} /\ result.value = about
    BY <2>1 DEF Reads!BlockReceipt, Reads!Error, Reads!Value
  <2>3. about # Reads!Nothing
    BY <1>1, <1>7, ReadsAssumption DEF ReadsTyped, Reads!Forks, Reads!Nothing
  <2> QED
    BY <1>3, <1>4, <2>2, <2>3
<1> QED
  BY <1>5, <1>6, <1>7 DEF Reads!Pinned

LEMMA CallsAgree ==
  ASSUME ReadsInv, Reads!Returned("call")
  PROVE  \A p \in Reads!Replied : Reads!HasBlock(reply[p]) <=> result.value = 1
<1>1. ReadsTyped /\ kind = "call" /\ result.outcome = "value"
  BY DEF ReadsInv, Reads!Returned
<1>2. result = Reads!Agreed(Reads!Answers)
  BY <1>1, ValueIsAggregate DEF Reads!Aggregate, Reads!Largest
<1>3. \A c : Reads!Answer(c) = IF Reads!HasBlock(c) THEN 1 ELSE 0
  BY <1>1 DEF Reads!Answer, Reads!Largest
<1> QED
  BY <1>1, <1>2, <1>3, AllAgree

\* A call in a block is refused only if no provider knows the block.
LEMMA KnownBlockIsRead ==
  ASSUME ReadsInv, kind = "call_at", result = Reads!Error
  PROVE  Reads!Replied = {}
<1> SUFFICES ASSUME Reads!Replied # {} PROVE FALSE
  OBVIOUS
<1>1. result = Reads!Agreed(Reads!Answers)
  BY DEF ReadsInv, ResultIsKept, Reads!Running, Reads!Reading, Reads!Error, Reads!Aggregate,
     Reads!Largest
<1>2. \A p \in Reads!Replied : Reads!Answer(reply[p]) = about
  BY DEF ReadsInv, RepliesGrow, Reads!Replied, Reads!Answer, Reads!Largest
<1>3. Reads!Answers = {about}
  BY <1>2 DEF Reads!Answers
<1>4. Reads!Error = Reads!Value(about)
  BY <1>1, <1>3, OneIsAgreed
<1>5. Reads!Error.outcome # Reads!Value(about).outcome
  BY DEF Reads!Value, Reads!Error
<1> QED
  BY <1>4, <1>5

\* AnswersAreUnanimous: for all providers, what is paid or signed on is what each of
\* them says.
THEOREM ReadsAreUnanimous == Reads!Spec => []AnswersAreUnanimous
<1>1. ReadsInv => AnswersAreUnanimous
  BY PinnedAgree, CallsAgree, KnownBlockIsRead DEF AnswersAreUnanimous, Reads!AnswersAreUnanimous
<1> QED
  BY <1>1, ReadsInvariance, PTL

\* The reads of the client that the run checks are reads of RpcReads, so that all of
\* this holds of them.
THEOREM ClientReads == SpecMC => Reads!Spec
<1>1. InitMC => Reads!Init
  BY DEF InitMC
<1>2. [NextMC]_<<vars, client, readVars>> => [Reads!Next]_readVars
  BY DEF NextMC
<1> QED
  BY <1>1, <1>2, PTL DEF SpecMC, Reads!Spec, Reads!vars, readVars
=============================================================================
