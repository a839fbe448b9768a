------------------------- MODULE ApprovalGateProofs -------------------------
(***************************************************************************)
(* What the approval gate promises, for every set of calls and grants,     *)
(* every scope and cap, and every gate below.                              *)
(***************************************************************************)
EXTENDS ApprovalGate, FiniteSetTheorems, TLAPS

USE CallsAssumption, GrantsAssumption, InnersAssumption, TimeAssumption

-----------------------------------------------------------------------------
(* Facts the steps share.                                                  *)

\* A step that leaves the grants and the readings of the clock alone, and
\* takes no call back from its verdict, keeps what is known of the grants.
LEMMA GrantFrame ==
    ASSUME \A g \in Grant : GrantInv(g), UNCHANGED <<expires, used, through, clock>>,
           \A c \in Call : pc[c] = "done" => pc'[c] = "done",
           through \in [Grant -> SUBSET Call]
    PROVE  \A g \in Grant : GrantInv(g)'
BY DEF GrantInv

\* A step that gives no new verdict to run, and takes no answer and no grant
\* back from a call that has one, keeps the consent.
LEMMA ConsentFrame ==
    ASSUME AllowIsConsented, inner' = inner,
           \A d \in Call : pc'[d] = "done" /\ result'[d] = "allow" =>
               \/ Consented(d)'
               \/ /\ pc[d] = "done" /\ result[d] = "allow" /\ by'[d] = by[d]
                  /\ answer'[d] = answer[d] /\ resp'[d] = resp[d]
    PROVE  AllowIsConsented'
<1>1. ASSUME NEW d \in Call, pc'[d] = "done", result'[d] = "allow"
      PROVE  Consented(d)'
  <2>1. CASE Consented(d)'
    BY <2>1
  <2>2. CASE /\ pc[d] = "done" /\ result[d] = "allow" /\ by'[d] = by[d]
             /\ answer'[d] = answer[d] /\ resp'[d] = resp[d]
    <3>1. Consented(d)
      BY <2>2 DEF AllowIsConsented
    <3> QED BY <2>2, <3>1, Zenon DEF Consented
  <2> QED BY <1>1, <2>1, <2>2
<1> QED BY <1>1 DEF AllowIsConsented

\* The state starts in the invariant.
LEMMA InitInv == Init => GateInv
<1> SUFFICES ASSUME Init PROVE GateInv
    OBVIOUS
<1>1. TypeOK
  BY DEF Init, TypeOK, Results
<1>2. AllowIsConsented /\ \A c \in Call : CallInv(c)
  BY DEF Init, AllowIsConsented, CallInv
<1>3. ASSUME NEW g \in Grant PROVE GrantInv(g)
  <2>1. through[g] \cap Exec = {}
    BY DEF Init
  <2> QED BY <2>1, FS_EmptySet DEF Init, GrantInv
<1> QED BY <1>1, <1>2, <1>3 DEF GateInv

\* Establishing a grant starts its count over.
LEMMA EstablishStep ==
    ASSUME GateInv, NEW g \in Grant, EstablishGrant(g)
    PROVE  GateInv'
<1> USE DEF GateInv, EstablishGrant, callVars, requestVars, replyVars
<1>1. TypeOK'
  BY DEF TypeOK
<1>2. AllowIsConsented' /\ \A c \in Call : CallInv(c)'
  BY ConsentFrame DEF CallInv
<1>3. ASSUME NEW h \in Grant PROVE GrantInv(h)'
  <2>1. CASE h = g
    <3>1. through'[h] = {} /\ used'[h] = 0
      BY <2>1 DEF TypeOK
    <3>2. through'[h] \cap Exec = {}
      BY <3>1
    <3>3. Cardinality(through'[h] \cap Exec) = 0
      BY <3>2, FS_EmptySet
    <3> QED BY <3>1, <3>3 DEF GrantInv
  <2>2. CASE h # g
    BY <2>2 DEF GrantInv, TypeOK
  <2> QED BY <2>1, <2>2
<1> QED BY <1>1, <1>2, <1>3

\* Revocation, pruning and the clock change nothing that was decided.
LEMMA BookStep ==
    ASSUME GateInv, (\E g \in Grant : Revoke(g)) \/ ActiveGrants \/ Tick
    PROVE  GateInv'
<1> USE DEF GateInv, Revoke, ActiveGrants, Tick, Live, grantVars, callVars, requestVars, replyVars
<1>1. TypeOK'
  BY DEF TypeOK
<1>2. AllowIsConsented' /\ \A c \in Call : CallInv(c)'
  BY ConsentFrame DEF CallInv
<1>3. \A g \in Grant : GrantInv(g)'
  BY GrantFrame DEF TypeOK
<1> QED BY <1>1, <1>2, <1>3

\* A call that enters the gate.
LEMMA AuthorizeStep ==
    ASSUME GateInv, NEW c \in Call, Authorize(c)
    PROVE  GateInv'
<1> USE DEF GateInv, Authorize, Goto, grantVars, requestVars, replyVars
<1>1. TypeOK'
  BY DEF TypeOK
<1>2. AllowIsConsented' /\ \A d \in Call : CallInv(d)'
  BY ConsentFrame DEF CallInv, TypeOK
<1>3. ASSUME NEW g \in Grant PROVE GrantInv(g)'
  BY DEF GrantInv, TypeOK
<1> QED BY <1>1, <1>2, <1>3

\* The cap was tested in the step that counts the run.
LEMMA MatchStep ==
    ASSUME GateInv, NEW c \in Call, Match(c)
    PROVE  GateInv'
<1> USE DEF GateInv
<1>0. /\ pc[c] = "match" /\ book' \subseteq book
      /\ UNCHANGED <<inner, now, expires, clock, decisions, pending, chan, resp, answer>>
  BY DEF Match, Live, requestVars, replyVars
<1>1. ASSUME c \in Passive, Return(c, "allow"), UNCHANGED <<used, exhausted, by, through>>
      PROVE  GateInv'
  <2> USE <1>0, <1>1 DEF Return
  <2>1. TypeOK'
    BY DEF TypeOK, Results
  <2>2. AllowIsConsented'
    <3>1. Consented(c)'
      BY DEF Consented
    <3> QED BY <3>1, ConsentFrame DEF TypeOK
  <2>3. ASSUME NEW d \in Call PROVE CallInv(d)'
    BY DEF CallInv, TypeOK
  <2>4. \A g \in Grant : GrantInv(g)'
    BY GrantFrame DEF TypeOK
  <2> QED BY <2>1, <2>2, <2>3, <2>4
<1>2. ASSUME NEW g \in Matching(c),
             HasRuns(g), UseGrant(c, g), Return(c, "allow"),
             by' = [by EXCEPT ![c] = {g}],
             through' = [through EXCEPT ![g] = @ \cup {c}], UNCHANGED exhausted
      PROVE  GateInv'
  <2> USE <1>0, <1>2 DEF Return
  <2>0. g \in Grant /\ <<g, c>> \in Covers /\ clock[c] < expires[g]
    BY DEF Matching, Live, TypeOK
  <2>1. TypeOK'
    BY <2>0 DEF TypeOK, Results, UseGrant
  <2>2. AllowIsConsented'
    <3>1. by'[c] = {g}
      BY DEF TypeOK
    <3>2. Consented(c)'
      BY <3>1, <2>0 DEF Consented
    <3> QED BY <3>2, ConsentFrame DEF TypeOK
  <2>3. ASSUME NEW d \in Call PROVE CallInv(d)'
    BY DEF CallInv, TypeOK
  <2>4. ASSUME NEW h \in Grant PROVE GrantInv(h)'
    <3>0. GrantInv(h) /\ GrantInv(g)
      BY <2>0
    <3>1. CASE h # g
      <4>1. through'[h] = through[h] /\ used'[h] = used[h]
        BY <3>1, <2>0 DEF TypeOK, UseGrant
      <4>2. \A d \in through[h] : d \in Call /\ d # c
        BY <3>0 DEF GrantInv, TypeOK
      <4> QED BY <4>1, <4>2, <3>0 DEF GrantInv, TypeOK
    <3>2. CASE h = g
      <4>0. c \notin through[g]
        BY <3>0 DEF GrantInv
      <4>1. /\ used[g] = Cardinality(through[g] \cap Exec)
            /\ used[g] + 1 <= MaxRuns[g] /\ used[g] \in Nat /\ MaxRuns[g] \in Nat
        BY <3>0, <2>0 DEF GrantInv, HasRuns, TypeOK
      <4>2. IsFiniteSet(through[g] \cap Exec)
        <5>1. through[g] \cap Exec \subseteq Call
          BY <2>0 DEF TypeOK
        <5> QED BY <5>1, FS_Subset
      <4>3. used'[g] = Cardinality(through'[g] \cap Exec) /\ used'[g] <= MaxRuns[g]
        <5>1. CASE c \in Exec
          <6>1. through'[g] \cap Exec = (through[g] \cap Exec) \cup {c}
            BY <5>1, <2>0 DEF TypeOK
          <6>2. Cardinality((through[g] \cap Exec) \cup {c}) = used[g] + 1
            BY <4>0, <4>1, <4>2, FS_AddElement
          <6>3. used'[g] = used[g] + 1
            BY <5>1, <2>0 DEF TypeOK, UseGrant
          <6> QED BY <6>1, <6>2, <6>3, <4>1
        <5>2. CASE c \notin Exec
          <6>1. through'[g] \cap Exec = through[g] \cap Exec
            BY <5>2, <2>0 DEF TypeOK
          <6>2. used'[g] = used[g]
            BY <5>2, <4>1, <2>0 DEF TypeOK, UseGrant
          <6>3. used[g] <= MaxRuns[g]
            BY <4>1
          <6> QED BY <6>1, <6>2, <6>3, <4>1
        <5> QED BY <5>1, <5>2
      <4>4. ASSUME NEW d \in through'[g]
            PROVE  pc'[d] = "done" /\ <<g, d>> \in Covers /\ clock'[d] < expires'[g]
        <5>1. d = c \/ d \in through[g]
          BY <2>0 DEF TypeOK
        <5>2. CASE d = c
          BY <5>2, <2>0 DEF TypeOK
        <5>3. CASE d \in through[g]
          BY <5>3, <3>0, <2>0 DEF GrantInv, TypeOK
        <5> QED BY <5>1, <5>2, <5>3
      <4> QED BY <3>2, <4>3, <4>4 DEF GrantInv
    <3> QED BY <3>1, <3>2
  <2> QED BY <2>1, <2>2, <2>3, <2>4
<1>3. ASSUME Goto(c, "ask"), UNCHANGED <<used, by, through>>, exhausted' \subseteq exhausted \cup {c}
      PROVE  GateInv'
  <2> USE <1>0, <1>3 DEF Goto
  <2>1. TypeOK'
    BY DEF TypeOK
  <2>2. AllowIsConsented'
    BY ConsentFrame DEF TypeOK
  <2>3. ASSUME NEW d \in Call PROVE CallInv(d)'
    BY DEF CallInv, TypeOK
  <2>4. \A g \in Grant : GrantInv(g)'
    BY GrantFrame DEF TypeOK
  <2> QED BY <2>1, <2>2, <2>3, <2>4
<1> QED BY <1>1, <1>2, <1>3 DEF Match

\* The policy's verdict, and the steps of a request that give none.
LEMMA RequestStep ==
    ASSUME GateInv, NEW c \in Call,
           AskPolicy(c) \/ Ask(c) \/ Push(c) \/ GiveUp(c) \/ DropSender(c) \/ Unlist(c)
    PROVE  GateInv'
<1> USE DEF GateInv, AskPolicy, Ask, Push, GiveUp, DropSender, Unlist, Return, Goto, Denied,
            grantVars, requestVars, replyVars
<1>1. TypeOK'
  BY DEF TypeOK, Results, CallInv
<1>2. AllowIsConsented'
  <2>1. ASSUME NEW d \in Call, pc'[d] = "done", result'[d] = "allow"
        PROVE  Consented(d)' \/ (pc[d] = "done" /\ result[d] = "allow")
    <3>1. CASE d # c
      BY <3>1, <2>1 DEF TypeOK
    <3>2. CASE d = c
      BY <3>2, <2>1 DEF TypeOK, CallInv, Consented
    <3> QED BY <3>1, <3>2
  <2>2. UNCHANGED <<inner, by, answer, resp>>
    OBVIOUS
  <2> QED BY <2>1, <2>2, ConsentFrame
<1>3. ASSUME NEW d \in Call PROVE CallInv(d)'
  BY DEF CallInv, TypeOK
<1>4. \A g \in Grant : GrantInv(g)'
  BY GrantFrame DEF TypeOK
<1> QED BY <1>1, <1>2, <1>3, <1>4

\* What the channel holds is what its one sender sent.
LEMMA AnsweredStep ==
    ASSUME GateInv, NEW c \in Call, Answered(c)
    PROVE  GateInv'
<1> USE DEF GateInv, Answered, Return, Denied, grantVars, replyVars
<1>1. TypeOK'
  BY DEF TypeOK, Results
<1>2. AllowIsConsented'
  <2>1. ASSUME result'[c] = "allow" PROVE Consented(c)'
    <3>1. chan[c] = "allow"
      BY <2>1 DEF TypeOK
    <3>2. answer[c] = "allow" /\ resp[c] = "delivered" /\ inner = "interactive"
      BY <3>1 DEF CallInv
    <3> QED BY <3>2 DEF Consented
  <2>2. \A d \in Call \ {c} : pc'[d] = pc[d] /\ result'[d] = result[d]
    BY DEF TypeOK
  <2> QED BY <2>1, <2>2, ConsentFrame
<1>3. ASSUME NEW d \in Call PROVE CallInv(d)'
  BY DEF CallInv, TypeOK
<1>4. \A g \in Grant : GrantInv(g)'
  BY GrantFrame DEF TypeOK
<1> QED BY <1>1, <1>2, <1>3, <1>4

\* An operator's answer, delivered or dropped, moves no call.
LEMMA RespondStep ==
    ASSUME GateInv, NEW c \in Call,
           \/ \E d \in {"allow", "deny"} : Respond(c, d)
           \/ RespondRemoves(c) \/ RespondSends(c) \/ RespondDropped(c)
    PROVE  GateInv'
<1> USE DEF GateInv, Respond, RespondRemoves, RespondSends, RespondDropped, Receiving,
            grantVars, callVars
<1>1. TypeOK'
  BY DEF TypeOK, CallInv
<1>2. AllowIsConsented'
  <2>1. ASSUME NEW d \in Call, answer'[d] # answer[d] \/ resp'[d] # resp[d]
        PROVE  d = c /\ resp[c] # "delivered"
    BY <2>1 DEF CallInv, TypeOK
  <2>2. UNCHANGED <<inner, by, pc, result>>
    OBVIOUS
  <2>3. ASSUME NEW d \in Call, pc[d] = "done", result[d] = "allow"
        PROVE  Consented(d)'
    <3>1. Consented(d)
      BY <2>3 DEF AllowIsConsented
    <3>2. CASE resp[d] = "delivered"
      <4>1. answer'[d] = answer[d] /\ resp'[d] = resp[d]
        BY <3>2, <2>1
      <4> QED BY <4>1, <3>1, <2>2, Zenon DEF Consented
    <3>3. CASE resp[d] # "delivered"
      BY <3>1, <3>3, <2>2, Zenon DEF Consented
    <3> QED BY <3>2, <3>3
  <2> QED BY <2>2, <2>3, ConsentFrame
<1>3. ASSUME NEW d \in Call PROVE CallInv(d)'
  BY DEF CallInv, TypeOK
<1>4. \A g \in Grant : GrantInv(g)'
  BY GrantFrame DEF TypeOK
<1> QED BY <1>1, <1>2, <1>3, <1>4

-----------------------------------------------------------------------------
\* GateInv is inductive: every action of the calls, the operators and the
\* clock preserves it.
THEOREM GateInvariant == Spec => []GateInv
<1>1. Init => GateInv
  BY InitInv
<1>2. GateInv /\ [Next]_vars => GateInv'
  <2> SUFFICES ASSUME GateInv, [Next]_vars PROVE GateInv'
      OBVIOUS
  <2>1. CASE \E g \in Grant : EstablishGrant(g) \/ Revoke(g)
    BY <2>1, EstablishStep, BookStep
  <2>2. CASE ActiveGrants \/ Tick
    BY <2>2, BookStep
  <2>3. ASSUME NEW c \in Call, Authorize(c) \/ Steps(c)
        PROVE  GateInv'
    BY <2>3, AuthorizeStep, MatchStep, RequestStep, AnsweredStep DEF Steps
  <2>4. ASSUME NEW c \in Call,
               \/ \E d \in {"allow", "deny"} : Respond(c, d)
               \/ RespondRemoves(c) \/ RespondSends(c) \/ RespondDropped(c)
        PROVE  GateInv'
    BY <2>4, RespondStep
  <2>5. CASE UNCHANGED vars
    <3> USE <2>5 DEF GateInv, vars, grantVars, callVars, requestVars, replyVars
    <3>1. TypeOK'
      BY DEF TypeOK
    <3>2. AllowIsConsented' /\ \A c \in Call : CallInv(c)'
      BY ConsentFrame DEF CallInv
    <3>3. \A g \in Grant : GrantInv(g)'
      BY GrantFrame DEF TypeOK
    <3> QED BY <3>1, <3>2, <3>3
  <2> QED BY <2>1, <2>2, <2>3, <2>4, <2>5 DEF Next
<1> QED BY <1>1, <1>2, PTL DEF Spec

\* The gate's state keeps the shape the code gives it, for any number of
\* calls, grants and policies (TaskApprovalGate, ApprovalBroker).
THEOREM GateTypes == Spec => []TypeOK
<1>1. GateInv => TypeOK
  BY DEF GateInv
<1> QED BY <1>1, GateInvariant, PTL

\* No call runs without consent, whatever races its answer
\* (InteractiveApprovalGate and the gate above it).
THEOREM GateConsent == Spec => []AllowIsConsented
<1>1. GateInv => AllowIsConsented
  BY DEF GateInv
<1> QED BY <1>1, GateInvariant, PTL

\* No request stays listed or answerable once its call returned
\* (ApprovalBroker::push against respond, time limit and cancel).
THEOREM GateLeaksNothing == Spec => []NoRequestLeaks
<1>1. GateInv => NoRequestLeaks
  BY DEF GateInv, CallInv, NoRequestLeaks, TypeOK
<1> QED BY <1>1, GateInvariant, PTL

\* A grant lets through no more than its cap, its scope and its time allow
\* (authorize_with_grant_reason).
THEOREM GateEnvelope == Spec => []GrantEnvelope
<1>1. GateInv => GrantEnvelope
  BY DEF GateInv, GrantInv, GrantEnvelope
<1> QED BY <1>1, GateInvariant, PTL
=============================================================================
