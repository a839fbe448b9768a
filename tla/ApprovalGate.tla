---------------------------- MODULE ApprovalGate ----------------------------
(***************************************************************************)
(* Who lets a tool call run: TaskApprovalGate matches the call against     *)
(* standing grants and otherwise asks the gate below it, a fixed policy or *)
(* InteractiveApprovalGate, which posts a request, waits, and gives up on  *)
(* cancellation or after a time limit (approval.rs).  Calls, operators who *)
(* answer, and operators who grant and revoke run concurrently; an action  *)
(* is the code between two awaits.  A mutex is never held over an await,   *)
(* so a critical section is one step.  Establishing and listing grants     *)
(* read the clock before they lock the book; here the two are one step.  A *)
(* grant that expires in between is in the book with nothing left to       *)
(* match, since every match tests the expiry again.                        *)
(***************************************************************************)
EXTENDS Naturals, FiniteSets

CONSTANTS
    Call,       \* the calls that reach the gate, one request each
    Exec,       \* those that start a process and use up a run of a grant
    Passive,    \* those whose derived intent is read-only: polls of a session
    Grant,      \* the ids of standing grants
    Covers,     \* grant_matches: the pairs of a grant and a call in its scope
    MaxRuns,    \* a grant's cap on runs; one that is never reached is no cap
    Inners,     \* the gates below to explore
    MaxTime     \* bound: the last reading of the clock

ASSUME CallsAssumption  == /\ IsFiniteSet(Call)
                           /\ Exec \subseteq Call /\ Passive \subseteq Call \ Exec
ASSUME GrantsAssumption == Covers \subseteq Grant \X Call /\ MaxRuns \in [Grant -> Nat]
ASSUME InnersAssumption == Inners \subseteq {"interactive", "permissive", "denying"}
ASSUME TimeAssumption   == MaxTime \in Nat

VARIABLES
    inner,      \* the gate below the standing grants
    now,        \* the clock
    book,       \* TaskApprovalGate.grants: the ids it holds
    expires,    \* their expires_at_ms
    used,       \* their runs_used
    pc,         \* where each call stands in authorize
    clock,      \* the reading it took before it locked the book
    exhausted,  \* calls that met a matching grant without runs left
    result,     \* what authorize returned
    decisions,  \* InteractiveApprovalGate.decisions: requests with a sender
    pending,    \* ApprovalBroker.pending: the requests operators are shown
    chan,       \* the oneshot channel from operator to call
    resp,       \* the respond call that took a request's sender
    answer,     \* its decision
    by,         \* history: the grant that let a call through, or none
    through     \* history: calls let through since a grant was established

grantVars   == <<book, expires, used, through>>
callVars    == <<pc, clock, exhausted, result, by>>
requestVars == <<decisions, pending, chan>>
replyVars   == <<resp, answer>>
vars == <<inner, now, grantVars, callVars, requestVars, replyVars>>

Init ==
    /\ inner \in Inners /\ now = 0
    /\ book = {} /\ expires = [g \in Grant |-> 0] /\ used = [g \in Grant |-> 0]
    /\ pc = [c \in Call |-> "idle"] /\ clock = [c \in Call |-> 0]
    /\ exhausted = {} /\ result = [c \in Call |-> "none"]
    /\ decisions = {} /\ pending = {} /\ chan = [c \in Call |-> "empty"]
    /\ resp = [c \in Call |-> "none"] /\ answer = [c \in Call |-> "none"]
    /\ by = [c \in Call |-> {}] /\ through = [g \in Grant |-> {}]

-----------------------------------------------------------------------------
(* Standing grants.                                                        *)

\* A grant under an id the book holds replaces that one, runs included
EstablishGrant(g) ==
    /\ \E t \in (now + 1)..MaxTime : expires' = [expires EXCEPT ![g] = t]
    /\ book' = book \cup {g}
    /\ used' = [used EXCEPT ![g] = 0] /\ through' = [through EXCEPT ![g] = {}]
    /\ UNCHANGED <<inner, now, callVars, requestVars, replyVars>>

Revoke(g) ==
    /\ g \in book /\ book' = book \ {g}
    /\ UNCHANGED <<inner, now, expires, used, through, callVars, requestVars,
                   replyVars>>

Live(t) == {g \in book : expires[g] > t}

\* Listing the grants prunes the book
ActiveGrants ==
    /\ book' = Live(now)
    /\ UNCHANGED <<inner, now, expires, used, through, callVars, requestVars,
                   replyVars>>

Tick ==
    /\ now < MaxTime /\ now' = now + 1
    /\ UNCHANGED <<inner, grantVars, callVars, requestVars, replyVars>>

-----------------------------------------------------------------------------
(* TaskApprovalGate::authorize_with_grant_reason.                          *)

Return(c, r) ==
    /\ pc' = [pc EXCEPT ![c] = "done"] /\ result' = [result EXCEPT ![c] = r]

Goto(c, l) == pc' = [pc EXCEPT ![c] = l] /\ UNCHANGED result

\* The clock is read before the book is locked
Authorize(c) ==
    /\ pc[c] = "idle"
    /\ Goto(c, "match") /\ clock' = [clock EXCEPT ![c] = now]
    /\ UNCHANGED <<inner, now, grantVars, exhausted, by, requestVars, replyVars>>

Matching(c)  == {g \in Live(clock[c]) : <<g, c>> \in Covers}
HasRuns(g)   == used[g] < MaxRuns[g]

\* Mutant: the run is not counted.
UseGrant_NoRun(c, g) == UNCHANGED used

\* The cap is tested and the run counted in one critical section
UseGrant(c, g) == used' = [used EXCEPT ![g] = @ + (IF c \in Exec THEN 1 ELSE 0)]

Match(c) ==
    /\ pc[c] = "match"
    /\ book' = Live(clock[c])
    /\ \/ c \in Passive /\ Return(c, "allow") /\ UNCHANGED <<used, exhausted, by, through>>
       \/ /\ c \notin Passive
          /\ \E g \in Matching(c) :
                /\ HasRuns(g) /\ UseGrant(c, g)
                /\ Return(c, "allow")
                /\ by' = [by EXCEPT ![c] = {g}]
                /\ through' = [through EXCEPT ![g] = @ \cup {c}]
          /\ UNCHANGED exhausted
       \/ /\ c \notin Passive /\ \A g \in Matching(c) : ~HasRuns(g)
          /\ Goto(c, "ask")
          /\ exhausted' = IF Matching(c) = {} THEN exhausted ELSE exhausted \cup {c}
          /\ UNCHANGED <<used, by, through>>
    /\ UNCHANGED <<inner, now, expires, clock, requestVars, replyVars>>

\* An exhausted grant is the reason given for a denial, never for an error
Denied(c) == IF c \in exhausted THEN "exhausted" ELSE "deny"

\* PolicyApprovalGate
AskPolicy(c) ==
    /\ pc[c] = "ask" /\ inner # "interactive"
    /\ Return(c, IF inner = "permissive" THEN "allow" ELSE Denied(c))
    /\ UNCHANGED <<inner, now, grantVars, clock, exhausted, by, requestVars,
                   replyVars>>

-----------------------------------------------------------------------------
(* InteractiveApprovalGate::authorize.                                     *)

\* The sender is stored and subscribers are told before the request is listed
Ask(c) ==
    /\ pc[c] = "ask" /\ inner = "interactive"
    /\ decisions' = decisions \cup {c} /\ Goto(c, "push")
    /\ UNCHANGED <<inner, now, grantVars, clock, exhausted, by, pending, chan,
                   replyVars>>

Push(c) ==
    /\ pc[c] = "push" /\ pending' = pending \cup {c} /\ Goto(c, "wait")
    /\ UNCHANGED <<inner, now, grantVars, clock, exhausted, by, decisions, chan,
                   replyVars>>

\* Mutant: the operator is trusted to have removed the entry.
Answered_NoRemove(c) ==
    /\ pc[c] = "wait" /\ chan[c] # "empty"
    /\ Return(c, IF chan[c] = "deny" THEN Denied(c) ELSE chan[c])
    /\ UNCHANGED <<inner, now, grantVars, clock, exhausted, by, requestVars,
                   replyVars>>

\* Mutant: a dropped sender counts as consent.
Answered_DroppedAllows(c) ==
    /\ pc[c] = "wait" /\ chan[c] # "empty"
    /\ Return(c, IF chan[c] = "deny" THEN Denied(c) ELSE "allow")
    /\ pending' = pending \ {c}
    /\ UNCHANGED <<inner, now, grantVars, clock, exhausted, by, decisions, chan,
                   replyVars>>

\* The channel has the decision, or lost its sender: an error, which denies
Answered(c) ==
    /\ pc[c] = "wait" /\ chan[c] # "empty"
    /\ Return(c, IF chan[c] = "deny" THEN Denied(c) ELSE chan[c])
    /\ pending' = pending \ {c}
    /\ UNCHANGED <<inner, now, grantVars, clock, exhausted, by, decisions, chan,
                   replyVars>>

\* Mutant: the call leaves without a verdict.
GiveUp_NoVerdict(c) ==
    /\ pc[c] = "wait" /\ Goto(c, "leave")
    /\ UNCHANGED <<inner, now, grantVars, clock, exhausted, by, requestVars, replyVars>>

\* Mutant: the wait has no limit.
GiveUp_Never(c) ==
    /\ FALSE
    /\ UNCHANGED vars

\* The call's token fired or the answer timer ran out.  select takes any
\* branch that is ready; the receiver is gone from here on
GiveUp(c) ==
    /\ pc[c] = "wait"
    /\ pc' = [pc EXCEPT ![c] = "leave"] /\ result' = [result EXCEPT ![c] = "gaveUp"]
    /\ UNCHANGED <<inner, now, grantVars, clock, exhausted, by, requestVars, replyVars>>

DropSender(c) ==
    /\ pc[c] = "leave" /\ decisions' = decisions \ {c} /\ Goto(c, "unlist")
    /\ UNCHANGED <<inner, now, grantVars, clock, exhausted, by, pending, chan,
                   replyVars>>

Unlist(c) ==
    /\ pc[c] = "unlist" /\ pending' = pending \ {c} /\ Goto(c, "done")
    /\ UNCHANGED <<inner, now, grantVars, clock, exhausted, by, decisions, chan,
                   replyVars>>

-----------------------------------------------------------------------------
(* InteractiveApprovalGate::respond.  An answer to a request without a     *)
(* sender changes nothing and is told so.                                  *)

Respond(c, d) ==
    /\ c \in decisions /\ decisions' = decisions \ {c}
    /\ resp' = [resp EXCEPT ![c] = "taken"] /\ answer' = [answer EXCEPT ![c] = d]
    /\ UNCHANGED <<inner, now, grantVars, callVars, pending, chan>>

RespondRemoves(c) ==
    /\ resp[c] = "taken" /\ resp' = [resp EXCEPT ![c] = "removed"]
    /\ pending' = pending \ {c}
    /\ UNCHANGED <<inner, now, grantVars, callVars, decisions, chan, answer>>

Receiving(c) == pc[c] \in {"push", "wait"}

\* A send that finds no receiver is ignored
RespondSends(c) ==
    /\ resp[c] = "removed" /\ resp' = [resp EXCEPT ![c] = "delivered"]
    /\ chan' = [chan EXCEPT ![c] = IF Receiving(c) THEN answer[c] ELSE @]
    /\ UNCHANGED <<inner, now, grantVars, callVars, decisions, pending, answer>>

\* WorkControlRouter::bounded drops a respond that overran its deadline, and the
\* sender with it
RespondDropped(c) ==
    /\ resp[c] = "taken" /\ resp' = [resp EXCEPT ![c] = "error"]
    /\ chan' = [chan EXCEPT ![c] = IF Receiving(c) THEN "dropped" ELSE @]
    /\ UNCHANGED <<inner, now, grantVars, callVars, decisions, pending, answer>>

-----------------------------------------------------------------------------
Steps(c) ==
    \/ Match(c) \/ AskPolicy(c) \/ Ask(c) \/ Push(c)
    \/ Answered(c) \/ GiveUp(c) \/ DropSender(c) \/ Unlist(c)

Next ==
    \/ \E g \in Grant : EstablishGrant(g) \/ Revoke(g)
    \/ ActiveGrants \/ Tick
    \/ \E c \in Call :
          \/ Authorize(c) \/ Steps(c)
          \/ \E d \in {"allow", "deny"} : Respond(c, d)
          \/ RespondRemoves(c) \/ RespondSends(c) \/ RespondDropped(c)

Spec == Init /\ [][Next]_vars

\* The runtime polls a call that can move, and the answer timer runs; nothing
\* is assumed of operators
Fairness == \A c \in Call : WF_vars(Steps(c))

FairSpec == Spec /\ Fairness

-----------------------------------------------------------------------------
(* Properties.                                                             *)

Results == {"none", "allow", "deny", "exhausted", "dropped", "gaveUp"}

\* The values of the variables; a call that returned has a verdict.
TypeOK ==
    /\ inner \in Inners /\ now \in 0..MaxTime
    /\ book \subseteq Grant /\ expires \in [Grant -> Nat] /\ used \in [Grant -> Nat]
    /\ pc \in [Call -> {"idle", "match", "ask", "push", "wait", "leave", "unlist", "done"}]
    /\ clock \in [Call -> Nat] /\ exhausted \subseteq Call
    /\ result \in [Call -> Results]
    /\ decisions \subseteq Call /\ pending \subseteq Call
    /\ \A c \in Call : pc[c] = "done" => result[c] # "none"
    /\ chan \in [Call -> {"empty", "allow", "deny", "dropped"}]
    /\ resp \in [Call -> {"none", "taken", "removed", "delivered", "error"}]
    /\ answer \in [Call -> {"none", "allow", "deny"}]
    /\ by \in [Call -> SUBSET Grant] /\ through \in [Grant -> SUBSET Call]

Consented(c) ==
    \/ c \in Passive
    \/ \E g \in by[c] : <<g, c>> \in Covers
    \/ inner = "permissive"
    \/ inner = "interactive" /\ answer[c] = "allow" /\ resp[c] = "delivered"

\* A call that may run was passive, or covered by a grant, or allowed by the
\* policy, or an operator answered Allow to its own request: a dropped
\* answer, a late one, a time limit or a cancel never become consent
\* (InteractiveApprovalGate::authorize).
AllowIsConsented ==
    \A c \in Call : pc[c] = "done" /\ result[c] = "allow" => Consented(c)

\* A request that operators are shown or could answer belongs to a call that
\* still runs.  The answer may come between the notification and the listing,
\* and an operator may hold the sender while the call gives up
\* (ApprovalBroker::push, InteractiveApprovalGate::respond).
NoRequestLeaks ==
    \A c \in decisions \cup pending : pc[c] \notin {"idle", "done"}

\* What a grant lets through stays inside it, whatever the calls that use it
\* at the same time: no more runs than its cap since it was established, only
\* calls in its scope, and only calls that began before it expired
\* (authorize_with_grant_reason).
GrantEnvelope ==
    \A g \in Grant :
        /\ Cardinality(through[g] \cap Exec) <= MaxRuns[g]
        /\ \A c \in through[g] : <<g, c>> \in Covers /\ clock[c] < expires[g]

\* A call that reached the gate gets a verdict, also when no operator ever
\* answers or one took the request and went away (answer_timeout).
AuthorizeReturns ==
    \A c \in Call : pc[c] \notin {"idle", "done"} ~> pc[c] = "done"

\* What a call's position says about its verdict, its request and the answer.
\* An answer is taken once: whoever took the sender has decided, and the
\* channel holds what it sent.
CallInv(c) ==
    /\ pc[c] \in {"idle", "match", "ask", "push", "wait"} => result[c] = "none"
    /\ pc[c] \in {"leave", "unlist"} => result[c] = "gaveUp"
    /\ pc[c] \in {"idle", "match", "ask"} => resp[c] = "none"
    /\ c \in decisions => pc[c] \in {"push", "wait", "leave"} /\ resp[c] = "none"
    /\ c \in pending => pc[c] \in {"wait", "leave", "unlist"}
    /\ c \in decisions \/ resp[c] # "none" => inner = "interactive"
    /\ resp[c] \in {"taken", "removed"} => answer[c] \in {"allow", "deny"}
    /\ chan[c] # "empty" => resp[c] \in {"delivered", "error"}
    /\ chan[c] = "allow" => answer[c] = "allow" /\ resp[c] = "delivered"

\* A grant's counter is the number of processes it let through.
GrantInv(g) ==
    /\ used[g] = Cardinality(through[g] \cap Exec) /\ used[g] <= MaxRuns[g]
    /\ \A c \in through[g] : pc[c] = "done" /\ <<g, c>> \in Covers /\ clock[c] < expires[g]

\* The inductive invariant behind the safety properties.
GateInv ==
    /\ TypeOK /\ AllowIsConsented
    /\ \A c \in Call : CallInv(c)
    /\ \A g \in Grant : GrantInv(g)

\* work.rs:1351 of the platform protocol says of the reply Delivered: "The
\* pending waiter received this decision."
DeliveredIsReceived ==
    \A c \in Call : resp[c] = "delivered" /\ pc[c] = "done" =>
        result[c] \in (IF answer[c] = "allow" THEN {"allow"} ELSE {"deny", "exhausted"})
=============================================================================
