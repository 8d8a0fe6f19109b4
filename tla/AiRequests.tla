----------------------------- MODULE AiRequests -----------------------------
(***************************************************************************)
(* The request quota of the AI chat and the conversations it writes to     *)
(* (packages/db/src/ai.ts, used by apps/web/app/api/ai/chat/route.ts and   *)
(* apps/web/app/api/ai/conversations/[id]/route.ts).                       *)
(*                                                                         *)
(* A request takes its limit from the plan and its time from the clock,    *)
(* then waits for the lock of the organization.  Requests get the lock in  *)
(* any order, so the rows are not written in the order of their times.     *)
(* The credits of the same request are the module CreditLedger's.          *)
(***************************************************************************)
EXTENDS WorkspaceTeam

CONSTANTS
  Requests,       \* requests of the chat route
  Conversations,  \* identifiers of conversations
  NoConversation, \* a request that opens a conversation
  RequestLimit,   \* the ai_requests_monthly entitlement of a plan
  PerMinute,      \* AI_RATE_LIMIT_REQUESTS_PER_MINUTE
  Minute,         \* length of the rate window, in ticks
  Month,          \* length of a month, in ticks
  MaxTime,        \* bound on the clock
  MaxEdits        \* bound on archivings, restorations and deletions

ASSUME RequestsAssumption == IsFiniteSet(Requests)
ASSUME LimitsAssumption == RequestLimit \in [Plans -> Nat] /\ PerMinute \in Nat \ {0}
ASSUME TimeAssumption == {Minute, Month} \subseteq Nat \ {0} /\ MaxTime \in Nat
ASSUME ConversationsAssumption == NoConversation \notin Conversations /\ MaxEdits \in Nat

VARIABLES
  clock,        \* the time new Date() would answer
  request,      \* requests: how far they got, and what they read
  usageAt,      \* usage_event rows 'ai.requests': created_at by request
  conversation, \* conversation rows
  messages,     \* conversation_message rows
  generations,  \* ai_generation rows, by the request that made them
  edits         \* archivings, restorations and deletions so far

conversations == << conversation, messages, generations >>
aiVars == << clock, request, usageAt, conversations, edits >>

Never == -1
Unasked == [step |-> "new", conv |-> NoConversation, limit |-> 0, now |-> 0]

AiInit ==
  /\ clock = 0
  /\ request = [q \in Requests |-> Unasked]
  /\ usageAt = [q \in Requests |-> Never]
  /\ conversation = [x \in Conversations |-> "none"]
  /\ messages = [x \in Conversations |-> {}]
  /\ generations = [x \in Conversations |-> {}]
  /\ edits = 0

Exists(x) == conversation[x] \in {"open", "archived"}
AsStep(q, step) == request' = [request EXCEPT ![q].step = step]

(***************************************************************************)
(* POST /api/ai/chat up to the quota.                                      *)
(***************************************************************************)

\* getConversationForOrganization: 404 for a deleted conversation, 409 for an
\* archived one
StartChat(q) ==
  /\ request[q].step = "new"
  /\ \/ \E x \in Conversations :
          /\ conversation[x] # "none"
          /\ request' = [request EXCEPT
               ![q].step = IF conversation[x] = "open" THEN "admitted" ELSE "refused",
               ![q].conv = x]
     \/ AsStep(q, "admitted")
  /\ UNCHANGED << clock, usageAt, conversations, edits >>

\* paidPlanForSubscription and the entitlement; then the credits are reserved,
\* and the request ends here when there are none
ReadRequestLimit(q) ==
  /\ request[q].step = "admitted"
  /\ \/ request' = [request EXCEPT ![q].step = "limited", ![q].limit = RequestLimit[plan]]
     \/ AsStep(q, "refused")
  /\ UNCHANGED << clock, usageAt, conversations, edits >>

\* consumeAiRequestQuota reads the clock before it asks for the lock
ReadClock(q) ==
  /\ request[q].step = "limited"
  /\ request' = [request EXCEPT ![q].step = "queued", ![q].now = clock]
  /\ UNCHANGED << clock, usageAt, conversations, edits >>

MonthStart(t) == t - (t % Month)

\* Rows since a time; there is no upper end
Counted == {q \in Requests : usageAt[q] # Never}
UsedSince(t) == Cardinality({q \in Counted : usageAt[q] >= t})

\* Mutant: rows later than the request's own time are not counted.
WithinQuotaUntilNow(q) ==
  LET used(from) == Cardinality({r \in Counted : usageAt[r] \in from .. request[q].now}) IN
  /\ used(MonthStart(request[q].now)) < request[q].limit
  /\ used(request[q].now - Minute) < PerMinute

WithinQuota(q) ==
  /\ UsedSince(MonthStart(request[q].now)) < request[q].limit
  /\ UsedSince(request[q].now - Minute) < PerMinute

\* The transaction that holds the lock
ConsumeAiRequestQuota(q) ==
  /\ request[q].step = "queued"
  /\ IF WithinQuota(q)
     THEN /\ usageAt' = [usageAt EXCEPT ![q] = request[q].now]
          /\ AsStep(q, "counted")
     ELSE /\ AsStep(q, "refused")
          /\ UNCHANGED usageAt
  /\ UNCHANGED << clock, conversations, edits >>

(***************************************************************************)
(* POST /api/ai/chat from the conversation to the generation.  The counted *)
(* request stays counted when one of these fails.                          *)
(***************************************************************************)

\* createConversation, for a request that named none
CreateConversation(q) ==
  /\ request[q].step = "counted"
  /\ request[q].conv = NoConversation
  /\ \E x \in Conversations : conversation[x] = "none"
  /\ LET new == CHOOSE x \in Conversations : conversation[x] = "none" IN
     /\ conversation' = [conversation EXCEPT ![new] = "open"]
     /\ request' = [request EXCEPT ![q].conv = new]
  /\ UNCHANGED << clock, usageAt, messages, generations, edits >>

\* Mutant: the message does not refer to its conversation.
CreateLooseMessage(q, from, kind, step) ==
  LET x == request[q].conv IN
  /\ request[q].step = from
  /\ x # NoConversation
  /\ messages' = [messages EXCEPT ![x] = @ \cup {<< q, kind >>}]
  /\ AsStep(q, step)
  /\ UNCHANGED << clock, usageAt, conversation, generations, edits >>

\* createConversationMessage; without its conversation the row violates the
\* foreign key and the caller fails
CreateMessage(q, from, kind, step) ==
  LET x == request[q].conv IN
  /\ request[q].step = from
  /\ x # NoConversation
  /\ IF Exists(x)
     THEN /\ messages' = [messages EXCEPT ![x] = @ \cup {<< q, kind >>}]
          /\ AsStep(q, step)
     ELSE /\ AsStep(q, "failed")
          /\ UNCHANGED messages
  /\ UNCHANGED << clock, usageAt, conversation, generations, edits >>

Ask(q) == CreateMessage(q, "counted", "user", "asked")

\* onFinish; an empty text ends without an answer
Answer(q) == CreateMessage(q, "asked", "assistant", "answered")

AnswerNothing(q) ==
  /\ request[q].step = "asked"
  /\ AsStep(q, "empty")
  /\ UNCHANGED << clock, usageAt, conversations, edits >>

\* recordAiGeneration
RecordAiGeneration(q) ==
  LET x == request[q].conv IN
  /\ request[q].step = "answered"
  /\ IF Exists(x)
     THEN /\ generations' = [generations EXCEPT ![x] = @ \cup {q}]
          /\ AsStep(q, "recorded")
     ELSE /\ AsStep(q, "failed")
          /\ UNCHANGED generations
  /\ UNCHANGED << clock, usageAt, conversation, messages, edits >>

(***************************************************************************)
(* PATCH and DELETE /api/ai/conversations/[id].                            *)
(***************************************************************************)
Edit == edits < MaxEdits /\ edits' = edits + 1

\* setConversationArchived: updates the row if it is there
SetConversationArchived(x, archived) ==
  /\ conversation' =
       [conversation EXCEPT ![x] = IF ~Exists(x) THEN @
                                   ELSE IF archived THEN "archived" ELSE "open"]
  /\ UNCHANGED << clock, request, usageAt, messages, generations >>

\* deleteConversationForOrganization; the rows that refer to it go with it
DeleteConversation(x) ==
  /\ Exists(x)
  /\ conversation' = [conversation EXCEPT ![x] = "deleted"]
  /\ messages' = [messages EXCEPT ![x] = {}]
  /\ generations' = [generations EXCEPT ![x] = {}]
  /\ UNCHANGED << clock, request, usageAt >>

PatchConversation(x) ==
  Edit /\ Exists(x) /\ \E archived \in BOOLEAN : SetConversationArchived(x, archived)

DeleteRequest(x) == Edit /\ DeleteConversation(x)

Tick ==
  /\ clock < MaxTime
  /\ clock' = clock + 1
  /\ UNCHANGED << request, usageAt, conversations, edits >>

AiNext ==
  \/ \E q \in Requests :
       \/ StartChat(q)
       \/ ReadRequestLimit(q)
       \/ ReadClock(q)
       \/ ConsumeAiRequestQuota(q)
       \/ CreateConversation(q)
       \/ Ask(q)
       \/ Answer(q)
       \/ AnswerNothing(q)
       \/ RecordAiGeneration(q)
  \/ \E x \in Conversations :
       \/ PatchConversation(x)
       \/ DeleteRequest(x)
  \/ Tick

UnderWay == {"admitted", "limited", "queued", "counted", "asked", "answered"}
Steps == UnderWay \cup {"new", "recorded", "empty", "refused", "failed"}

ChatStates == [step : Steps, conv : Conversations \cup {NoConversation}, limit : Nat,
               now : 0 .. MaxTime]

AiTypeOK ==
  /\ clock \in 0 .. MaxTime
  /\ request \in [Requests -> ChatStates]
  /\ usageAt \in [Requests -> 0 .. MaxTime \cup {Never}]
  /\ conversation \in [Conversations -> {"none", "open", "archived", "deleted"}]
  /\ messages \in [Conversations -> SUBSET (Requests \X {"user", "assistant"})]
  /\ generations \in [Conversations -> SUBSET Requests]
  /\ edits \in 0 .. MaxEdits

(***************************************************************************)
(* Properties                                                              *)
(***************************************************************************)

CountedIn(from, to) == Cardinality({q \in Counted : usageAt[q] \in from .. to})

(***************************************************************************)
(* In no calendar month, and in no interval of a minute wherever it        *)
(* begins, are more requests counted than the best plan the workspace had  *)
(* and the rate limit allow, although the rows carry times read before the *)
(* lock was granted and are written out of their order.                    *)
(***************************************************************************)
QuotaHolds ==
  /\ \A t \in 0 .. MaxTime : CountedIn(t - Minute, t) <= PerMinute
  /\ \A t \in 0 .. MaxTime :
       \E p \in plansHeld :
         CountedIn(MonthStart(t), MonthStart(t) + Month - 1) <= RequestLimit[p]

(***************************************************************************)
(* What a conversation holds is whole: an answer has its question, a       *)
(* generation has both and was counted by the quota, and nothing is left   *)
(* or added later in a conversation that was deleted while a request was   *)
(* writing to it.                                                          *)
(***************************************************************************)
ConversationsAreWhole ==
  \A x \in Conversations :
    /\ ~Exists(x) => messages[x] = {} /\ generations[x] = {}
    /\ \A q \in Requests :
         /\ << q, "assistant" >> \in messages[x] => << q, "user" >> \in messages[x]
         /\ q \in generations[x] =>
              << q, "assistant" >> \in messages[x] /\ q \in Counted
=============================================================================
