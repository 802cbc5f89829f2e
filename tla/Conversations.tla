---------------------------- MODULE Conversations ----------------------------
(***************************************************************************)
(* One telephone number that writes to one client of the platform.  Its     *)
(* messages are answered by turns; forms with the number create leads and   *)
(* activate the conversation; operators take the conversation over, release *)
(* it, or stop it.  Each is one transaction of PostgreSQL that locks rows   *)
(* in an order of its own, and PostgreSQL aborts one of those that wait for *)
(* each other.                                                              *)
(*                                                                          *)
(* A turn locks the number (an advisory lock), its conversation, then its   *)
(* lead; a form locks the contact, the lead, then the number; an operator   *)
(* locks a lead, the number's control, then the conversation.               *)
(*                                                                          *)
(* The module ends where a lead is qualified: Appointments and Reservations *)
(* go on from there.                                                        *)
(***************************************************************************)
EXTENDS Integers, Sequences, FiniteSets

CONSTANTS
  Messages,         \* the messages that the number sends, numbered as they are written
  Forms,            \* leads that come by a form; 'direct' is the one its messages make
  Questions,        \* the stages of the published configuration, in their order
  Requests,         \* "takeover", "release", "stop" of operators, a salesperson's "command",
                    \* "hold", "unhold" of the internal interface
  Nothing,
  PhoneLimit,       \* INBOUND_LEAD_CAPTURE_PHONE_LIMIT
  MaxForms,         \* bound: forms sent, the same lead's again included
  MaxRequests,      \* bound: requests of operators
  MaxFaults         \* bound: turns that fail, events that are processed again

Direct == "direct"
Leads == Forms \cup {Direct}
Transactions == {"turn", "intake", "request"}
Switches == {"hold", "unhold"}
Words == {"answer", "noise", "decline", "stop"}
Stages == {Questions[i] : i \in DOMAIN Questions}

ASSUME ConversationsAssumption ==
  /\ Questions \in Seq(STRING) /\ Questions # <<>>
  /\ Stages \cap {"", "language", "paused", "human_takeover", "stopped", "qualified"} = {}
  /\ Messages \subseteq Nat /\ Direct \notin Forms /\ Nothing \notin Messages /\ Nothing \notin Leads
  /\ Forms \cap {"number", "contact", "control", "conversation"} = {}
  /\ Requests \subseteq {"takeover", "release", "stop", "command"} \cup Switches
  /\ PhoneLimit \in Nat \ {0}
  /\ MaxForms \in Nat /\ MaxRequests \in Nat /\ MaxFaults \in Nat

VARIABLES
  published,        \* the client has an active configuration
  said,             \* by message: its word; "" before it arrives
  reply,            \* by message: what became of it; "none" before its turn commits
  handled,          \* by message: how many turns took effect
  counted,          \* lead_capture_attempts.attempt_count of the number's window
  lead,             \* by lead: "none", "open", "qualified", "refused"
  optedOut,         \* contacts.opted_out
  welcomed,         \* leads that were sent the first contact's template
  control,          \* edge_lead_controls of the number, or Nothing
  conversation,     \* edge_conversations of the number, or Nothing
  takenOver,        \* history: an operator's takeover has reached the conversation, no release since
  at,               \* by transaction: the next row it needs
  holds,            \* by transaction: the locks it has
  draft,            \* the conversation that a turn or a form works on
  turn, form, request,          \* what the transactions are about
  forms, requests, faults

number_vars == <<control, conversation, takenOver>>
message_vars == <<said, reply, handled, counted>>
lead_vars == <<lead, optedOut, welcomed>>
lock_vars == <<at, holds>>
topic_vars == <<draft, turn, form, request>>
bounds == <<forms, requests, faults>>
conversation_vars ==
  <<published, message_vars, lead_vars, number_vars, lock_vars, topic_vars, bounds>>

AllStages == Stages \cup {"", "language", "paused", "human_takeover", "stopped", "qualified"}
Texts == {"language", "question", "clarify", "paused", "closing", "handoff", "handover"}

Controls ==
  [lead : Leads \cup {Nothing}, stage : AllStages, takeover : BOOLEAN, stop : BOOLEAN, refused : BOOLEAN]
Conversation ==
  [lead : Leads, spoken : BOOLEAN, stage : AllStages, retry : 0 .. 1,
   takeover : BOOLEAN, stop : BOOLEAN, refused : BOOLEAN]

\* Nothing is none of them.
ASSUME NothingAssumption ==
  /\ Nothing \notin Controls /\ Nothing \notin Conversation
  /\ Nothing \notin [kind : Requests, lead : Leads]

Locks == [row : Leads \cup {"number", "contact", "control", "conversation"}, mode : {"update", "write", "refer"}]

ConversationsTypeOK ==
  /\ published \in BOOLEAN /\ optedOut \in BOOLEAN /\ takenOver \in BOOLEAN /\ welcomed \subseteq Forms
  /\ said \in [Messages -> Words \cup {""}]
  /\ reply \in [Messages -> Texts \cup {"none", "silence", "ignored"}]
  /\ handled \in [Messages -> Nat] /\ counted \in 0 .. PhoneLimit
  /\ lead \in [Leads -> {"none", "open", "qualified", "refused"}]
  /\ control \in Controls \cup {Nothing}
  /\ conversation \in Conversation \cup {Nothing}
  /\ conversation # Nothing => lead[conversation.lead] # "none"
  /\ at \in [Transactions -> {"idle", "conversation", "owned", "contact", "lead", "activate", "refer",
                              "control", "write", "number", "commit"}]
  /\ holds \in [Transactions -> SUBSET Locks]
  /\ draft \in [{"turn", "intake"} -> Conversation \cup {Nothing}]
  /\ turn \in Messages \cup {Nothing} /\ form \in Forms \cup {Nothing}
  /\ request \in [kind : Requests, lead : Leads] \cup {Nothing}
  /\ forms \in 0 .. MaxForms /\ requests \in 0 .. MaxRequests /\ faults \in 0 .. MaxFaults

Init ==
  /\ published \in BOOLEAN /\ optedOut = FALSE /\ welcomed = {}
  /\ said = [m \in Messages |-> ""] /\ reply = [m \in Messages |-> "none"]
  /\ handled = [m \in Messages |-> 0] /\ counted = 0
  /\ lead = [l \in Leads |-> "none"]
  /\ control = Nothing /\ conversation = Nothing /\ takenOver = FALSE
  /\ at = [t \in Transactions |-> "idle"] /\ holds = [t \in Transactions |-> {}]
  /\ draft = [t \in {"turn", "intake"} |-> Nothing]
  /\ turn = Nothing /\ form = Nothing /\ request = Nothing
  /\ forms = 0 /\ requests = 0 /\ faults = 0

-----------------------------------------------------------------------------
(* The engine: evaluateConversation, a function of the conversation and the word. *)

Silenced(c) ==
  c.stop \/ c.takeover \/ c.refused \/ c.stage \in {"human_takeover", "stopped"}

Position(s) == CHOOSE i \in DOMAIN Questions : Questions[i] = s

Asks(c, s) == [next |-> [c EXCEPT !.spoken = TRUE, !.stage = s, !.retry = 0], reply |-> "question"]

\* parseQuestionAnswer finds an answer in the word.
Understood(w) == w # "noise"

\* A word that is not understood is asked for once more.
Unclear(c) == [next |-> [c EXCEPT !.retry = 1], reply |-> "clarify"]

\* An answer, or what was said twice, taken as it is, ends the question.
Goes(c) ==
  LET i == Position(c.stage)
  IN IF i < Len(Questions)
     THEN Asks(c, Questions[i + 1])
     ELSE [next |-> [c EXCEPT !.stage = "qualified", !.retry = 0], reply |-> "closing"]

\* The second time, what is not a language is taken for the client's own.
ChoosesLanguage(c, w) ==
  IF w = "answer" \/ c.retry = 1
  THEN Asks(c, Questions[1])
  ELSE [next |-> [c EXCEPT !.retry = 1], reply |-> "language"]

\* A question that is unknown goes to a person: 'fallback' of the processor.
HandsOver(c) ==
  [next |-> [c EXCEPT !.takeover = TRUE, !.stage = "human_takeover"], reply |-> "handover"]

Answers(c, w) ==
  CASE c.stage \notin Stages -> HandsOver(c)
    [] c.stage \in Stages /\ ~Understood(w) /\ c.retry = 0 -> Unclear(c)
    [] w = "decline" /\ c.stage = Questions[1] ->
         [next |-> [c EXCEPT !.stage = "paused", !.retry = 0], reply |-> "paused"]
    [] OTHER -> Goes(c)

Decision(c, w) ==
  CASE w = "stop" ->
         [next |-> [c EXCEPT !.stage = "stopped", !.stop = TRUE, !.refused = TRUE], reply |-> "silence"]
    [] w # "stop" /\ Silenced(c) -> [next |-> c, reply |-> "silence"]
    [] w # "stop" /\ ~Silenced(c) ->
         CASE c.stage = "qualified" -> [next |-> c, reply |-> "handoff"]
           [] c.stage = "language" -> ChoosesLanguage(c, w)
           [] c.stage \notin {"qualified", "language"} /\ ~c.spoken ->
                [next |-> [c EXCEPT !.stage = "language", !.retry = 0], reply |-> "language"]
           [] c.stage = "" /\ c.spoken -> Asks(c, Questions[1])
           [] OTHER -> Answers(c, w)

-----------------------------------------------------------------------------
(* Rows and their locks. *)

Lock(r, m) == [row |-> r, mode |-> m]

\* FOR UPDATE excludes everybody, a write other writes, a foreign key only FOR UPDATE.
Conflict(a, b) ==
  a.row = b.row /\ ("update" \in {a.mode, b.mode} \/ (a.mode = "write" /\ b.mode = "write"))

\* What the turn will do.
Verdict == Decision(draft["turn"], said[turn])

\* persistControlSnapshot: after an opt-out, a hand-over, a message under a takeover.
TakesNotice ==
  \/ said[turn] = "stop" \/ Verdict.reply = "handover"
  \/ /\ Verdict.reply = "silence" /\ ~draft["turn"].stop
     /\ draft["turn"].takeover \/ draft["turn"].stage = "human_takeover"

\* The locks that a transaction needs for its next step.
Wanted(t) ==
  CASE at[t] = "conversation" ->
         IF conversation = Nothing THEN {} ELSE {Lock("conversation", "update")}
    [] at[t] = "owned" ->
         IF conversation = Nothing \/ conversation.lead # request.lead THEN {}
         ELSE {Lock("conversation", "update")}
    [] at[t] = "contact" -> {Lock("contact", "write")}
    [] at[t] = "lead" -> {Lock(IF t = "turn" THEN Direct ELSE form, "write")}
    [] at[t] = "number" -> {Lock("number", "update")}
    [] at[t] = "refer" -> {Lock(draft["turn"].lead, "refer")}
    [] at[t] = "control" -> {Lock("control", "update")}
    [] at[t] = "write" ->
         {Lock(draft["turn"].lead, "write")} \cup
           IF said[turn] = "stop" THEN {Lock("contact", "write")} ELSE {}
    [] OTHER -> {}

Free(t, L) == \A u \in Transactions \ {t} : \A a \in L, b \in holds[u] : ~Conflict(a, b)

\* Transaction t gets the rows of its step and goes on to the next.
Gets(t, L, next) ==
  /\ Free(t, L)
  /\ holds' = [holds EXCEPT ![t] = @ \cup L]
  /\ at' = [at EXCEPT ![t] = next]

\* It commits or rolls back.
Ends(t) ==
  /\ at' = [at EXCEPT ![t] = "idle"] /\ holds' = [holds EXCEPT ![t] = {}]
  /\ turn' = IF t = "turn" THEN Nothing ELSE turn
  /\ form' = IF t = "intake" THEN Nothing ELSE form
  /\ request' = IF t = "request" THEN Nothing ELSE request
  /\ draft' = IF t = "request" THEN draft ELSE [draft EXCEPT ![t] = Nothing]

Started == {t \in Transactions : at[t] # "idle"}
WaitsFor(t, u) == \E a \in Wanted(t), b \in holds[u] : Conflict(a, b)

\* Everybody in T waits for somebody in T.
Cycle(T) == T # {} /\ \A t \in T : \E u \in T \ {t} : WaitsFor(t, u)

\* Mistake: only operators are told that they were too late.
VictimRequest(t) ==
  /\ t = "request" /\ \E T \in SUBSET Started : t \in T /\ Cycle(T)
  /\ Ends(t)
  /\ UNCHANGED <<published, message_vars, lead_vars, number_vars, bounds>>

\* PostgreSQL aborts one of those that wait for each other.
Victim(t) ==
  /\ \E T \in SUBSET Started : t \in T /\ Cycle(T)
  /\ Ends(t)
  /\ UNCHANGED <<published, message_vars, lead_vars, number_vars, bounds>>

-----------------------------------------------------------------------------
(* The turn: EdgeInboundMessageProcessor.process. *)

Write(m) ==
  /\ said[m] = "" /\ \A n \in Messages : said[n] = "" => m <= n
  /\ \E w \in Words : said' = [said EXCEPT ![m] = w]
  /\ UNCHANGED <<published, reply, handled, counted, lead_vars, number_vars, lock_vars, topic_vars, bounds>>

Publish ==
  /\ ~published /\ published' = TRUE
  /\ UNCHANGED <<message_vars, lead_vars, number_vars, lock_vars, topic_vars, bounds>>

\* A worker has the event, perhaps not for the first time, and locks the number.
Begin(m) ==
  /\ at["turn"] = "idle" /\ said[m] # ""
  /\ IF reply[m] = "none" THEN UNCHANGED faults ELSE faults < MaxFaults /\ faults' = faults + 1
  /\ Gets("turn", {Lock("number", "update")}, "conversation")
  /\ turn' = m
  /\ UNCHANGED <<published, message_vars, lead_vars, number_vars, draft, form, request, forms, requests>>

\* Mistake: nobody looks whether the message has had its turn.
FindAfresh ==
  /\ at["turn"] = "conversation" /\ conversation # Nothing
  /\ Gets("turn", Wanted("turn"), "refer")
  /\ draft' = [draft EXCEPT !["turn"] = conversation]
  /\ UNCHANGED <<published, message_vars, lead_vars, number_vars, turn, form, request, bounds>>

\* Mistake: the conversation is read without its lock.
FindUnlocked ==
  /\ at["turn"] = "conversation" /\ conversation # Nothing
  /\ IF handled[turn] > 0
     THEN Ends("turn")
     ELSE /\ Gets("turn", {}, "refer")
          /\ draft' = [draft EXCEPT !["turn"] = conversation]
          /\ UNCHANGED <<turn, form, request>>
  /\ UNCHANGED <<published, message_vars, lead_vars, number_vars, bounds>>

\* It locks and reads the conversation; a message that had its turn is done.
Find ==
  /\ at["turn"] = "conversation" /\ conversation # Nothing
  /\ IF handled[turn] > 0
     THEN Free("turn", Wanted("turn")) /\ Ends("turn")
     ELSE /\ Gets("turn", Wanted("turn"), "refer")
          /\ draft' = [draft EXCEPT !["turn"] = conversation]
          /\ UNCHANGED <<turn, form, request>>
  /\ UNCHANGED <<published, message_vars, lead_vars, number_vars, bounds>>

\* Nobody has talked to the number: the attempt is counted, on a connection of its own, so
\* it stays counted when the turn is rolled back,
RateLimited ==
  /\ at["turn"] = "conversation" /\ conversation = Nothing
  /\ IF counted < PhoneLimit
     THEN /\ Gets("turn", {}, "contact")
          /\ counted' = counted + 1
          /\ UNCHANGED <<reply, topic_vars>>
     ELSE /\ reply' = [reply EXCEPT ![turn] = "ignored"]
          /\ Ends("turn")
          /\ UNCHANGED counted
  /\ UNCHANGED <<published, said, handled, lead_vars, number_vars, bounds>>

\* until its window is over, which the next attempt notices.
NewWindow ==
  /\ at["turn"] = "idle" /\ counted > 0 /\ counted' = 0
  /\ UNCHANGED <<published, said, reply, handled, lead_vars, number_vars, lock_vars, topic_vars, bounds>>

\* The contact and the lead are written,
Capture ==
  /\ at["turn"] \in {"contact", "lead"}
  /\ Gets("turn", Wanted("turn"), IF at["turn"] = "contact" THEN "lead" ELSE "activate")
  /\ UNCHANGED <<published, message_vars, lead_vars, number_vars, topic_vars, bounds>>

\* A new conversation inherits the number's control (getOrCreate).
Inherits(l) ==
  LET seeds == control # Nothing /\ (control.lead = Nothing \/ control.lead = l)
  IN [lead |-> l, spoken |-> FALSE, retry |-> 0,
      stage |-> IF seeds THEN control.stage ELSE "",
      takeover |-> seeds /\ control.takeover,
      stop |-> seeds /\ control.stop,
      refused |-> seeds /\ control.refused]

\* Mistake: the conversation is activated in a transaction of its own.
ActivateAtOnce ==
  /\ at["turn"] = "activate" /\ published
  /\ at' = [at EXCEPT !["turn"] = "refer"]
  /\ draft' = [draft EXCEPT !["turn"] = Inherits(Direct)]
  /\ conversation' = Inherits(Direct)
  /\ UNCHANGED <<published, message_vars, lead_vars, control, takenOver, holds, turn, form, request, bounds>>

\* and the conversation is made, which nobody sees before the commit.
Activate ==
  /\ at["turn"] = "activate" /\ published
  /\ at' = [at EXCEPT !["turn"] = "refer"]
  /\ draft' = [draft EXCEPT !["turn"] = Inherits(Direct)]
  /\ UNCHANGED <<published, message_vars, lead_vars, number_vars, holds, turn, form, request, bounds>>

\* Without a configuration the capture is rolled back.
Ignore ==
  /\ at["turn"] = "activate" /\ ~published
  /\ reply' = [reply EXCEPT ![turn] = "ignored"]
  /\ Ends("turn")
  /\ UNCHANGED <<published, said, handled, counted, lead_vars, number_vars, bounds>>

\* Mistake: the control is written for takeovers only.
ProjectTakeovers ==
  /\ at["turn"] = "refer"
  /\ Gets("turn", Wanted("turn"),
       CASE TakesNotice /\ said[turn] # "stop" -> "control"
         [] said[turn] = "stop" \/ (~TakesNotice /\ Verdict.reply = "closing") -> "write"
         [] OTHER -> "commit")
  /\ UNCHANGED <<published, message_vars, lead_vars, number_vars, topic_vars, bounds>>

\* The turn's rows refer to the lead.
Project ==
  /\ at["turn"] = "refer"
  /\ Gets("turn", Wanted("turn"),
       CASE TakesNotice -> "control"
         [] ~TakesNotice /\ Verdict.reply = "closing" -> "write"
         [] OTHER -> "commit")
  /\ UNCHANGED <<published, message_vars, lead_vars, number_vars, topic_vars, bounds>>

\* The control, then the lead and the contact of who has opted out.
Notice ==
  /\ at["turn"] \in {"control", "write"}
  /\ Gets("turn", Wanted("turn"),
       IF at["turn"] = "control" /\ said[turn] = "stop" THEN "write" ELSE "commit")
  /\ UNCHANGED <<published, message_vars, lead_vars, number_vars, topic_vars, bounds>>

Snapshot(c) ==
  [lead |-> c.lead, stage |-> c.stage, takeover |-> c.takeover, stop |-> c.stop, refused |-> c.refused]

\* ConversationRepository.update writes the whole row, as the turn decided.
Saves(c) == conversation' = c

Answer ==
  LET l == draft["turn"].lead
  IN /\ at["turn"] = "commit"
     /\ Saves(Verdict.next)
     /\ control' = IF Lock("control", "update") \in holds["turn"] THEN Snapshot(Verdict.next) ELSE control
     /\ reply' = [reply EXCEPT ![turn] = Verdict.reply]
     /\ handled' = [handled EXCEPT ![turn] = @ + 1]
     /\ lead' = [lead EXCEPT ![l] =
          CASE said[turn] = "stop" -> "refused"
            [] said[turn] # "stop" /\ Verdict.reply = "closing" -> "qualified"
            [] OTHER -> IF @ = "none" THEN "open" ELSE @]
     /\ optedOut' = (optedOut \/ said[turn] = "stop")
     /\ counted' = 0 \* no longer looked at
     /\ Ends("turn")
     /\ UNCHANGED <<published, said, welcomed, takenOver, bounds>>

TurnFails ==
  /\ at["turn"] # "idle" /\ faults < MaxFaults
  /\ faults' = faults + 1
  /\ Ends("turn")
  /\ UNCHANGED <<published, message_vars, lead_vars, number_vars, forms, requests>>

-----------------------------------------------------------------------------
(* The form: LeadIntakeService.intake. *)

Submit(f) ==
  /\ at["intake"] = "idle" /\ forms < MaxForms
  /\ forms' = forms + 1
  /\ Gets("intake", {Lock("contact", "write")}, "lead")
  /\ form' = f
  /\ UNCHANGED <<published, message_vars, lead_vars, number_vars, draft, turn, request, requests, faults>>

\* The lead, and the number if there is a configuration to activate it with.
WriteLead ==
  /\ at["intake"] = "lead"
  /\ Gets("intake", Wanted("intake"), IF published THEN "number" ELSE "commit")
  /\ UNCHANGED <<published, message_vars, lead_vars, number_vars, topic_vars, bounds>>

LockNumber ==
  /\ at["intake"] = "number"
  /\ Gets("intake", Wanted("intake"), "conversation")
  /\ UNCHANGED <<published, message_vars, lead_vars, number_vars, topic_vars, bounds>>

\* Mistake: a conversation that is activated again begins without a takeover.
MergedAfresh(c, l) ==
  IF control = Nothing THEN [c EXCEPT !.lead = l]
  ELSE [c EXCEPT !.lead = l, !.stage = IF control.stage = "" THEN @ ELSE control.stage,
          !.takeover = FALSE, !.stop = control.stop, !.refused = control.refused]

\* getOrCreate: the number's conversation is the new lead's, under the number's control.
Merged(c, l) ==
  IF control = Nothing THEN [c EXCEPT !.lead = l]
  ELSE [c EXCEPT !.lead = l, !.stage = IF control.stage = "" THEN @ ELSE control.stage,
          !.takeover = control.takeover, !.stop = control.stop, !.refused = control.refused]

Activates ==
  /\ at["intake"] = "conversation"
  /\ Gets("intake", Wanted("intake"), "commit")
  /\ draft' = [draft EXCEPT !["intake"] =
       IF conversation = Nothing THEN Inherits(form) ELSE Merged(conversation, form)]
  /\ UNCHANGED <<published, message_vars, lead_vars, number_vars, turn, form, request, bounds>>

\* The lead is open again, and gets the first contact's template once, unless it opted out.
Intake ==
  /\ at["intake"] = "commit"
  /\ lead' = [lead EXCEPT ![form] = "open"]
  /\ welcomed' = IF optedOut THEN welcomed ELSE welcomed \cup {form}
  /\ conversation' = IF draft["intake"] = Nothing THEN conversation ELSE draft["intake"]
  /\ counted' = IF conversation' = Nothing THEN counted ELSE 0
  /\ Ends("intake")
  /\ UNCHANGED <<published, said, reply, handled, optedOut, control, takenOver, bounds>>

-----------------------------------------------------------------------------
(* Operators and salespeople: DashboardLeadActionService, SalespersonCommandProcessor. *)

Request(k, l) ==
  /\ at["request"] = "idle" /\ requests < MaxRequests
  /\ lead[l] \in IF k = "command" THEN {"qualified"} ELSE {"open", "qualified", "refused"}
  /\ requests' = requests + 1
  /\ Gets("request", {Lock(l, "update")}, IF k = "command" THEN "owned" ELSE "control")
  /\ request' = [kind |-> k, lead |-> l]
  /\ UNCHANGED <<published, message_vars, lead_vars, number_vars, draft, turn, form, forms, faults>>

\* The internal interface writes the number's control, without a lead's lock.
Switch(k) ==
  /\ at["request"] = "idle" /\ requests < MaxRequests
  /\ requests' = requests + 1
  /\ Gets("request", {Lock("control", "update")}, "conversation")
  /\ request' = [kind |-> k, lead |-> Direct]
  /\ UNCHANGED <<published, message_vars, lead_vars, number_vars, draft, turn, form, forms, faults>>

\* An operator's control is written first, then the conversation if there is one to
\* see; a salesperson's command writes only the conversation of the lead.
Operate ==
  /\ at["request"] \in {"control", "conversation", "owned"}
  /\ Gets("request", Wanted("request"), IF at["request"] = "control" THEN "conversation" ELSE "commit")
  /\ UNCHANGED <<published, message_vars, lead_vars, number_vars, topic_vars, bounds>>

\* What a request makes of a control or a conversation.
Operated(k, c) ==
  CASE k \in {"takeover", "command"} -> [c EXCEPT !.takeover = TRUE, !.stage = "human_takeover"]
    [] k = "release" ->
         [c EXCEPT !.takeover = FALSE, !.stage = IF @ = "human_takeover" THEN "" ELSE @]
    [] k = "stop" -> [c EXCEPT !.stop = TRUE]
    [] k \in Switches -> [c EXCEPT !.takeover = (k = "hold")]

NewControl == [lead |-> Nothing, stage |-> "", takeover |-> FALSE, stop |-> FALSE, refused |-> FALSE]

Commit ==
  LET k == request.kind
  IN /\ at["request"] = "commit"
     /\ control' = IF k = "command" THEN control
                   ELSE Operated(k, IF control = Nothing THEN NewControl ELSE control)
     /\ conversation' = IF Lock("conversation", "update") \in holds["request"]
                        THEN Operated(k, conversation) ELSE conversation
     /\ takenOver' = CASE k \in {"takeover", "hold"} -> takenOver \/ Lock("conversation", "update") \in holds["request"]
                       [] k \in {"release", "unhold"} -> FALSE
                       [] OTHER -> takenOver
     /\ Ends("request")
     /\ UNCHANGED <<published, message_vars, lead_vars, bounds>>

-----------------------------------------------------------------------------
TurnStep == Find \/ RateLimited \/ Capture \/ Activate \/ Ignore \/ Project \/ Notice \/ Answer
IntakeStep == WriteLead \/ LockNumber \/ Activates \/ Intake
RequestStep == Operate \/ Commit

Next ==
  \/ Publish \/ NewWindow \/ TurnFails
  \/ TurnStep \/ IntakeStep \/ RequestStep
  \/ \E m \in Messages : Write(m) \/ Begin(m)
  \/ \E f \in Forms : Submit(f)
  \/ \E k \in Requests \ Switches, l \in Leads : Request(k, l)
  \/ \E k \in Requests \cap Switches : Switch(k)
  \/ \E t \in Transactions : Victim(t)

Spec == Init /\ [][Next]_conversation_vars

\* Workers claim events until they are handled, PostgreSQL breaks every cycle, and gives
\* a row that becomes free to who waited for it: a form or a request that waits gets it
\* although turns begin again and again.
FairSpec ==
  /\ Spec
  /\ WF_conversation_vars(\E m \in Messages : reply[m] = "none" /\ Begin(m))
  /\ WF_conversation_vars(TurnStep) /\ SF_conversation_vars(IntakeStep \/ RequestStep)
  /\ WF_conversation_vars(\E t \in Transactions : Victim(t))

-----------------------------------------------------------------------------
(* Properties. *)

\* An operator's takeover that has reached the conversation stands until an operator, or
\* the internal interface, releases it: no form ends it, and no turn that began before
\* (takeover, getOrCreate, update).
TakeoverHolds == takenOver => conversation # Nothing /\ conversation.takeover

\* When nobody is under way, the conversation is under the takeover that its control
\* records: "so the first inbound message inherits the operator's decision instead of
\* being auto-answered" (lead-action-service.ts:502).
ControlIsInherited ==
  Started = {} /\ control # Nothing /\ conversation # Nothing /\ control.takeover
    => conversation.takeover

\* No turn answers in a conversation that is taken over, stopped or refused at the
\* moment when the answer is committed (suppressionReason).
SilentWhenSilenced == [][\A m \in Messages :
  conversation # Nothing /\ Silenced(conversation) /\ reply'[m] # reply[m]
    => reply'[m] \notin Texts]_conversation_vars

\* Once the number has opted out, nothing is sent to it: no answer, whatever
\* operators and forms do to the control and the conversation, and no first contact
\* (persistOptOut, LeadIntakeService: "contact_opted_out").
OptedOutIsLeftAlone == [][optedOut =>
  /\ welcomed' = welcomed
  /\ \A m \in Messages : reply'[m] # reply[m] => reply'[m] \notin Texts]_conversation_vars

\* A message takes effect once, however often its event is processed (README.md:
\* "Meta-message ID is the inbound idempotency key").
EachMessageOnce == \A m \in Messages :
  /\ handled[m] <= 1
  /\ handled[m] = 1 <=> reply[m] \notin {"none", "ignored"}

\* Turns, forms and operators that wait for each other do not wait for ever: time and
\* again nobody is under way, and every message that came has had its turn, also when
\* one failed or was aborted.
EverybodyEnds == []<>(Started = {} /\ \A m \in Messages : said[m] # "" => reply[m] # "none")
=============================================================================
