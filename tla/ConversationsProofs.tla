------------------------ MODULE ConversationsProofs ------------------------
(***************************************************************************)
(* Types of Conversations, that each message takes effect once, that nobody *)
(* is answered who is taken over, stopped or refused, and that takeovers    *)
(* and opt-outs stand: for any messages, forms, requests and faults.        *)
(*                                                                          *)
(* A turn decides on the conversation it read and writes the whole row when *)
(* it commits.  Locks keep that row as it was (Exclusive, TurnKnows): only  *)
(* who holds the number may make a conversation, only who holds its row may *)
(* change it.  An opt-out stands because conversation, control and the      *)
(* conversation that a form is about to write all carry it (OptOutIsKept).  *)
(***************************************************************************)
EXTENDS Conversations, TLAPS

NumberLock == Lock("number", "update")
ConversationLock == Lock("conversation", "update")
ControlLock == Lock("control", "update")

\* Where each transaction may be.
Places ==
  /\ at["turn"] \in {"idle", "conversation", "contact", "lead", "activate", "refer", "control", "write", "commit"}
  /\ at["intake"] \in {"idle", "lead", "number", "conversation", "commit"}
  /\ at["request"] \in {"idle", "owned", "control", "conversation", "commit"}

Deciding == {"refer", "control", "write", "commit"}

\* No two transactions hold locks that exclude one another.
Exclusive == \A t, u \in Transactions : t # u =>
  \A a \in holds[t], b \in holds[u] : ~Conflict(a, b)

\* A turn has the number; while it captures there is no conversation, and when it
\* decides its draft is the conversation, whose row it holds.
TurnKnows ==
  /\ at["turn"] # "idle" => turn \in Messages /\ said[turn] \in Words /\ NumberLock \in holds["turn"]
  /\ at["turn"] \in {"contact", "lead", "activate"} => conversation = Nothing
  /\ at["turn"] \in Deciding =>
       /\ draft["turn"] \in Conversation /\ handled[turn] = 0
       /\ conversation # Nothing => draft["turn"] = conversation /\ ConversationLock \in holds["turn"]
  /\ at["turn"] \in {"write", "commit"} /\ said[turn] = "stop" => ControlLock \in holds["turn"]

\* A form that is about to write a conversation has the number.
IntakeKnows ==
  /\ at["intake"] # "idle" => form \in Forms
  /\ at["intake"] = "conversation" => NumberLock \in holds["intake"]
  /\ draft["intake"] # Nothing =>
       at["intake"] = "commit" /\ NumberLock \in holds["intake"] /\ draft["intake"].lead = form

\* A request that has the conversation's row has seen the conversation.
RequestKnows ==
  /\ at["request"] # "idle" => request \in [kind : Requests, lead : Leads]
  /\ at["request"] = "idle" => holds["request"] = {}
  /\ ConversationLock \in holds["request"] => conversation # Nothing

\* An opt-out is on the conversation, its control, and what a form is about to write.
OptOutIsKept == optedOut =>
  /\ conversation # Nothing /\ conversation.refused
  /\ control # Nothing /\ control.refused
  /\ draft["intake"] # Nothing => draft["intake"].refused

\* A takeover that has reached the conversation is on it, on its control, and on what a
\* form is about to write; and a form that is about to write over a conversation has its row.
TakeoverIsKept ==
  /\ takenOver => /\ conversation # Nothing /\ conversation.takeover
                  /\ control # Nothing /\ control.takeover
                  /\ draft["intake"] # Nothing => draft["intake"].takeover
  /\ draft["intake"] # Nothing /\ conversation # Nothing => ConversationLock \in holds["intake"]

\* Nothing was handled before there was a conversation.
HandledInConversation == conversation = Nothing => \A m \in Messages : handled[m] = 0

Knowledge == Places /\ Exclusive /\ TurnKnows /\ IntakeKnows /\ RequestKnows

IInv == ConversationsTypeOK /\ Knowledge /\ OptOutIsKept /\ HandledInConversation /\ EachMessageOnce

-----------------------------------------------------------------------------
(* The engine. *)

LEMMA QuestionsAreSequence ==
  /\ Questions \in Seq(STRING) /\ Len(Questions) \in Nat \ {0}
  /\ DOMAIN Questions = 1 .. Len(Questions)
<1>1. Questions \in Seq(STRING) /\ Questions # <<>>
  BY ConversationsAssumption
<1> QED
  BY <1>1

LEMMA QuestionsAreStages ==
  /\ Questions[1] \in Stages
  /\ \A i \in 1 .. Len(Questions) : Questions[i] \in Stages
<1>1. \A i \in 1 .. Len(Questions) : Questions[i] \in Stages
  BY QuestionsAreSequence DEF Stages
<1>2. 1 \in 1 .. Len(Questions)
  BY QuestionsAreSequence
<1> QED
  BY <1>1, <1>2

LEMMA PositionIsThere == ASSUME NEW s \in Stages PROVE Position(s) \in 1 .. Len(Questions)
<1>1. \E i \in DOMAIN Questions : Questions[i] = s
  BY DEF Stages
<1>2. Position(s) \in DOMAIN Questions
  BY <1>1 DEF Position
<1> QED
  BY <1>2, QuestionsAreSequence

LEMMA StagesAreKnown ==
  /\ Stages \subseteq AllStages
  /\ {"", "language", "paused", "human_takeover", "stopped", "qualified"} \subseteq AllStages
BY DEF AllStages

\* What a decision d about the conversation c may be.
Fits(c, d) ==
  /\ d.next \in Conversation /\ d.next.lead = c.lead
  /\ c.refused => d.next.refused
  /\ d.reply \in Texts \cup {"silence"}

\* A field of a conversation is set.
LEMMA FieldSet ==
  ASSUME NEW c \in Conversation
  PROVE  /\ \A x \in AllStages : [c EXCEPT !.stage = x] \in Conversation
         /\ \A x \in 0 .. 1 : [c EXCEPT !.retry = x] \in Conversation
         /\ \A x \in BOOLEAN : [c EXCEPT !.spoken = x] \in Conversation
         /\ \A x \in BOOLEAN : [c EXCEPT !.takeover = x] \in Conversation
         /\ \A x \in BOOLEAN : [c EXCEPT !.stop = x] \in Conversation
         /\ \A x \in BOOLEAN : [c EXCEPT !.refused = x] \in Conversation
         /\ \A x \in Leads : [c EXCEPT !.lead = x] \in Conversation
<1>1. \A x \in AllStages : [c EXCEPT !.stage = x] \in Conversation
  BY DEF Conversation
<1>2. \A x \in 0 .. 1 : [c EXCEPT !.retry = x] \in Conversation
  BY DEF Conversation
<1>3. \A x \in BOOLEAN : [c EXCEPT !.spoken = x] \in Conversation
  BY DEF Conversation
<1>4. \A x \in BOOLEAN : [c EXCEPT !.takeover = x] \in Conversation
  BY DEF Conversation
<1>5. \A x \in BOOLEAN : [c EXCEPT !.stop = x] \in Conversation
  BY DEF Conversation
<1>6. \A x \in BOOLEAN : [c EXCEPT !.refused = x] \in Conversation
  BY DEF Conversation
<1>7. \A x \in Leads : [c EXCEPT !.lead = x] \in Conversation
  BY DEF Conversation
<1> QED
  BY <1>1, <1>2, <1>3, <1>4, <1>5, <1>6, <1>7

\* The stage is set and the question begins anew.
LEMMA StageSet ==
  ASSUME NEW c \in Conversation, NEW s \in AllStages
  PROVE  /\ [c EXCEPT !.stage = s, !.retry = 0] \in Conversation
         /\ [c EXCEPT !.stage = s, !.retry = 0].lead = c.lead
         /\ [c EXCEPT !.stage = s, !.retry = 0].refused = c.refused
<1> DEFINE d == [c EXCEPT !.stage = s]
           e == [d EXCEPT !.retry = 0]
<1>1. [c EXCEPT !.stage = s, !.retry = 0] = e
  OBVIOUS
<1>2. d \in Conversation
  BY FieldSet
<1>4. e.lead = c.lead /\ e.refused = c.refused
  BY DEF Conversation
<1> HIDE DEF d
<1>3. e \in Conversation
  <2>1. \A x \in 0 .. 1 : [d EXCEPT !.retry = x] \in Conversation
    BY <1>2, FieldSet
  <2>2. 0 \in 0 .. 1
    OBVIOUS
  <2> QED
    BY <2>1, <2>2
<1> HIDE DEF e
<1> QED
  BY <1>1, <1>3, <1>4

LEMMA AsksFits ==
  ASSUME NEW c \in Conversation, NEW s \in AllStages
  PROVE  Fits(c, Asks(c, s))
<1> DEFINE d == [c EXCEPT !.spoken = TRUE]
           e == [d EXCEPT !.stage = s, !.retry = 0]
<1>1. [c EXCEPT !.spoken = TRUE, !.stage = s, !.retry = 0] = e
  OBVIOUS
<1>2. d \in Conversation /\ d.lead = c.lead /\ d.refused = c.refused
  BY FieldSet DEF Conversation
<1> HIDE DEF d
<1>3. e \in Conversation /\ e.lead = c.lead /\ e.refused = c.refused
  BY <1>2, StageSet
<1>4. Asks(c, s) = [next |-> e, reply |-> "question"]
  BY <1>1 DEF Asks
<1> HIDE DEF e
<1> QED
  BY <1>3, <1>4 DEF Fits, Texts

LEMMA UnclearFits == ASSUME NEW c \in Conversation PROVE Fits(c, Unclear(c))
BY DEF Fits, Unclear, Texts, Conversation

LEMMA HandsOverFits == ASSUME NEW c \in Conversation PROVE Fits(c, HandsOver(c))
<1> DEFINE d == [c EXCEPT !.takeover = TRUE]
           e == [d EXCEPT !.stage = "human_takeover"]
<1>1. [c EXCEPT !.takeover = TRUE, !.stage = "human_takeover"] = e
  OBVIOUS
<1>2. d \in Conversation /\ d.lead = c.lead /\ d.refused = c.refused
  BY FieldSet DEF Conversation
<1> HIDE DEF d
<1>3. e \in Conversation /\ e.lead = c.lead /\ e.refused = c.refused
  BY <1>2, FieldSet, StagesAreKnown DEF Conversation
<1>4. HandsOver(c) = [next |-> e, reply |-> "handover"]
  BY <1>1 DEF HandsOver
<1> HIDE DEF e
<1> QED
  BY <1>3, <1>4 DEF Fits, Texts

\* A text that sets the stage.
LEMMA StageFits ==
  ASSUME NEW c \in Conversation, NEW s \in AllStages, NEW r \in Texts
  PROVE  Fits(c, [next |-> [c EXCEPT !.stage = s, !.retry = 0], reply |-> r])
<1> DEFINE e == [c EXCEPT !.stage = s, !.retry = 0]
<1>1. e \in Conversation /\ e.lead = c.lead /\ e.refused = c.refused
  BY StageSet
<1> HIDE DEF e
<1>2. Fits(c, [next |-> e, reply |-> r])
  BY <1>1 DEF Fits
<1> QED
  BY <1>2 DEF e

LEMMA GoesFits == ASSUME NEW c \in Conversation, c.stage \in Stages PROVE Fits(c, Goes(c))
<1> DEFINE i == Position(c.stage)
<1>1. i \in 1 .. Len(Questions) /\ Len(Questions) \in Nat
  BY PositionIsThere, QuestionsAreSequence
<1>2. CASE i < Len(Questions)
  <2>1. Questions[i + 1] \in Stages
    BY <1>1, <1>2, QuestionsAreStages
  <2>2. Fits(c, Asks(c, Questions[i + 1]))
    BY <2>1, AsksFits, StagesAreKnown
  <2> QED
    BY <1>2, <2>2 DEF Goes
<1>3. CASE ~(i < Len(Questions))
  <2>1. Fits(c, [next |-> [c EXCEPT !.stage = "qualified", !.retry = 0], reply |-> "closing"])
    BY StageFits, StagesAreKnown DEF Texts
  <2> QED
    BY <1>3, <2>1 DEF Goes
<1> QED
  BY <1>2, <1>3

LEMMA AnswersFits ==
  ASSUME NEW c \in Conversation, NEW w \in Words
  PROVE  Fits(c, Answers(c, w))
<1>1. CASE c.stage \notin Stages
  <2>1. Answers(c, w) = HandsOver(c)
    BY <1>1, QuestionsAreStages DEF Answers
  <2> QED
    BY <2>1, HandsOverFits
<1>2. CASE c.stage \in Stages
  <2> DEFINE p == [next |-> [c EXCEPT !.stage = "paused", !.retry = 0], reply |-> "paused"]
  <2>1. Fits(c, p)
    BY StageFits, StagesAreKnown DEF Texts
  <2>2. Answers(c, w) \in {Unclear(c), p, Goes(c)}
    BY <1>2 DEF Answers, Understood
  <2> HIDE DEF p
  <2> QED
    BY <1>2, <2>1, <2>2, UnclearFits, GoesFits
<1> QED
  BY <1>1, <1>2

LEMMA LanguageFits ==
  ASSUME NEW c \in Conversation, NEW w \in Words
  PROVE  Fits(c, ChoosesLanguage(c, w))
<1>1. Fits(c, Asks(c, Questions[1]))
  BY AsksFits, QuestionsAreStages, StagesAreKnown
<1>2. Fits(c, [next |-> [c EXCEPT !.retry = 1], reply |-> "language"])
  BY DEF Fits, Texts, Conversation
<1> QED
  BY <1>1, <1>2 DEF ChoosesLanguage

\* The engine's decision: of the same lead, silent where the bot is to be silent, and
\* an opt-out neither forgotten nor missed.
LEMMA DecisionFits ==
  ASSUME NEW c \in Conversation, NEW w \in Words
  PROVE  /\ Fits(c, Decision(c, w))
         /\ Silenced(c) => Decision(c, w).reply = "silence"
         /\ w = "stop" => Decision(c, w).next.refused
<1>1. CASE w = "stop"
  <2> DEFINE n == [c EXCEPT !.stage = "stopped", !.stop = TRUE, !.refused = TRUE]
  <2>1. n \in Conversation /\ n.lead = c.lead /\ n.refused
    BY StagesAreKnown DEF Conversation
  <2>2. Decision(c, w) = [next |-> n, reply |-> "silence"]
    BY <1>1 DEF Decision
  <2> HIDE DEF n
  <2> QED
    BY <2>1, <2>2 DEF Fits
<1>2. CASE w # "stop" /\ Silenced(c)
  <2>1. Decision(c, w) = [next |-> c, reply |-> "silence"]
    BY <1>2 DEF Decision
  <2> QED
    BY <1>2, <2>1 DEF Fits
<1>3. CASE w # "stop" /\ ~Silenced(c)
  <2> DEFINE first == [next |-> [c EXCEPT !.stage = "language", !.retry = 0], reply |-> "language"]
             hand == [next |-> c, reply |-> "handoff"]
  <2>1. Decision(c, w) \in {hand, ChoosesLanguage(c, w), first, Asks(c, Questions[1]), Answers(c, w)}
    BY <1>3 DEF Decision
  <2>2. Fits(c, first)
    BY StageFits, StagesAreKnown DEF Texts
  <2>3. Fits(c, hand)
    BY DEF Fits, Texts
  <2>4. Fits(c, Asks(c, Questions[1])) /\ Fits(c, Answers(c, w)) /\ Fits(c, ChoosesLanguage(c, w))
    BY AsksFits, AnswersFits, LanguageFits, QuestionsAreStages, StagesAreKnown
  <2> HIDE DEF first, hand
  <2> QED
    BY <1>3, <2>1, <2>2, <2>3, <2>4
<1> QED
  BY <1>1, <1>2, <1>3

-----------------------------------------------------------------------------
(* The type invariant in parts. *)

MessageTypes ==
  /\ said \in [Messages -> Words \cup {""}]
  /\ reply \in [Messages -> Texts \cup {"none", "silence", "ignored"}]
  /\ handled \in [Messages -> Nat] /\ counted \in 0 .. PhoneLimit

LeadTypes ==
  /\ optedOut \in BOOLEAN /\ welcomed \subseteq Forms
  /\ lead \in [Leads -> {"none", "open", "qualified", "refused"}]

NumberTypes ==
  /\ takenOver \in BOOLEAN
  /\ control \in Controls \cup {Nothing}
  /\ conversation \in Conversation \cup {Nothing}
  /\ conversation # Nothing => lead[conversation.lead] # "none"

LockTypes ==
  /\ at \in [Transactions -> {"idle", "conversation", "owned", "contact", "lead", "activate", "refer",
                              "control", "write", "number", "commit"}]
  /\ holds \in [Transactions -> SUBSET Locks]

TopicTypes ==
  /\ draft \in [{"turn", "intake"} -> Conversation \cup {Nothing}]
  /\ turn \in Messages \cup {Nothing} /\ form \in Forms \cup {Nothing}
  /\ request \in [kind : Requests, lead : Leads] \cup {Nothing}

BoundTypes ==
  /\ published \in BOOLEAN
  /\ forms \in 0 .. MaxForms /\ requests \in 0 .. MaxRequests /\ faults \in 0 .. MaxFaults

AllTypes == MessageTypes /\ LeadTypes /\ NumberTypes /\ LockTypes /\ TopicTypes /\ BoundTypes

LEMMA TypesInParts == (ConversationsTypeOK <=> AllTypes) /\ (ConversationsTypeOK' <=> AllTypes')
BY DEF ConversationsTypeOK, AllTypes, MessageTypes, LeadTypes, NumberTypes, LockTypes, TopicTypes, BoundTypes

LEMMA InitIsGood == Init => IInv
<1> SUFFICES ASSUME Init PROVE IInv
  OBVIOUS
<1> USE DEF Init
<1>1. MessageTypes
  <2>1. PhoneLimit \in Nat
    BY ConversationsAssumption
  <2>2. said \in [Messages -> Words \cup {""}] /\ handled \in [Messages -> Nat]
    OBVIOUS
  <2>3. reply \in [Messages -> Texts \cup {"none", "silence", "ignored"}]
    OBVIOUS
  <2>4. counted = 0
    OBVIOUS
  <2> HIDE DEF Init
  <2>5. counted \in 0 .. PhoneLimit
    BY <2>1, <2>4
  <2> QED
    BY <2>2, <2>3, <2>5 DEF MessageTypes
<1>2. LeadTypes /\ NumberTypes
  BY DEF LeadTypes, NumberTypes
<1>3. LockTypes /\ TopicTypes
  BY DEF LockTypes, TopicTypes
<1>4. BoundTypes
  <2>1. MaxForms \in Nat /\ MaxRequests \in Nat /\ MaxFaults \in Nat
    BY ConversationsAssumption
  <2>2. published \in BOOLEAN /\ forms = 0 /\ requests = 0 /\ faults = 0
    OBVIOUS
  <2> HIDE DEF Init
  <2> QED
    BY <2>1, <2>2 DEF BoundTypes
<1>5. Knowledge
  BY DEF Knowledge, Places, Exclusive, TurnKnows, IntakeKnows, RequestKnows, Transactions, Deciding,
         ConversationLock, Lock
<1>6. OptOutIsKept /\ HandledInConversation /\ EachMessageOnce
  <2>1. ~optedOut /\ \A m \in Messages : handled[m] = 0 /\ reply[m] = "none"
    OBVIOUS
  <2> HIDE DEF Init
  <2> QED
    BY <2>1 DEF OptOutIsKept, HandledInConversation, EachMessageOnce
<1> QED
  BY <1>1, <1>2, <1>3, <1>4, <1>5, <1>6, TypesInParts DEF IInv, AllTypes

-----------------------------------------------------------------------------
(* Locks. *)

\* Transactions but t stay where they are, with the locks they have.
OthersStay(t) == \A u \in Transactions : u # t => at'[u] = at[u] /\ holds'[u] = holds[u]

LEMMA WantedAreLocks ==
  ASSUME IInv, NEW t \in Transactions, at[t] # "idle"
  PROVE  Wanted(t) \subseteq Locks
<1>1. /\ at["turn"] = "refer" => draft["turn"].lead \in Leads
      /\ at["turn"] = "write" => draft["turn"].lead \in Leads
  BY DEF IInv, Knowledge, TurnKnows, Deciding, Conversation
<1>2. at["intake"] = "lead" => form \in Leads
  BY DEF IInv, Knowledge, IntakeKnows, Leads
<1>3. at[t] = "refer" \/ at[t] = "write" => t = "turn"
  BY DEF IInv, Knowledge, Places, Transactions
<1>4. at[t] = "lead" => t \in {"turn", "intake"}
  BY DEF IInv, Knowledge, Places, Transactions
<1>5. Direct \in Leads
  BY DEF Leads
<1> QED
  BY <1>1, <1>2, <1>3, <1>4, <1>5 DEF Wanted, Lock, Locks

LEMMA GetsKeeps ==
  ASSUME LockTypes, Exclusive, NEW t \in Transactions, NEW L \in SUBSET Locks,
         NEW next \in {"idle", "conversation", "owned", "contact", "lead", "activate", "refer",
                       "control", "write", "number", "commit"},
         Gets(t, L, next)
  PROVE  /\ LockTypes' /\ Exclusive' /\ OthersStay(t)
         /\ at'[t] = next /\ holds'[t] = holds[t] \cup L
<1>1. /\ holds' \in [Transactions -> SUBSET Locks] /\ holds'[t] = holds[t] \cup L
      /\ \A u \in Transactions : u # t => holds'[u] = holds[u]
  BY DEF Gets, LockTypes
<1>2. /\ at'[t] = next /\ \A u \in Transactions : u # t => at'[u] = at[u]
      /\ LockTypes'
  BY <1>1 DEF Gets, LockTypes
<1>3. Exclusive'
  <2> SUFFICES ASSUME NEW u \in Transactions, NEW v \in Transactions, u # v,
                      NEW a \in holds'[u], NEW b \in holds'[v]
               PROVE  ~Conflict(a, b)
    BY DEF Exclusive
  <2>1. Conflict(a, b) <=> Conflict(b, a)
    BY DEF Conflict
  <2>2. CASE u # t /\ v # t
    BY <1>1, <2>2 DEF Exclusive
  <2>3. CASE u = t /\ v # t
    BY <1>1, <2>3 DEF Exclusive, Gets, Free
  <2>4. CASE u # t /\ v = t
    <3>1. a \in holds[u] /\ (b \in holds[t] \/ b \in L)
      BY <1>1, <2>4
    <3>2. b \in L => ~Conflict(b, a)
      BY <2>4, <3>1 DEF Gets, Free
    <3> QED
      BY <2>1, <2>4, <3>1, <3>2 DEF Exclusive
  <2> QED
    BY <2>2, <2>3, <2>4
<1> QED
  BY <1>1, <1>2, <1>3 DEF OthersStay

LEMMA EndsKeeps ==
  ASSUME LockTypes, TopicTypes, Exclusive, NEW t \in Transactions, Ends(t)
  PROVE  /\ LockTypes' /\ Exclusive' /\ TopicTypes' /\ OthersStay(t)
         /\ at'[t] = "idle" /\ holds'[t] = {}
         /\ t # "turn" => turn' = turn /\ draft'["turn"] = draft["turn"]
         /\ t # "intake" => form' = form /\ draft'["intake"] = draft["intake"]
         /\ t # "request" => request' = request
         /\ t = "intake" => draft'["intake"] = Nothing
<1>1. /\ holds' \in [Transactions -> SUBSET Locks] /\ holds'[t] = {}
      /\ \A u \in Transactions : u # t => holds'[u] = holds[u]
  BY DEF Ends, LockTypes
<1>2. /\ at'[t] = "idle" /\ \A u \in Transactions : u # t => at'[u] = at[u]
      /\ LockTypes'
  BY <1>1 DEF Ends, LockTypes
<1>3. Exclusive'
  BY <1>1 DEF Exclusive
<1>4. TopicTypes'
  BY DEF Ends, TopicTypes
<1>5. /\ t # "turn" => turn' = turn /\ draft'["turn"] = draft["turn"]
      /\ t # "intake" => form' = form /\ draft'["intake"] = draft["intake"]
      /\ t # "request" => request' = request
      /\ t = "intake" => draft'["intake"] = Nothing
  BY DEF Ends, TopicTypes
<1> QED
  BY <1>1, <1>2, <1>3, <1>4, <1>5 DEF OthersStay

\* Whoever has a row for itself is alone with it.
LEMMA Alone ==
  ASSUME Exclusive, NEW t \in Transactions, NEW u \in Transactions, NEW r,
         Lock(r, "update") \in holds[t], Lock(r, "update") \in holds[u]
  PROVE  t = u
<1>1. Conflict(Lock(r, "update"), Lock(r, "update"))
  BY DEF Conflict, Lock
<1> QED
  BY <1>1 DEF Exclusive

-----------------------------------------------------------------------------
(* Steps that write neither conversation, control nor lead. *)

LEMMA InParts ==
  /\ IInv => AllTypes /\ Places /\ Exclusive /\ TurnKnows /\ IntakeKnows /\ RequestKnows
             /\ OptOutIsKept /\ HandledInConversation /\ EachMessageOnce
  /\ AllTypes' /\ Places' /\ Exclusive' /\ TurnKnows' /\ IntakeKnows' /\ RequestKnows'
       /\ OptOutIsKept' /\ HandledInConversation' /\ EachMessageOnce' => IInv'
BY TypesInParts DEF IInv, Knowledge

LEMMA TransactionsAre == Transactions = {"turn", "intake", "request"}
BY DEF Transactions

\* What the others know when the turn, a form or a request moves.
LEMMA OthersKnow ==
  ASSUME IInv, UNCHANGED <<said, handled, conversation, control, optedOut>>
  PROVE  /\ OthersStay("turn") /\ UNCHANGED <<form, request>> /\ draft'["intake"] = draft["intake"]
              => IntakeKnows' /\ RequestKnows' /\ OptOutIsKept'
         /\ OthersStay("intake") /\ UNCHANGED <<turn, request>> /\ draft'["turn"] = draft["turn"]
              => TurnKnows' /\ RequestKnows'
         /\ OthersStay("request") /\ UNCHANGED <<turn, form>>
              /\ draft'["turn"] = draft["turn"] /\ draft'["intake"] = draft["intake"]
              => TurnKnows' /\ IntakeKnows' /\ OptOutIsKept'
<1> USE InParts, TransactionsAre
<1>1. ASSUME OthersStay("turn"), UNCHANGED <<form, request>>, draft'["intake"] = draft["intake"]
      PROVE  IntakeKnows' /\ RequestKnows' /\ OptOutIsKept'
  BY <1>1 DEF OthersStay, IntakeKnows, RequestKnows, OptOutIsKept
<1>2. ASSUME OthersStay("intake"), UNCHANGED <<turn, request>>, draft'["turn"] = draft["turn"]
      PROVE  TurnKnows' /\ RequestKnows'
  BY <1>2 DEF OthersStay, TurnKnows, RequestKnows
<1>3. ASSUME OthersStay("request"), UNCHANGED <<turn, form>>,
             draft'["turn"] = draft["turn"], draft'["intake"] = draft["intake"]
      PROVE  TurnKnows' /\ IntakeKnows' /\ OptOutIsKept'
  BY <1>3 DEF OthersStay, TurnKnows, IntakeKnows, OptOutIsKept
<1> QED
  BY <1>1, <1>2, <1>3

\* Messages arrive, a configuration is published, a window of attempts is over.
LEMMA CalmKeeps ==
  ASSUME IInv, Publish \/ NewWindow \/ \E m \in Messages : Write(m)
  PROVE  IInv'
<1>0. /\ MessageTypes /\ LeadTypes /\ NumberTypes /\ LockTypes /\ TopicTypes /\ BoundTypes
      /\ Places /\ Exclusive /\ TurnKnows /\ IntakeKnows /\ RequestKnows
      /\ OptOutIsKept /\ HandledInConversation /\ EachMessageOnce
  BY InParts DEF AllTypes
<1>1. UNCHANGED <<lead_vars, number_vars, lock_vars, topic_vars, reply, handled, forms, requests, faults>>
  BY DEF Publish, NewWindow, Write, message_vars, bounds
<1>2. LeadTypes' /\ NumberTypes' /\ LockTypes' /\ TopicTypes'
  BY <1>0, <1>1 DEF LeadTypes, NumberTypes, LockTypes, TopicTypes, lead_vars, number_vars, lock_vars, topic_vars
<1>3. BoundTypes'
  BY <1>0, <1>1 DEF BoundTypes, Publish, NewWindow, Write
<1>4. MessageTypes' /\ \A n \in Messages : said[n] \in Words => said'[n] = said[n]
  <2>1. CASE Publish \/ NewWindow
    <3>1. counted' = counted \/ counted' = 0
      BY <2>1 DEF Publish, NewWindow, message_vars
    <3>2. PhoneLimit \in Nat
      BY ConversationsAssumption
    <3>4. counted \in 0 .. PhoneLimit
      BY <1>0 DEF MessageTypes
    <3>3. counted' \in 0 .. PhoneLimit
      BY <3>1, <3>2, <3>4
    <3> QED
      BY <1>0, <1>1, <2>1, <3>3 DEF MessageTypes, Publish, NewWindow, message_vars
  <2>2. ASSUME NEW m \in Messages, Write(m)
        PROVE  MessageTypes' /\ \A n \in Messages : said[n] \in Words => said'[n] = said[n]
    <3>1. PICK w \in Words : said' = [said EXCEPT ![m] = w]
      BY <2>2 DEF Write
    <3>2. said[m] \notin Words
      BY <2>2 DEF Write, Words
    <3>3. said' \in [Messages -> Words \cup {""}] /\ \A n \in Messages : n # m => said'[n] = said[n]
      BY <1>0, <3>1 DEF MessageTypes
    <3> QED
      BY <1>0, <1>1, <2>2, <3>2, <3>3 DEF MessageTypes, Write
  <2> QED
    BY <2>1, <2>2
<1>5. Places' /\ Exclusive' /\ IntakeKnows' /\ RequestKnows' /\ OptOutIsKept' /\ HandledInConversation'
      /\ EachMessageOnce'
  BY <1>0, <1>1 DEF Places, Exclusive, IntakeKnows, RequestKnows, OptOutIsKept, HandledInConversation,
       EachMessageOnce, lead_vars, number_vars, lock_vars, topic_vars
<1>6. TurnKnows'
  BY <1>0, <1>1, <1>4 DEF TurnKnows, number_vars, lock_vars, topic_vars
<1> QED
  BY <1>2, <1>3, <1>4, <1>5, <1>6, InParts DEF AllTypes

\* Steps that leave messages and rows alone.
LEMMA RowsStay ==
  ASSUME IInv, UNCHANGED <<said, reply, handled, counted, lead_vars, number_vars>>
  PROVE  /\ MessageTypes' /\ LeadTypes' /\ NumberTypes'
         /\ HandledInConversation' /\ EachMessageOnce'
<1>0. /\ MessageTypes /\ LeadTypes /\ NumberTypes /\ HandledInConversation /\ EachMessageOnce
  BY InParts DEF AllTypes
<1> QED
  BY <1>0 DEF MessageTypes, LeadTypes, NumberTypes, HandledInConversation, EachMessageOnce,
       lead_vars, number_vars

LEMMA BoundsStay == ASSUME IInv, UNCHANGED <<published, bounds>> PROVE BoundTypes'
<1>1. BoundTypes
  BY InParts DEF AllTypes
<1> QED
  BY <1>1 DEF BoundTypes, bounds

LEMMA FaultsCount ==
  ASSUME IInv, UNCHANGED <<published, forms, requests>>,
         UNCHANGED faults \/ (faults < MaxFaults /\ faults' = faults + 1)
  PROVE  BoundTypes'
<1>1. BoundTypes /\ MaxFaults \in Nat
  BY InParts, ConversationsAssumption DEF AllTypes
<1> QED
  BY <1>1 DEF BoundTypes

\* A transaction ends without a trace: it failed, was aborted, or had nothing to do.
LEMMA EndsQuietly ==
  ASSUME IInv, NEW t \in Transactions, Ends(t),
         UNCHANGED <<said, handled, lead_vars, number_vars>>
  PROVE  /\ LockTypes' /\ TopicTypes' /\ Places' /\ Exclusive'
         /\ TurnKnows' /\ IntakeKnows' /\ RequestKnows' /\ OptOutIsKept' /\ HandledInConversation'
<1>0. /\ LockTypes /\ TopicTypes /\ Places /\ Exclusive /\ TurnKnows /\ IntakeKnows /\ RequestKnows
      /\ OptOutIsKept /\ HandledInConversation
  BY InParts DEF AllTypes
<1>1. /\ LockTypes' /\ Exclusive' /\ TopicTypes' /\ OthersStay(t)
      /\ at'[t] = "idle" /\ holds'[t] = {}
      /\ t # "turn" => turn' = turn /\ draft'["turn"] = draft["turn"]
      /\ t # "intake" => form' = form /\ draft'["intake"] = draft["intake"]
      /\ t # "request" => request' = request
      /\ t = "intake" => draft'["intake"] = Nothing
  BY <1>0, EndsKeeps
<1>2. UNCHANGED <<said, handled, conversation, control, optedOut>>
  BY DEF lead_vars, number_vars
<1>3. Places'
  BY <1>0, <1>1, TransactionsAre DEF Places, OthersStay
<1>4. HandledInConversation'
  BY <1>0, <1>2 DEF HandledInConversation
<1>5. CASE t = "turn"
  <2>1. TurnKnows'
    BY <1>1, <1>5 DEF TurnKnows, Deciding
  <2> QED
    BY <1>1, <1>2, <1>3, <1>4, <1>5, <2>1, OthersKnow
<1>6. CASE t = "intake"
  <2>1. IntakeKnows' /\ OptOutIsKept'
    BY <1>0, <1>1, <1>2, <1>6 DEF IntakeKnows, OptOutIsKept
  <2> QED
    BY <1>1, <1>2, <1>3, <1>4, <1>6, <2>1, OthersKnow
<1>7. CASE t = "request"
  <2>1. RequestKnows'
    BY <1>1, <1>7 DEF RequestKnows
  <2> QED
    BY <1>1, <1>2, <1>3, <1>4, <1>7, <2>1, OthersKnow
<1> QED
  BY <1>5, <1>6, <1>7, TransactionsAre

LEMMA AbortsKeep ==
  ASSUME IInv, TurnFails \/ \E t \in Transactions : Victim(t)
  PROVE  IInv'
<1>1. PICK t \in Transactions : Ends(t)
  BY TransactionsAre DEF TurnFails, Victim
<1>2. UNCHANGED <<message_vars, lead_vars, number_vars, published, forms, requests>>
  BY DEF TurnFails, Victim, bounds
<1>3. BoundTypes'
  BY <1>2, FaultsCount DEF TurnFails, Victim, bounds
<1>4. UNCHANGED <<said, reply, handled, counted>>
  BY <1>2 DEF message_vars
<1> QED
  BY <1>1, <1>2, <1>3, <1>4, EndsQuietly, RowsStay, InParts DEF AllTypes

-----------------------------------------------------------------------------
(* The turn, until it commits. *)

\* The turn gets the locks L and goes on: what it must know is left to show.
LEMMA TurnGets ==
  ASSUME IInv, NEW L \in SUBSET Locks,
         NEW next \in {"conversation", "contact", "lead", "activate", "refer", "control", "write", "commit"},
         Gets("turn", L, next),
         UNCHANGED <<said, handled, lead_vars, number_vars, form, request>>,
         draft'["intake"] = draft["intake"]
  PROVE  /\ LockTypes' /\ Places' /\ Exclusive' /\ IntakeKnows' /\ RequestKnows' /\ OptOutIsKept'
         /\ at'["turn"] = next /\ holds'["turn"] = holds["turn"] \cup L
<1>0. LockTypes /\ Places /\ Exclusive
  BY InParts DEF AllTypes
<1>1. /\ LockTypes' /\ Exclusive' /\ OthersStay("turn")
      /\ at'["turn"] = next /\ holds'["turn"] = holds["turn"] \cup L
  BY <1>0, GetsKeeps, TransactionsAre
<1>2. Places'
  BY <1>0, <1>1, TransactionsAre DEF Places, OthersStay
<1>3. UNCHANGED <<said, handled, conversation, control, optedOut>>
  BY DEF lead_vars, number_vars
<1> QED
  BY <1>1, <1>2, <1>3, OthersKnow

LEMMA BeginKeeps == ASSUME IInv, NEW m \in Messages, Begin(m) PROVE IInv'
<1>0. AllTypes /\ TurnKnows
  BY InParts
<1>1. /\ Gets("turn", {NumberLock}, "conversation") /\ turn' = m /\ said[m] # ""
      /\ UNCHANGED <<published, message_vars, lead_vars, number_vars, draft, form, request, forms, requests>>
  BY DEF Begin, NumberLock
<1>2. {NumberLock} \in SUBSET Locks
  BY DEF NumberLock, Lock, Locks
<1>3. UNCHANGED <<said, reply, handled, counted>>
  BY <1>1 DEF message_vars
<1>4. /\ LockTypes' /\ Places' /\ Exclusive' /\ IntakeKnows' /\ RequestKnows' /\ OptOutIsKept'
      /\ at'["turn"] = "conversation" /\ holds'["turn"] = holds["turn"] \cup {NumberLock}
  BY <1>1, <1>2, <1>3, TurnGets
<1>5. said[m] \in Words
  BY <1>0, <1>1 DEF AllTypes, MessageTypes
<1>6. TurnKnows'
  BY <1>1, <1>3, <1>4, <1>5 DEF TurnKnows, Deciding
<1>7. TopicTypes'
  BY <1>0, <1>1 DEF AllTypes, TopicTypes
<1>8. BoundTypes'
  BY <1>1, FaultsCount DEF Begin
<1> QED
  BY <1>1, <1>3, <1>4, <1>6, <1>7, <1>8, RowsStay, InParts DEF AllTypes

\* A turn that has found the conversation decides on it.
LEMMA FindKeeps == ASSUME IInv, Find PROVE IInv'
<1>0. AllTypes /\ TurnKnows
  BY InParts
<1>1. UNCHANGED <<published, said, reply, handled, counted, lead_vars, number_vars, bounds>>
  BY DEF Find, message_vars
<1>2. CASE Ends("turn")
  BY <1>1, <1>2, EndsQuietly, RowsStay, BoundsStay, InParts, TransactionsAre DEF AllTypes
<1>3. CASE /\ Gets("turn", Wanted("turn"), "refer") /\ handled[turn] = 0
           /\ draft' = [draft EXCEPT !["turn"] = conversation] /\ UNCHANGED <<turn, form, request>>
  <2>1. /\ at["turn"] = "conversation" /\ conversation # Nothing
        /\ Wanted("turn") = {ConversationLock} /\ {ConversationLock} \in SUBSET Locks
    BY DEF Find, Wanted, ConversationLock, Lock, Locks
  <2>2. draft'["turn"] = conversation /\ draft'["intake"] = draft["intake"] /\ TopicTypes'
    BY <1>0, <1>3 DEF AllTypes, TopicTypes, NumberTypes
  <2>3. /\ LockTypes' /\ Places' /\ Exclusive' /\ IntakeKnows' /\ RequestKnows' /\ OptOutIsKept'
        /\ at'["turn"] = "refer" /\ holds'["turn"] = holds["turn"] \cup {ConversationLock}
    BY <1>1, <1>3, <2>1, <2>2, TurnGets
  <2>4. conversation \in Conversation /\ UNCHANGED conversation
    BY <1>0, <1>1, <2>1 DEF AllTypes, NumberTypes, number_vars
  <2>5. TurnKnows'
    BY <1>0, <1>1, <1>3, <2>1, <2>2, <2>3, <2>4 DEF TurnKnows, Deciding
  <2> QED
    BY <1>1, <2>2, <2>3, <2>5, RowsStay, BoundsStay, InParts DEF AllTypes
<1>4. handled[turn] > 0 \/ handled[turn] = 0
  <2>1. turn \in Messages
    BY <1>0 DEF Find, TurnKnows
  <2>2. handled[turn] \in Nat
    BY <1>0, <2>1 DEF AllTypes, MessageTypes
  <2> QED
    BY <2>2
<1> QED
  BY <1>2, <1>3, <1>4 DEF Find

\* A message of a number without a conversation is ignored.
LEMMA IgnoredKeeps ==
  ASSUME MessageTypes, HandledInConversation, EachMessageOnce, turn \in Messages, conversation = Nothing,
         reply' = [reply EXCEPT ![turn] = "ignored"], UNCHANGED <<said, handled, counted>>
  PROVE  MessageTypes' /\ EachMessageOnce'
<1>1. reply' \in [Messages -> Texts \cup {"none", "silence", "ignored"}]
  BY DEF MessageTypes
<1>2. \A m \in Messages : handled[m] = 0 /\ reply'[m] \in {"ignored", reply[m]}
  BY DEF MessageTypes, HandledInConversation
<1>3. EachMessageOnce'
  BY <1>2 DEF EachMessageOnce
<1> QED
  BY <1>1, <1>3 DEF MessageTypes

\* Nobody has talked to the number before; the attempt is counted or refused.
LEMMA RateLimitedKeeps == ASSUME IInv, RateLimited PROVE IInv'
<1>0. AllTypes /\ TurnKnows /\ HandledInConversation /\ EachMessageOnce
  BY InParts
<1>1. /\ at["turn"] = "conversation" /\ conversation = Nothing
      /\ UNCHANGED <<published, said, handled, lead_vars, number_vars, bounds>>
  BY DEF RateLimited
<1>2. LeadTypes' /\ NumberTypes' /\ HandledInConversation' /\ BoundTypes'
  BY <1>0, <1>1, BoundsStay
     DEF AllTypes, LeadTypes, NumberTypes, HandledInConversation, lead_vars, number_vars
<1>3. CASE /\ counted < PhoneLimit /\ Gets("turn", {}, "contact") /\ counted' = counted + 1
           /\ UNCHANGED <<reply, topic_vars>>
  <2>1. /\ LockTypes' /\ Places' /\ Exclusive' /\ IntakeKnows' /\ RequestKnows' /\ OptOutIsKept'
        /\ at'["turn"] = "contact" /\ holds'["turn"] = holds["turn"] \cup {}
    BY <1>1, <1>3, TurnGets DEF topic_vars
  <2>2. TurnKnows' /\ TopicTypes'
    BY <1>0, <1>1, <1>3, <2>1 DEF TurnKnows, Deciding, AllTypes, TopicTypes, topic_vars, number_vars
  <2>3. counted' \in 0 .. PhoneLimit
    <3>1. PhoneLimit \in Nat /\ counted \in 0 .. PhoneLimit
      BY <1>0, ConversationsAssumption DEF AllTypes, MessageTypes
    <3> QED
      BY <1>3, <3>1
  <2>4. MessageTypes' /\ EachMessageOnce'
    BY <1>0, <1>1, <1>3, <2>3 DEF AllTypes, MessageTypes, EachMessageOnce
  <2> QED
    BY <1>2, <2>1, <2>2, <2>4, InParts DEF AllTypes
<1>4. CASE reply' = [reply EXCEPT ![turn] = "ignored"] /\ Ends("turn") /\ UNCHANGED counted
  <2>1. /\ LockTypes' /\ TopicTypes' /\ Places' /\ Exclusive'
        /\ TurnKnows' /\ IntakeKnows' /\ RequestKnows' /\ OptOutIsKept'
    BY <1>1, <1>4, EndsQuietly, TransactionsAre
  <2>2. MessageTypes' /\ EachMessageOnce'
    BY <1>0, <1>1, <1>4, IgnoredKeeps DEF AllTypes, TurnKnows
  <2> QED
    BY <1>2, <2>1, <2>2, InParts DEF AllTypes
<1> QED
  BY <1>3, <1>4 DEF RateLimited

\* Without a configuration the number is not talked to.
LEMMA IgnoreKeeps == ASSUME IInv, Ignore PROVE IInv'
<1>0. AllTypes /\ TurnKnows /\ HandledInConversation /\ EachMessageOnce
  BY InParts
<1>1. /\ conversation = Nothing /\ reply' = [reply EXCEPT ![turn] = "ignored"] /\ Ends("turn")
      /\ UNCHANGED <<published, said, handled, counted, lead_vars, number_vars, bounds>>
  BY <1>0 DEF Ignore, TurnKnows
<1>2. LeadTypes' /\ NumberTypes' /\ HandledInConversation' /\ BoundTypes'
  BY <1>0, <1>1, BoundsStay
     DEF AllTypes, LeadTypes, NumberTypes, HandledInConversation, lead_vars, number_vars
<1>3. /\ LockTypes' /\ TopicTypes' /\ Places' /\ Exclusive'
      /\ TurnKnows' /\ IntakeKnows' /\ RequestKnows' /\ OptOutIsKept'
  BY <1>1, EndsQuietly, TransactionsAre
<1>4. MessageTypes' /\ EachMessageOnce'
  BY <1>0, <1>1, IgnoredKeeps DEF Ignore, AllTypes, TurnKnows
<1> QED
  BY <1>2, <1>3, <1>4, InParts DEF AllTypes

LEMMA CaptureKeeps == ASSUME IInv, Capture PROVE IInv'
<1>0. AllTypes /\ TurnKnows
  BY InParts
<1>1. UNCHANGED <<published, said, reply, handled, counted, lead_vars, number_vars, topic_vars, bounds>>
  BY DEF Capture, message_vars
<1>2. PICK next \in {"lead", "activate"} : Gets("turn", Wanted("turn"), next)
  BY DEF Capture
<1>3. at["turn"] \in {"contact", "lead"} /\ Wanted("turn") \in SUBSET Locks
  BY WantedAreLocks, TransactionsAre DEF Capture
<1>4. /\ LockTypes' /\ Places' /\ Exclusive' /\ IntakeKnows' /\ RequestKnows' /\ OptOutIsKept'
      /\ at'["turn"] = next /\ holds'["turn"] = holds["turn"] \cup Wanted("turn")
  BY <1>1, <1>2, <1>3, TurnGets DEF topic_vars
<1>5. TurnKnows' /\ TopicTypes'
  BY <1>0, <1>1, <1>3, <1>4 DEF TurnKnows, Deciding, AllTypes, TopicTypes, topic_vars, number_vars
<1> QED
  BY <1>1, <1>4, <1>5, RowsStay, BoundsStay, InParts DEF AllTypes

\* What a new conversation inherits is a conversation.
LEMMA InheritsType ==
  ASSUME NumberTypes, NEW l \in Leads
  PROVE  Inherits(l) \in Conversation /\ Inherits(l).lead = l
<1> DEFINE seeds == control # Nothing /\ (control.lead = Nothing \/ control.lead = l)
<1>1. seeds => /\ control.stage \in AllStages
               /\ control.takeover \in BOOLEAN /\ control.stop \in BOOLEAN /\ control.refused \in BOOLEAN
  BY DEF NumberTypes, Controls
<1>2. "" \in AllStages
  BY StagesAreKnown
<1>3. 0 \in 0 .. 1
  OBVIOUS
<1> QED
  BY <1>1, <1>2, <1>3 DEF Inherits, Conversation

LEMMA ActivateKeeps == ASSUME IInv, Activate PROVE IInv'
<1>0. AllTypes /\ Places /\ Exclusive /\ TurnKnows /\ HandledInConversation
  BY InParts
<1>1. /\ at["turn"] = "activate" /\ at' = [at EXCEPT !["turn"] = "refer"]
      /\ draft' = [draft EXCEPT !["turn"] = Inherits(Direct)]
      /\ UNCHANGED <<published, said, reply, handled, counted, lead_vars, number_vars, holds, turn, form, request, bounds>>
  BY DEF Activate, message_vars
<1>2. Inherits(Direct) \in Conversation
  BY <1>0, InheritsType DEF AllTypes, Leads
<1>3. draft'["turn"] = Inherits(Direct) /\ draft'["intake"] = draft["intake"] /\ TopicTypes'
  BY <1>0, <1>1, <1>2 DEF AllTypes, TopicTypes
<1>4. LockTypes' /\ Places' /\ Exclusive' /\ OthersStay("turn") /\ at'["turn"] = "refer"
  BY <1>0, <1>1, TransactionsAre DEF AllTypes, LockTypes, Places, Exclusive, OthersStay
<1>5. UNCHANGED <<conversation, control, optedOut>>
  BY <1>1 DEF lead_vars, number_vars
<1>6. IntakeKnows' /\ RequestKnows' /\ OptOutIsKept'
  BY <1>1, <1>3, <1>4, <1>5, OthersKnow
<1>7. TurnKnows'
  BY <1>0, <1>1, <1>2, <1>3, <1>4, <1>5 DEF TurnKnows, Deciding, HandledInConversation
<1> QED
  BY <1>1, <1>3, <1>4, <1>6, <1>7, RowsStay, BoundsStay, InParts DEF AllTypes

\* The turn gets what it needs for what it has decided.
LEMMA ProjectKeeps == ASSUME IInv, Project \/ Notice PROVE IInv'
<1>0. AllTypes /\ TurnKnows
  BY InParts
<1>1. UNCHANGED <<published, said, reply, handled, counted, lead_vars, number_vars, topic_vars, bounds>>
  BY DEF Project, Notice, message_vars
<1>2. PICK next \in {"control", "write", "commit"} : Gets("turn", Wanted("turn"), next)
  BY DEF Project, Notice
<1>3. at["turn"] \in Deciding /\ Wanted("turn") \in SUBSET Locks
  BY WantedAreLocks, TransactionsAre DEF Project, Notice, Deciding
<1>4. /\ LockTypes' /\ Places' /\ Exclusive' /\ IntakeKnows' /\ RequestKnows' /\ OptOutIsKept'
      /\ at'["turn"] = next /\ holds'["turn"] = holds["turn"] \cup Wanted("turn")
  BY <1>1, <1>2, <1>3, TurnGets DEF topic_vars
<1>5. at'["turn"] \in {"write", "commit"} /\ said[turn] = "stop" => ControlLock \in holds'["turn"]
  <2>1. CASE Project
    <3>1. said[turn] = "stop" => at'["turn"] = "control"
      BY <1>0, <2>1 DEF Project, Gets, TakesNotice, AllTypes, LockTypes, Transactions
    <3> QED
      BY <3>1
  <2>2. CASE Notice
    <3>1. at["turn"] = "control" => ControlLock \in Wanted("turn")
      BY DEF Wanted, ControlLock
    <3> QED
      BY <1>0, <1>4, <2>2, <3>1 DEF Notice, TurnKnows
  <2> QED
    BY <2>1, <2>2
<1>6. TurnKnows' /\ TopicTypes'
  BY <1>0, <1>1, <1>3, <1>4, <1>5 DEF TurnKnows, Deciding, AllTypes, TopicTypes, topic_vars, number_vars
<1> QED
  BY <1>1, <1>4, <1>6, RowsStay, BoundsStay, InParts DEF AllTypes

-----------------------------------------------------------------------------
(* A form, until it commits. *)

LEMMA IntakeGets ==
  ASSUME IInv, NEW L \in SUBSET Locks, NEW next \in {"lead", "number", "conversation", "commit"},
         Gets("intake", L, next),
         UNCHANGED <<said, handled, lead_vars, number_vars, turn, request>>,
         draft'["turn"] = draft["turn"]
  PROVE  /\ LockTypes' /\ Places' /\ Exclusive' /\ TurnKnows' /\ RequestKnows'
         /\ at'["intake"] = next /\ holds'["intake"] = holds["intake"] \cup L
<1>0. LockTypes /\ Places /\ Exclusive
  BY InParts DEF AllTypes
<1>1. /\ LockTypes' /\ Exclusive' /\ OthersStay("intake")
      /\ at'["intake"] = next /\ holds'["intake"] = holds["intake"] \cup L
  BY <1>0, GetsKeeps, TransactionsAre
<1>2. Places'
  BY <1>0, <1>1, TransactionsAre DEF Places, OthersStay
<1>3. UNCHANGED <<said, handled, conversation, control, optedOut>>
  BY DEF lead_vars, number_vars
<1> QED
  BY <1>1, <1>2, <1>3, OthersKnow

\* A form's draft is Nothing until it has the conversation.
LEMMA IntakeWalks ==
  ASSUME IInv, WriteLead \/ LockNumber \/ \E f \in Forms : Submit(f)
  PROVE  IInv'
<1>0. AllTypes /\ IntakeKnows /\ OptOutIsKept
  BY InParts
<1>1. UNCHANGED <<published, said, reply, handled, counted, lead_vars, number_vars, draft, turn, request, requests, faults>>
  BY DEF WriteLead, LockNumber, Submit, message_vars, topic_vars, bounds
<1>2. PICK L \in SUBSET Locks, next \in {"lead", "number", "conversation", "commit"} :
        /\ Gets("intake", L, next)
        /\ next = "conversation" => NumberLock \in L
  <2>1. CASE \E f \in Forms : Submit(f)
    <3>1. {Lock("contact", "write")} \in SUBSET Locks
      BY DEF Lock, Locks
    <3> QED
      BY <2>1, <3>1 DEF Submit
  <2>2. CASE WriteLead
    <3>1. Wanted("intake") \in SUBSET Locks
      BY <2>2, WantedAreLocks, TransactionsAre DEF WriteLead
    <3> QED
      BY <2>2, <3>1 DEF WriteLead
  <2>3. CASE LockNumber
    <3>1. Wanted("intake") = {NumberLock} /\ {NumberLock} \in SUBSET Locks
      BY <2>3 DEF LockNumber, Wanted, NumberLock, Lock, Locks
    <3> QED
      BY <2>3, <3>1 DEF LockNumber
  <2> QED
    BY <2>1, <2>2, <2>3
<1>3. /\ LockTypes' /\ Places' /\ Exclusive' /\ TurnKnows' /\ RequestKnows'
      /\ at'["intake"] = next /\ holds'["intake"] = holds["intake"] \cup L
  BY <1>1, <1>2, IntakeGets
<1>4. form' \in Forms /\ BoundTypes'
  <2>1. CASE \E f \in Forms : Submit(f)
    <3>1. MaxForms \in Nat /\ forms \in 0 .. MaxForms
      BY <1>0, ConversationsAssumption DEF AllTypes, BoundTypes
    <3>2. forms' \in 0 .. MaxForms /\ form' \in Forms
      BY <2>1, <3>1 DEF Submit
    <3> QED
      BY <1>0, <1>1, <3>2 DEF AllTypes, BoundTypes
  <2>2. CASE WriteLead \/ LockNumber
    BY <1>0, <2>2, BoundsStay DEF WriteLead, LockNumber, IntakeKnows, topic_vars
  <2> QED
    BY <2>1, <2>2
<1>5. TopicTypes'
  BY <1>0, <1>1, <1>4 DEF AllTypes, TopicTypes
<1>6. draft["intake"] = Nothing
  BY <1>0 DEF IntakeKnows, WriteLead, LockNumber, Submit
<1>7. IntakeKnows' /\ OptOutIsKept'
  BY <1>0, <1>1, <1>2, <1>3, <1>4, <1>6 DEF IntakeKnows, OptOutIsKept, lead_vars, number_vars
<1> QED
  BY <1>1, <1>3, <1>4, <1>5, <1>7, RowsStay, InParts DEF AllTypes

LEMMA MergedType ==
  ASSUME NumberTypes, NEW c \in Conversation, NEW l \in Leads
  PROVE  /\ Merged(c, l) \in Conversation /\ Merged(c, l).lead = l
         /\ control # Nothing => Merged(c, l).refused = control.refused
<1>1. CASE control = Nothing
  <2>1. Merged(c, l) = [c EXCEPT !.lead = l]
    BY <1>1 DEF Merged
  <2> QED
    BY <1>1, <2>1, FieldSet DEF Conversation
<1>2. CASE control # Nothing
  <2> DEFINE s == IF control.stage = "" THEN c.stage ELSE control.stage
             m == [lead |-> l, spoken |-> c.spoken, stage |-> s, retry |-> c.retry,
                   takeover |-> control.takeover, stop |-> control.stop, refused |-> control.refused]
  <2>1. /\ control.stage \in AllStages /\ control.takeover \in BOOLEAN
        /\ control.stop \in BOOLEAN /\ control.refused \in BOOLEAN
    BY <1>2 DEF NumberTypes, Controls
  <2>2. s \in AllStages /\ c.spoken \in BOOLEAN /\ c.retry \in 0 .. 1
    BY <2>1 DEF Conversation
  <2>3. Merged(c, l) = m
    <3>1. Merged(c, l) = [c EXCEPT !.lead = l, !.stage = s, !.takeover = control.takeover,
                            !.stop = control.stop, !.refused = control.refused]
      BY <1>2 DEF Merged, Conversation
    <3> HIDE DEF s
    <3> QED
      BY <3>1 DEF Conversation
  <2> HIDE DEF s
  <2>4. m \in Conversation
    BY <2>1, <2>2 DEF Conversation
  <2> QED
    BY <2>3, <2>4
<1> QED
  BY <1>1, <1>2

\* The form's draft carries the number's opt-out.
LEMMA ActivatesKeeps == ASSUME IInv, Activates PROVE IInv'
<1>0. AllTypes /\ IntakeKnows /\ OptOutIsKept
  BY InParts
<1>1. UNCHANGED <<published, said, reply, handled, counted, lead_vars, number_vars, turn, form, request, bounds>>
  BY DEF Activates, message_vars
<1>2. /\ Gets("intake", Wanted("intake"), "commit") /\ Wanted("intake") \in SUBSET Locks
      /\ form \in Forms /\ form \in Leads /\ NumberLock \in holds["intake"]
  BY <1>0, WantedAreLocks, TransactionsAre DEF Activates, IntakeKnows, Leads
<1> DEFINE d == IF conversation = Nothing THEN Inherits(form) ELSE Merged(conversation, form)
<1>3. d \in Conversation /\ d.lead = form
  BY <1>0, <1>2, InheritsType, MergedType DEF AllTypes, NumberTypes
<1>4. optedOut => d.refused
  BY <1>0, <1>2, MergedType DEF AllTypes, NumberTypes, OptOutIsKept
<1>5. draft' = [draft EXCEPT !["intake"] = d]
  BY DEF Activates
<1> HIDE DEF d
<1>6. draft'["intake"] = d /\ draft'["turn"] = draft["turn"] /\ TopicTypes'
  BY <1>0, <1>1, <1>3, <1>5 DEF AllTypes, TopicTypes
<1>7. /\ LockTypes' /\ Places' /\ Exclusive' /\ TurnKnows' /\ RequestKnows'
      /\ at'["intake"] = "commit" /\ holds'["intake"] = holds["intake"] \cup Wanted("intake")
  BY <1>1, <1>2, <1>6, IntakeGets
<1>8. IntakeKnows' /\ OptOutIsKept'
  BY <1>0, <1>1, <1>2, <1>3, <1>4, <1>6, <1>7 DEF IntakeKnows, OptOutIsKept, lead_vars, number_vars
<1> QED
  BY <1>1, <1>6, <1>7, <1>8, RowsStay, BoundsStay, InParts DEF AllTypes

-----------------------------------------------------------------------------
(* A request, until it commits. *)

\* A request gets a conversation's row only when there is a conversation.
LEMMA RequestWalks ==
  ASSUME IInv,
         \/ Operate
         \/ \E k \in Requests \ Switches, l \in Leads : Request(k, l)
         \/ \E k \in Requests \cap Switches : Switch(k)
  PROVE  IInv'
<1>0. AllTypes /\ Places /\ Exclusive /\ RequestKnows
  BY InParts
<1>1. UNCHANGED <<published, said, reply, handled, counted, lead_vars, number_vars, draft, turn, form, forms, faults>>
  BY DEF Operate, Request, Switch, message_vars, topic_vars, bounds
<1>2. PICK L \in SUBSET Locks, next \in {"owned", "control", "conversation", "commit"} :
        /\ Gets("request", L, next)
        /\ ConversationLock \in L => conversation # Nothing
  <2>1. ASSUME NEW k \in Requests \ Switches, NEW l \in Leads, Request(k, l)
        PROVE  \E L \in SUBSET Locks, next \in {"owned", "control", "conversation", "commit"} :
                 /\ Gets("request", L, next)
                 /\ ConversationLock \in L => conversation # Nothing
    <3>1. {Lock(l, "update")} \in SUBSET Locks
      BY DEF Lock, Locks
    <3>2. l # "conversation"
      BY ConversationsAssumption DEF Leads, Direct
    <3>3. ConversationLock # Lock(l, "update")
      BY <3>2 DEF ConversationLock, Lock
    <3> QED
      BY <2>1, <3>1, <3>3 DEF Request
  <2>2. ASSUME NEW k \in Requests \cap Switches, Switch(k)
        PROVE  \E L \in SUBSET Locks, next \in {"owned", "control", "conversation", "commit"} :
                 /\ Gets("request", L, next)
                 /\ ConversationLock \in L => conversation # Nothing
    <3>1. {Lock("control", "update")} \in SUBSET Locks /\ ConversationLock # Lock("control", "update")
      BY DEF ConversationLock, Lock, Locks
    <3> QED
      BY <2>2, <3>1 DEF Switch
  <2>3. CASE Operate
    <3>1. Wanted("request") \in SUBSET Locks
      BY <2>3, WantedAreLocks, TransactionsAre DEF Operate
    <3>2. ConversationLock \in Wanted("request") => conversation # Nothing
      BY <2>3 DEF Operate, Wanted, ConversationLock, Lock
    <3> QED
      BY <2>3, <3>1, <3>2 DEF Operate
  <2> QED
    BY <2>1, <2>2, <2>3
<1>3. /\ LockTypes' /\ Exclusive' /\ OthersStay("request")
      /\ at'["request"] = next /\ holds'["request"] = holds["request"] \cup L
  BY <1>0, <1>2, GetsKeeps, TransactionsAre DEF AllTypes
<1>4. Places'
  BY <1>0, <1>3, TransactionsAre DEF Places, OthersStay
<1>5. UNCHANGED <<conversation, control, optedOut>>
  BY <1>1 DEF lead_vars, number_vars
<1>6. TurnKnows' /\ IntakeKnows' /\ OptOutIsKept'
  BY <1>1, <1>3, <1>5, OthersKnow
<1>7. request' \in [kind : Requests, lead : Leads] /\ BoundTypes'
  <2>1. CASE Operate
    <3>1. at["request"] # "idle" /\ UNCHANGED <<request, published, bounds>>
      BY <2>1 DEF Operate, topic_vars
    <3> QED
      BY <1>0, <3>1, BoundsStay DEF RequestKnows
  <2>2. CASE ~Operate
    <3>1. requests' = requests + 1 /\ requests < MaxRequests
      BY <2>2 DEF Request, Switch
    <3>2. request' \in [kind : Requests, lead : Leads]
      <4>1. ASSUME NEW k \in Requests \ Switches, NEW l \in Leads, Request(k, l)
            PROVE  request' \in [kind : Requests, lead : Leads]
        BY <4>1 DEF Request
      <4>2. ASSUME NEW k \in Requests \cap Switches, Switch(k)
            PROVE  request' \in [kind : Requests, lead : Leads]
        BY <4>2 DEF Switch, Leads
      <4> QED
        BY <2>2, <4>1, <4>2
    <3>3. MaxRequests \in Nat /\ requests \in 0 .. MaxRequests
      BY <1>0, ConversationsAssumption DEF AllTypes, BoundTypes
    <3>4. requests' \in 0 .. MaxRequests
      BY <3>1, <3>3
    <3> QED
      BY <1>0, <1>1, <3>2, <3>4 DEF AllTypes, BoundTypes
  <2> QED
    BY <2>1, <2>2
<1>8. TopicTypes'
  BY <1>0, <1>1, <1>7 DEF AllTypes, TopicTypes
<1>9. RequestKnows'
  BY <1>0, <1>2, <1>3, <1>5, <1>7 DEF RequestKnows
<1> QED
  BY <1>1, <1>3, <1>4, <1>6, <1>7, <1>8, <1>9, RowsStay, InParts DEF AllTypes

-----------------------------------------------------------------------------
(* Commits. *)

\* What a turn leaves of the number: its decision, and the control with it.
LEMMA AnswerKeeps == ASSUME IInv, Answer PROVE IInv'
<1> DEFINE c == draft["turn"]
           w == said[turn]
           v == Decision(c, w)
<1>0. /\ MessageTypes /\ LeadTypes /\ NumberTypes /\ LockTypes /\ TopicTypes /\ Places /\ Exclusive
      /\ TurnKnows /\ IntakeKnows /\ RequestKnows /\ OptOutIsKept /\ EachMessageOnce
  BY InParts DEF AllTypes
<1>1. /\ at["turn"] = "commit" /\ turn \in Messages /\ w \in Words /\ NumberLock \in holds["turn"]
      /\ c \in Conversation /\ handled[turn] = 0
      /\ conversation # Nothing => c = conversation
      /\ w = "stop" => ControlLock \in holds["turn"]
  BY <1>0 DEF Answer, TurnKnows, Deciding
<1>2. /\ v.next \in Conversation /\ v.next.lead = c.lead /\ v.reply \in Texts \cup {"silence"}
      /\ c.refused \/ w = "stop" => v.next.refused
  BY <1>1, DecisionFits DEF Fits
<1>3. Verdict = v
  BY DEF Verdict
<1>4. /\ conversation' = v.next
      /\ control' = IF ControlLock \in holds["turn"] THEN Snapshot(v.next) ELSE control
      /\ reply' = [reply EXCEPT ![turn] = v.reply]
      /\ handled' = [handled EXCEPT ![turn] = @ + 1]
      /\ \E x \in {"refused", "qualified", "open", lead[c.lead]} :
           lead' = [lead EXCEPT ![c.lead] = x] /\ (x = "none" => lead[c.lead] # "none")
      /\ optedOut' = (optedOut \/ w = "stop") /\ counted' = 0 /\ Ends("turn")
      /\ UNCHANGED <<published, said, welcomed, takenOver, bounds>>
  <2>1. \E x \in {"refused", "qualified", "open", lead[c.lead]} :
          lead' = [lead EXCEPT ![c.lead] = x] /\ (x = "none" => lead[c.lead] # "none")
    <3> DEFINE was == lead[c.lead]
               x == CASE w = "stop" -> "refused"
                      [] w # "stop" /\ v.reply = "closing" -> "qualified"
                      [] OTHER -> IF was = "none" THEN "open" ELSE was
    <3>1. lead' = [lead EXCEPT ![c.lead] = x]
      BY <1>3 DEF Answer
    <3>2. x \in {"refused", "qualified", "open", was} /\ (x = "none" => was # "none")
      OBVIOUS
    <3> HIDE DEF x
    <3> QED
      BY <3>1, <3>2
  <2>2. /\ control' = IF ControlLock \in holds["turn"] THEN Snapshot(v.next) ELSE control
        /\ reply' = [reply EXCEPT ![turn] = v.reply]
        /\ handled' = [handled EXCEPT ![turn] = @ + 1]
    BY <1>3 DEF Answer, ControlLock
  <2>3. conversation' = v.next /\ optedOut' = (optedOut \/ w = "stop") /\ counted' = 0 /\ Ends("turn")
    BY <1>3 DEF Answer, Saves
  <2>4. UNCHANGED <<published, said, welcomed, takenOver, bounds>>
    BY DEF Answer
  <2> QED
    BY <2>1, <2>2, <2>3, <2>4
<1> HIDE DEF v
<1>once. handled' \in [Messages -> Nat] /\ handled'[turn] = 1
  <2>1. handled \in [Messages -> Nat] /\ turn \in Messages /\ handled[turn] = 0
    BY <1>0, <1>1 DEF MessageTypes
  <2>2. handled' = [handled EXCEPT ![turn] = handled[turn] + 1]
    BY <1>4
  <2>3. handled' = [handled EXCEPT ![turn] = 1]
    BY <2>1, <2>2
  <2> QED
    BY <2>1, <2>3
<1>5. MessageTypes'
  <2>1. reply' \in [Messages -> Texts \cup {"none", "silence", "ignored"}]
    BY <1>0, <1>2, <1>4 DEF MessageTypes
  <2>2. handled' \in [Messages -> Nat]
    BY <1>once
  <2>3. PhoneLimit \in Nat
    BY ConversationsAssumption
  <2>4. counted' \in 0 .. PhoneLimit
    BY <1>4, <2>3
  <2> QED
    BY <1>0, <1>4, <2>1, <2>2, <2>4 DEF MessageTypes
<1>6. EachMessageOnce'
  <2>0. handled'[turn] = 1
    BY <1>once
  <2>1. handled'[turn] = 1 /\ reply'[turn] \notin {"none", "ignored"}
    <3>1. reply'[turn] = v.reply
      BY <1>0, <1>1, <1>4 DEF MessageTypes
    <3>2. v.reply \notin {"none", "ignored"}
      BY <1>2 DEF Texts
    <3> QED
      BY <2>0, <3>1, <3>2
  <2>2. \A m \in Messages : m # turn => handled'[m] = handled[m] /\ reply'[m] = reply[m]
    BY <1>0, <1>4 DEF MessageTypes
  <2>3. \A m \in Messages : m = turn => handled'[m] <= 1 /\ (handled'[m] = 1 <=> reply'[m] \notin {"none", "ignored"})
    BY <2>1
  <2> QED
    BY <1>0, <2>2, <2>3 DEF EachMessageOnce
<1>7. v.next # Nothing /\ Snapshot(v.next) \in Controls /\ Snapshot(v.next) # Nothing
      /\ Snapshot(v.next).refused = v.next.refused
  <2>1. Snapshot(v.next) \in Controls /\ Snapshot(v.next).refused = v.next.refused
    BY <1>2 DEF Snapshot, Controls, Conversation
  <2> QED
    BY <1>2, <2>1, NothingAssumption
<1>8. LeadTypes' /\ lead'[c.lead] # "none"
  <2>1. PICK x \in {"refused", "qualified", "open", lead[c.lead]} :
          lead' = [lead EXCEPT ![c.lead] = x] /\ (x = "none" => lead[c.lead] # "none")
    BY <1>4
  <2>2. c.lead \in Leads
    BY <1>1 DEF Conversation
  <2>3. x \in {"none", "open", "qualified", "refused"} /\ x # "none"
    BY <1>0, <2>1, <2>2 DEF LeadTypes
  <2>4. lead' \in [Leads -> {"none", "open", "qualified", "refused"}] /\ lead'[c.lead] = x
    BY <1>0, <2>1, <2>2, <2>3 DEF LeadTypes
  <2>5. optedOut' \in BOOLEAN
    BY <1>0, <1>4 DEF LeadTypes
  <2> QED
    BY <1>0, <1>4, <2>3, <2>4, <2>5 DEF LeadTypes
<1>9. NumberTypes'
  BY <1>0, <1>2, <1>4, <1>7, <1>8 DEF NumberTypes
<1>10. /\ LockTypes' /\ Exclusive' /\ TopicTypes' /\ OthersStay("turn")
       /\ at'["turn"] = "idle" /\ form' = form /\ draft'["intake"] = draft["intake"] /\ request' = request
  BY <1>0, <1>4, EndsKeeps, TransactionsAre
<1>11. Places' /\ TurnKnows' /\ IntakeKnows'
  BY <1>0, <1>10, TransactionsAre DEF Places, TurnKnows, IntakeKnows, Deciding, OthersStay
<1>12. RequestKnows' /\ HandledInConversation'
  BY <1>0, <1>4, <1>7, <1>10, TransactionsAre DEF RequestKnows, HandledInConversation, OthersStay
<1>13. OptOutIsKept'
  <2>1. draft["intake"] = Nothing
    BY <1>0, <1>1, Alone, TransactionsAre DEF IntakeKnows, NumberLock
  <2>2. optedOut => c.refused /\ control # Nothing /\ control.refused
    BY <1>0, <1>1 DEF OptOutIsKept
  <2> QED
    BY <1>1, <1>2, <1>4, <1>7, <1>10, <2>1, <2>2 DEF OptOutIsKept
<1>14. BoundTypes'
  BY <1>4, BoundsStay
<1> QED
  BY <1>5, <1>6, <1>8, <1>9, <1>10, <1>11, <1>12, <1>13, <1>14, InParts DEF AllTypes

\* What a form leaves: its lead is open, and the number's conversation is the lead's.
LEMMA IntakeKeeps == ASSUME IInv, Intake PROVE IInv'
<1>0. /\ MessageTypes /\ LeadTypes /\ NumberTypes /\ LockTypes /\ TopicTypes /\ Places /\ Exclusive
      /\ TurnKnows /\ IntakeKnows /\ RequestKnows /\ OptOutIsKept /\ HandledInConversation /\ EachMessageOnce
  BY InParts DEF AllTypes
<1>1. /\ lead' = [lead EXCEPT ![form] = "open"]
      /\ welcomed' = IF optedOut THEN welcomed ELSE welcomed \cup {form}
      /\ conversation' = IF draft["intake"] = Nothing THEN conversation ELSE draft["intake"]
      /\ counted' = IF conversation' = Nothing THEN counted ELSE 0
      /\ Ends("intake") /\ form \in Forms /\ form \in Leads
      /\ UNCHANGED <<published, said, reply, handled, optedOut, control, takenOver, bounds>>
  BY <1>0 DEF Intake, IntakeKnows, Leads
<1>2. /\ LockTypes' /\ Exclusive' /\ TopicTypes' /\ OthersStay("intake") /\ at'["intake"] = "idle"
      /\ turn' = turn /\ draft'["turn"] = draft["turn"] /\ request' = request /\ draft'["intake"] = Nothing
  BY <1>0, <1>1, EndsKeeps, TransactionsAre
<1>3. MessageTypes' /\ EachMessageOnce'
  <2>1. PhoneLimit \in Nat /\ counted \in 0 .. PhoneLimit
    BY <1>0, ConversationsAssumption DEF MessageTypes
  <2>2. counted' = counted \/ counted' = 0
    BY <1>1
  <2>3. counted' \in 0 .. PhoneLimit
    BY <2>1, <2>2
  <2> QED
    BY <1>0, <1>1, <2>3 DEF MessageTypes, EachMessageOnce
<1>4. LeadTypes' /\ lead'[form] = "open" /\ \A l \in Leads : lead[l] # "none" => lead'[l] # "none"
  BY <1>0, <1>1 DEF LeadTypes
<1>5. draft["intake"] \in Conversation \cup {Nothing}
  BY <1>0 DEF TopicTypes
<1>6. NumberTypes'
  <2>1. CASE draft["intake"] = Nothing
    BY <1>0, <1>1, <1>4, <2>1 DEF NumberTypes, Conversation
  <2>2. CASE draft["intake"] # Nothing
    BY <1>0, <1>1, <1>4, <1>5, <2>2 DEF NumberTypes, IntakeKnows
  <2> QED
    BY <2>1, <2>2
<1>7. Places' /\ IntakeKnows'
  BY <1>0, <1>2, TransactionsAre DEF Places, IntakeKnows, OthersStay
<1>8. TurnKnows'
  <2>1. CASE draft["intake"] = Nothing
    BY <1>0, <1>1, <1>2, <2>1, TransactionsAre DEF TurnKnows, OthersStay
  <2>2. CASE draft["intake"] # Nothing
    <3>1. at["turn"] = "idle"
      BY <1>0, <2>2, Alone, TransactionsAre DEF IntakeKnows, TurnKnows, NumberLock
    <3>2. at'["turn"] = "idle"
      BY <1>2, <3>1, TransactionsAre DEF OthersStay
    <3> QED
      BY <3>2 DEF TurnKnows, Deciding
  <2> QED
    BY <2>1, <2>2
<1>9. RequestKnows' /\ OptOutIsKept' /\ HandledInConversation'
  BY <1>0, <1>1, <1>2, TransactionsAre DEF RequestKnows, OptOutIsKept, HandledInConversation, OthersStay
<1>10. BoundTypes'
  BY <1>1, BoundsStay
<1> QED
  BY <1>2, <1>3, <1>4, <1>6, <1>7, <1>8, <1>9, <1>10, InParts DEF AllTypes

\* A request changes neither whose the conversation is nor whether the number refused.
LEMMA OperatedType ==
  ASSUME NEW k \in Requests
  PROVE  /\ \A c \in Conversation : /\ Operated(k, c) \in Conversation
                                    /\ Operated(k, c).lead = c.lead /\ Operated(k, c).refused = c.refused
         /\ \A c \in Controls : /\ Operated(k, c) \in Controls /\ Operated(k, c).refused = c.refused
<1> DEFINE takeover(c) == CASE k \in {"takeover", "command"} -> TRUE
                            [] k = "release" -> FALSE
                            [] k = "stop" -> c.takeover
                            [] k \in Switches -> k = "hold"
           stage(c) == CASE k \in {"takeover", "command"} -> "human_takeover"
                         [] k = "release" /\ c.stage = "human_takeover" -> ""
                         [] k = "release" /\ c.stage # "human_takeover" -> c.stage
                         [] k \in {"stop"} \cup Switches -> c.stage
           stop(c) == k = "stop" \/ c.stop
<1>0. k \in {"takeover", "release", "stop", "command", "hold", "unhold"}
  BY ConversationsAssumption DEF Switches
<1>1. ASSUME NEW c \in Conversation
      PROVE  /\ Operated(k, c) \in Conversation
             /\ Operated(k, c).lead = c.lead /\ Operated(k, c).refused = c.refused
  <2>1. takeover(c) \in BOOLEAN /\ stage(c) \in AllStages /\ stop(c) \in BOOLEAN
    BY <1>0, StagesAreKnown DEF Conversation, Switches
  <2>2. Operated(k, c) = [lead |-> c.lead, spoken |-> c.spoken, stage |-> stage(c), retry |-> c.retry,
                          takeover |-> takeover(c), stop |-> stop(c), refused |-> c.refused]
    BY <1>0 DEF Operated, Conversation, Switches
  <2> HIDE DEF takeover, stage, stop
  <2> QED
    BY <2>1, <2>2 DEF Conversation
<1>2. ASSUME NEW c \in Controls
      PROVE  Operated(k, c) \in Controls /\ Operated(k, c).refused = c.refused
  <2>1. takeover(c) \in BOOLEAN /\ stage(c) \in AllStages /\ stop(c) \in BOOLEAN
    BY <1>0, StagesAreKnown DEF Controls, Switches
  <2>2. Operated(k, c) = [lead |-> c.lead, stage |-> stage(c), takeover |-> takeover(c),
                          stop |-> stop(c), refused |-> c.refused]
    BY <1>0 DEF Operated, Controls, Switches
  <2> HIDE DEF takeover, stage, stop
  <2> QED
    BY <2>1, <2>2 DEF Controls
<1> QED
  BY <1>1, <1>2

\* What an operator leaves: no turn has decided on the conversation that is changed.
LEMMA CommitKeeps == ASSUME IInv, Commit PROVE IInv'
<1>0. /\ MessageTypes /\ LeadTypes /\ NumberTypes /\ LockTypes /\ TopicTypes /\ Places /\ Exclusive
      /\ TurnKnows /\ IntakeKnows /\ RequestKnows /\ OptOutIsKept /\ HandledInConversation /\ EachMessageOnce
  BY InParts DEF AllTypes
<1>1. request.kind \in Requests
  BY <1>0 DEF Commit, RequestKnows
<1> DEFINE k == request.kind
           old == IF control = Nothing THEN NewControl ELSE control
           seen == ConversationLock \in holds["request"]
<1>2. /\ control' = IF k = "command" THEN control ELSE Operated(k, old)
      /\ conversation' = IF seen THEN Operated(k, conversation) ELSE conversation
      /\ Ends("request") /\ UNCHANGED <<published, message_vars, lead_vars, bounds>>
  BY DEF Commit, ConversationLock
<1>3. old \in Controls /\ (control # Nothing => old = control)
  BY <1>0, StagesAreKnown DEF NumberTypes, NewControl, Controls
<1>4. Operated(k, old) \in Controls /\ Operated(k, old).refused = old.refused /\ Operated(k, old) # Nothing
  BY <1>1, <1>3, OperatedType, NothingAssumption
<1>5. seen => conversation # Nothing /\ conversation \in Conversation
  BY <1>0 DEF RequestKnows, NumberTypes
<1>6. seen => /\ Operated(k, conversation) \in Conversation /\ Operated(k, conversation) # Nothing
              /\ Operated(k, conversation).lead = conversation.lead
              /\ Operated(k, conversation).refused = conversation.refused
  BY <1>1, <1>5, OperatedType, NothingAssumption
<1> HIDE DEF k, old
<1>7. UNCHANGED <<said, reply, handled, counted, optedOut, welcomed, lead>>
  BY <1>2 DEF message_vars, lead_vars
<1>8. /\ LockTypes' /\ Exclusive' /\ TopicTypes' /\ OthersStay("request")
      /\ at'["request"] = "idle" /\ holds'["request"] = {} /\ turn' = turn /\ form' = form
      /\ draft'["turn"] = draft["turn"] /\ draft'["intake"] = draft["intake"]
  BY <1>0, <1>2, EndsKeeps, TransactionsAre
<1>9. MessageTypes' /\ LeadTypes' /\ EachMessageOnce' /\ HandledInConversation'
  <2>1. MessageTypes' /\ LeadTypes' /\ EachMessageOnce'
    BY <1>0, <1>7 DEF MessageTypes, LeadTypes, EachMessageOnce
  <2>2. conversation' = Nothing => conversation = Nothing
    BY <1>2, <1>6
  <2> QED
    BY <1>0, <1>7, <2>1, <2>2 DEF HandledInConversation
<1>10. NumberTypes'
  <2>1. takenOver' \in BOOLEAN
    BY <1>0 DEF Commit, NumberTypes
  <2> QED
    BY <1>0, <1>2, <1>4, <1>5, <1>6, <1>7, <2>1 DEF NumberTypes
<1>11. Places' /\ IntakeKnows' /\ RequestKnows'
  <2>1. Places' /\ IntakeKnows'
    BY <1>0, <1>8, TransactionsAre DEF Places, IntakeKnows, OthersStay
  <2> QED
    BY <1>8, <2>1 DEF RequestKnows
<1>12. TurnKnows'
  <2>1. CASE seen
    <3>1. at["turn"] \notin Deciding
      BY <1>0, <1>5, <2>1, Alone, TransactionsAre DEF TurnKnows, ConversationLock
    <3>2. at["turn"] \notin {"contact", "lead", "activate"}
      BY <1>0, <1>5, <2>1 DEF TurnKnows
    <3> QED
      BY <1>0, <1>7, <1>8, <3>1, <3>2, TransactionsAre DEF TurnKnows, Deciding, OthersStay
  <2>2. CASE ~seen
    BY <1>0, <1>2, <1>7, <1>8, <2>2, TransactionsAre DEF TurnKnows, OthersStay
  <2> QED
    BY <2>1, <2>2
<1>13. OptOutIsKept'
  <2>1. control # Nothing /\ control.refused => control' # Nothing /\ control'.refused
    BY <1>2, <1>3, <1>4
  <2>2. conversation # Nothing /\ conversation.refused => conversation' # Nothing /\ conversation'.refused
    BY <1>2, <1>6
  <2> QED
    BY <1>0, <1>7, <1>8, <2>1, <2>2 DEF OptOutIsKept
<1>14. BoundTypes'
  BY <1>2, BoundsStay
<1> QED
  BY <1>8, <1>9, <1>10, <1>11, <1>12, <1>13, <1>14, InParts DEF AllTypes

-----------------------------------------------------------------------------
(* Takeovers. *)

\* The steps that touch neither the number's rows nor what a form is about to write.
Quiet ==
  /\ UNCHANGED <<control, conversation, takenOver>>
  /\ \/ draft'["intake"] = Nothing
     \/ draft'["intake"] = draft["intake"] /\ holds["intake"] \subseteq holds'["intake"]

LEMMA QuietKeeps == ASSUME TakeoverIsKept, Quiet PROVE TakeoverIsKept'
BY DEF TakeoverIsKept, Quiet

LEMMA GetsQuietly ==
  ASSUME IInv, NEW t \in Transactions, NEW L, NEW next, Gets(t, L, next),
         draft'["intake"] = draft["intake"], UNCHANGED number_vars
  PROVE  Quiet
<1>1. holds \in [Transactions -> SUBSET Locks]
  BY InParts DEF AllTypes, LockTypes
<1>2. holds["intake"] \subseteq holds'["intake"]
  BY <1>1, TransactionsAre DEF Gets
<1> QED
  BY <1>2 DEF Quiet, number_vars

LEMMA AbortsQuietly ==
  ASSUME IInv, NEW t \in Transactions, Ends(t), UNCHANGED number_vars
  PROVE  Quiet
<1>1. LockTypes /\ TopicTypes /\ Exclusive
  BY InParts DEF AllTypes
<1>2. /\ OthersStay(t)
      /\ t = "intake" => draft'["intake"] = Nothing
      /\ t # "intake" => draft'["intake"] = draft["intake"]
  BY <1>1, EndsKeeps
<1> QED
  BY <1>2, TransactionsAre DEF Quiet, OthersStay, number_vars

\* Every step but the commits, and the one in which a form drafts the conversation.
LEMMA OthersAreQuiet ==
  ASSUME IInv, Next, ~Answer, ~Activates, ~Intake, ~Commit
  PROVE  Quiet
<1>0. TopicTypes
  BY InParts DEF AllTypes
<1>1. CASE Publish \/ NewWindow \/ \E m \in Messages : Write(m)
  BY <1>1 DEF Publish, NewWindow, Write, Quiet, number_vars, lock_vars, topic_vars
<1>2. CASE TurnFails \/ Ignore \/ \E t \in Transactions : Victim(t)
  BY <1>2, AbortsQuietly, TransactionsAre DEF TurnFails, Ignore, Victim
<1>3. CASE Capture \/ Project \/ Notice \/ WriteLead \/ LockNumber \/ Operate
  BY <1>3, GetsQuietly, TransactionsAre DEF Capture, Project, Notice, WriteLead, LockNumber, Operate, topic_vars
<1>4. CASE \/ \E m \in Messages : Begin(m)
           \/ \E f \in Forms : Submit(f)
           \/ \E k \in Requests \ Switches, l \in Leads : Request(k, l)
           \/ \E k \in Requests \cap Switches : Switch(k)
  BY <1>4, GetsQuietly, TransactionsAre DEF Begin, Submit, Request, Switch
<1>5. CASE Find
  <2>1. CASE Ends("turn")
    BY <1>5, <2>1, AbortsQuietly, TransactionsAre DEF Find
  <2>2. CASE /\ Gets("turn", Wanted("turn"), "refer")
             /\ draft' = [draft EXCEPT !["turn"] = conversation]
    <3>1. draft'["intake"] = draft["intake"]
      BY <1>0, <2>2 DEF TopicTypes
    <3> QED
      BY <1>5, <2>2, <3>1, GetsQuietly, TransactionsAre DEF Find
  <2> QED
    BY <1>5, <2>1, <2>2 DEF Find
<1>6. CASE RateLimited
  BY <1>6, AbortsQuietly, GetsQuietly, TransactionsAre DEF RateLimited, topic_vars
<1>7. CASE Activate
  BY <1>0, <1>7 DEF Activate, Quiet, number_vars, TopicTypes
<1> QED
  BY <1>1, <1>2, <1>3, <1>4, <1>5, <1>6, <1>7 DEF Next, TurnStep, IntakeStep, RequestStep

\* The engine answers nobody who is taken over, and ends no takeover.
LEMMA DecisionKeepsTakeover ==
  ASSUME NEW c \in Conversation, NEW w \in Words, c.takeover
  PROVE  Decision(c, w).next.takeover
<1>1. CASE w = "stop"
  BY <1>1 DEF Decision, Conversation
<1>2. CASE w # "stop"
  BY <1>2 DEF Decision, Silenced
<1> QED
  BY <1>1, <1>2

\* A turn that commits under a takeover leaves it on the conversation and the control.
LEMMA AnswerKeepsTakeover == ASSUME IInv, TakeoverIsKept, Answer PROVE TakeoverIsKept'
<1>0. LockTypes /\ TopicTypes /\ Exclusive /\ TurnKnows /\ IntakeKnows
  BY InParts DEF AllTypes
<1> DEFINE n == Verdict.next
<1>1. /\ at["turn"] = "commit" /\ NumberLock \in holds["turn"] /\ said[turn] \in Words
      /\ draft["turn"] \in Conversation
      /\ conversation # Nothing => draft["turn"] = conversation
  BY <1>0 DEF Answer, TurnKnows, Deciding
<1>2. /\ conversation' = n /\ takenOver' = takenOver /\ Ends("turn")
      /\ control' = Snapshot(n) \/ control' = control
  BY DEF Answer, Saves
<1>3. n \in Conversation
  BY <1>1, DecisionFits DEF Verdict, Fits
<1>4. takenOver => n.takeover /\ control # Nothing /\ control.takeover
  BY <1>1, DecisionKeepsTakeover DEF TakeoverIsKept, Verdict
<1> HIDE DEF n
<1>5. n # Nothing /\ Snapshot(n) # Nothing /\ Snapshot(n).takeover = n.takeover
  <2>1. Snapshot(n) \in Controls /\ Snapshot(n).takeover = n.takeover
    BY <1>3 DEF Snapshot, Controls, Conversation
  <2> QED
    BY <1>3, <2>1, NothingAssumption
<1>6. draft'["intake"] = draft["intake"]
  BY <1>0, <1>2, EndsKeeps, TransactionsAre
<1>7. draft["intake"] = Nothing
  BY <1>0, <1>1, Alone, TransactionsAre DEF IntakeKnows, NumberLock
<1> QED
  BY <1>2, <1>4, <1>5, <1>6, <1>7 DEF TakeoverIsKept

\* A form drafts a conversation that the control has taken over.
LEMMA ActivatesKeepsTakeover == ASSUME IInv, TakeoverIsKept, Activates PROVE TakeoverIsKept'
<1>0. LockTypes /\ TopicTypes /\ NumberTypes /\ Exclusive
  BY InParts DEF AllTypes
<1>1. /\ Gets("intake", Wanted("intake"), "commit") /\ UNCHANGED <<control, conversation, takenOver>>
      /\ conversation # Nothing => ConversationLock \in Wanted("intake")
  BY DEF Activates, Wanted, ConversationLock, number_vars
<1>2. draft'["intake"] = IF conversation = Nothing THEN Inherits(form) ELSE Merged(conversation, form)
  BY <1>0 DEF Activates, TopicTypes
<1>3. Wanted("intake") \subseteq holds'["intake"]
  BY <1>0, <1>1, TransactionsAre DEF Gets, LockTypes
<1>4. ASSUME takenOver PROVE Merged(conversation, form).takeover
  <2>1. conversation \in Conversation /\ control # Nothing /\ control.takeover
    BY <1>0, <1>4 DEF TakeoverIsKept, NumberTypes
  <2> QED
    BY <2>1 DEF Merged, Conversation
<1> QED
  BY <1>1, <1>2, <1>3, <1>4 DEF TakeoverIsKept

LEMMA IntakeKeepsTakeover == ASSUME IInv, TakeoverIsKept, Intake PROVE TakeoverIsKept'
<1>1. LockTypes /\ TopicTypes /\ Exclusive
  BY InParts DEF AllTypes
<1>2. /\ conversation' = IF draft["intake"] = Nothing THEN conversation ELSE draft["intake"]
      /\ Ends("intake") /\ UNCHANGED <<control, takenOver>>
  BY DEF Intake
<1>3. draft'["intake"] = Nothing
  BY <1>1, <1>2, EndsKeeps, TransactionsAre
<1> QED
  BY <1>2, <1>3 DEF TakeoverIsKept

\* What requests but releases make of takeovers.
LEMMA OperatedTakeover ==
  ASSUME NEW k \in Requests, k \notin {"release", "unhold"}, NEW c \in Controls \cup Conversation
  PROVE  c.takeover \/ k \in {"takeover", "hold"} => Operated(k, c).takeover
<1>1. k \in {"takeover", "stop", "command", "hold"}
  BY ConversationsAssumption DEF Switches
<1>2. CASE c \in Controls
  BY <1>1, <1>2 DEF Operated, Controls, Switches
<1>3. CASE c \in Conversation
  BY <1>1, <1>3 DEF Operated, Conversation, Switches
<1> QED
  BY <1>2, <1>3

\* A takeover that reaches the conversation excludes a form that is about to write it.
LEMMA CommitKeepsTakeover == ASSUME IInv, TakeoverIsKept, Commit PROVE TakeoverIsKept'
<1>0. /\ NumberTypes /\ LockTypes /\ TopicTypes /\ Exclusive /\ RequestKnows
  BY InParts DEF AllTypes
<1> DEFINE k == request.kind
           old == IF control = Nothing THEN NewControl ELSE control
           seen == ConversationLock \in holds["request"]
<1>1. k \in Requests
  BY <1>0 DEF Commit, RequestKnows
<1>2. /\ control' = IF k = "command" THEN control ELSE Operated(k, old)
      /\ conversation' = IF seen THEN Operated(k, conversation) ELSE conversation
      /\ Ends("request")
      /\ takenOver' => /\ k \notin {"release", "unhold"}
                       /\ takenOver \/ (seen /\ k \in {"takeover", "hold"})
  BY DEF Commit, ConversationLock
<1>3. old \in Controls /\ (control # Nothing => old = control)
  BY <1>0, StagesAreKnown DEF NumberTypes, NewControl, Controls
<1>4. Operated(k, old) # Nothing
  BY <1>1, <1>3, OperatedType, NothingAssumption
<1>5. seen => /\ conversation # Nothing /\ conversation \in Conversation
              /\ Operated(k, conversation) # Nothing
  <2>1. seen => conversation # Nothing /\ conversation \in Conversation
    BY <1>0 DEF RequestKnows, NumberTypes
  <2> QED
    BY <1>1, <2>1, OperatedType, NothingAssumption
<1>6. draft'["intake"] = draft["intake"] /\ holds'["intake"] = holds["intake"]
  BY <1>0, <1>2, EndsKeeps, TransactionsAre DEF OthersStay
<1>7. seen => draft["intake"] = Nothing
  BY <1>0, <1>5, Alone, TransactionsAre DEF TakeoverIsKept, ConversationLock
<1> HIDE DEF k, old, seen
<1>8. ASSUME takenOver'
      PROVE  /\ conversation' # Nothing /\ conversation'.takeover
             /\ control' # Nothing /\ control'.takeover
             /\ draft["intake"] # Nothing => draft["intake"].takeover
  <2>1. k \in Requests /\ k \notin {"release", "unhold"} /\ (takenOver \/ (seen /\ k \in {"takeover", "hold"}))
    BY <1>1, <1>2, <1>8
  <2>2. old.takeover \/ k \in {"takeover", "hold"}
    BY <1>3, <2>1 DEF TakeoverIsKept
  <2>3. Operated(k, old).takeover
    BY <1>3, <2>1, <2>2, OperatedTakeover
  <2>4. control' # Nothing /\ control'.takeover
    BY <1>2, <1>4, <2>1, <2>3 DEF TakeoverIsKept
  <2>5. seen => Operated(k, conversation).takeover
    BY <1>5, <2>1, OperatedTakeover DEF TakeoverIsKept
  <2>6. conversation' # Nothing /\ conversation'.takeover
    BY <1>2, <1>5, <2>1, <2>5 DEF TakeoverIsKept
  <2>7. draft["intake"] # Nothing => draft["intake"].takeover
    BY <1>7, <2>1 DEF TakeoverIsKept
  <2> QED
    BY <2>4, <2>6, <2>7
<1>9. draft["intake"] # Nothing /\ conversation' # Nothing => ConversationLock \in holds["intake"]
  BY <1>2, <1>7 DEF TakeoverIsKept
<1> QED
  BY <1>6, <1>8, <1>9 DEF TakeoverIsKept

-----------------------------------------------------------------------------
(* The theorems. *)

LEMMA StutterKeeps == ASSUME IInv, UNCHANGED conversation_vars PROVE IInv'
<1>1. /\ UNCHANGED <<published, said, reply, handled, counted, lead_vars, number_vars>>
      /\ UNCHANGED <<lock_vars, topic_vars, bounds>>
  BY DEF conversation_vars, message_vars
<1>2. /\ LockTypes' /\ TopicTypes' /\ Places' /\ Exclusive'
  BY <1>1, InParts DEF AllTypes, LockTypes, TopicTypes, Places, Exclusive, lock_vars, topic_vars
<1>3. TurnKnows' /\ IntakeKnows'
  BY <1>1, InParts DEF TurnKnows, IntakeKnows, lock_vars, topic_vars, number_vars
<1>4. RequestKnows' /\ OptOutIsKept'
  BY <1>1, InParts DEF RequestKnows, OptOutIsKept, lock_vars, topic_vars, number_vars, lead_vars
<1> QED
  BY <1>1, <1>2, <1>3, <1>4, RowsStay, BoundsStay, InParts DEF AllTypes

LEMMA NextKeeps == ASSUME IInv, [Next]_conversation_vars PROVE IInv'
<1>1. CASE Publish \/ NewWindow \/ \E m \in Messages : Write(m)
  BY <1>1, CalmKeeps
<1>2. CASE TurnFails \/ \E t \in Transactions : Victim(t)
  BY <1>2, AbortsKeep
<1>3. CASE TurnStep \/ \E m \in Messages : Begin(m)
  BY <1>3, BeginKeeps, FindKeeps, RateLimitedKeeps, CaptureKeeps, ActivateKeeps, IgnoreKeeps, ProjectKeeps,
     AnswerKeeps DEF TurnStep
<1>4. CASE IntakeStep \/ \E f \in Forms : Submit(f)
  BY <1>4, IntakeWalks, ActivatesKeeps, IntakeKeeps DEF IntakeStep
<1>5. CASE \/ RequestStep
           \/ \E k \in Requests \ Switches, l \in Leads : Request(k, l)
           \/ \E k \in Requests \cap Switches : Switch(k)
  BY <1>5, RequestWalks, CommitKeeps DEF RequestStep
<1>6. CASE UNCHANGED conversation_vars
  BY <1>6, StutterKeeps
<1> QED
  BY <1>1, <1>2, <1>3, <1>4, <1>5, <1>6 DEF Next

\* The inductive invariant: what turn, form and request know of the rows they have.
THEOREM ConversationsInvariant == Spec => []IInv
<1>1. Init => IInv
  BY InitIsGood
<1>2. IInv /\ [Next]_conversation_vars => IInv'
  BY NextKeeps
<1> QED
  BY <1>1, <1>2, PTL DEF Spec

\* Every variable has its type, and a conversation is that of a lead there is.
THEOREM ConversationsTyped == Spec => []ConversationsTypeOK
<1>1. IInv => ConversationsTypeOK
  BY DEF IInv
<1> QED
  BY <1>1, ConversationsInvariant, PTL

\* A message takes effect once, however often workers process its event, and whatever
\* turns fail or are aborted between.
THEOREM OnceEach == Spec => []EachMessageOnce
<1>1. IInv => EachMessageOnce
  BY DEF IInv
<1> QED
  BY <1>1, ConversationsInvariant, PTL

\* Whose reply a step changes.
LEMMA RepliesChange ==
  ASSUME IInv, Next, reply' # reply
  PROVE  \/ \E m : reply' = [reply EXCEPT ![m] = "ignored"]
         \/ Answer
<1>1. Answer \/ RateLimited \/ Ignore
  BY DEF Next, TurnStep, IntakeStep, RequestStep, Publish, NewWindow, TurnFails, Write, Begin, Submit, Request,
     Switch, Victim, Find, Capture, Activate, Project, Notice, WriteLead, LockNumber, Activates, Intake,
     Operate, Commit, message_vars
<1> QED
  BY <1>1 DEF RateLimited, Ignore

\* No step answers in a conversation in which the bot is silenced.
LEMMA NoAnswerWhenSilenced ==
  ASSUME IInv, Next, NEW m \in Messages, conversation # Nothing, Silenced(conversation), reply'[m] # reply[m]
  PROVE  reply'[m] \notin Texts
<1>0. TurnKnows /\ reply \in [Messages -> Texts \cup {"none", "silence", "ignored"}]
  BY InParts DEF AllTypes, MessageTypes
<1>1. CASE \E n : reply' = [reply EXCEPT ![n] = "ignored"]
  <2>1. reply'[m] = "ignored"
    BY <1>0, <1>1
  <2> QED
    BY <2>1 DEF Texts
<1>2. CASE Answer
  <2>1. draft["turn"] = conversation /\ draft["turn"] \in Conversation /\ said[turn] \in Words
    BY <1>0, <1>2 DEF Answer, TurnKnows, Deciding
  <2>2. Verdict.reply = "silence"
    BY <2>1, DecisionFits DEF Verdict
  <2>3. reply'[m] = "silence"
    BY <1>0, <1>2, <2>2 DEF Answer
  <2> QED
    BY <2>3 DEF Texts
<1> QED
  BY <1>1, <1>2, RepliesChange

\* What a turn commits is silence in a conversation that was taken over, stopped or
\* refused by then: the row it read is the row it writes.
THEOREM SilenceIsKept == Spec => SilentWhenSilenced
<1>1. ASSUME IInv, [Next]_conversation_vars
      PROVE  [\A m \in Messages :
                conversation # Nothing /\ Silenced(conversation) /\ reply'[m] # reply[m]
                  => reply'[m] \notin Texts]_conversation_vars
  BY <1>1, NoAnswerWhenSilenced
<1> QED
  BY <1>1, ConversationsInvariant, PTL DEF Spec, SilentWhenSilenced

\* Nothing is sent to a number once it has opted out: the conversation that a form
\* writes and the control that an operator writes carry the opt-out on.
THEOREM OptOutsStand == Spec => OptedOutIsLeftAlone
<1>1. ASSUME IInv, [Next]_conversation_vars
      PROVE  [optedOut => /\ welcomed' = welcomed
                          /\ \A m \in Messages : reply'[m] # reply[m] => reply'[m] \notin Texts]_conversation_vars
  <2> SUFFICES ASSUME Next, optedOut
               PROVE  /\ welcomed' = welcomed
                      /\ \A m \in Messages : reply'[m] # reply[m] => reply'[m] \notin Texts
    BY <1>1
  <2>1. welcomed' = welcomed
    BY DEF Next, TurnStep, IntakeStep, RequestStep, Publish, NewWindow, TurnFails, Write, Begin, Submit, Request,
       Switch, Victim, Find, RateLimited, Ignore, Capture, Activate, Project, Notice, Answer, WriteLead,
       LockNumber, Activates, Intake, Operate, Commit, lead_vars
  <2>2. conversation # Nothing /\ Silenced(conversation)
    BY <1>1, InParts DEF OptOutIsKept, Silenced
  <2> QED
    BY <1>1, <2>1, <2>2, NoAnswerWhenSilenced
<1> QED
  BY <1>1, ConversationsInvariant, PTL DEF Spec, OptedOutIsLeftAlone

\* A takeover that an operator, or the internal interface, has put on the conversation
\* stands until it is released: neither the turn that was under way nor a form that
\* activates the conversation again ends it.
THEOREM TakeoversStand == Spec => []TakeoverHolds
<1>1. Init => TakeoverIsKept
  BY DEF Init, TakeoverIsKept
<1>2. IInv /\ TakeoverIsKept /\ [Next]_conversation_vars => TakeoverIsKept'
  <2> SUFFICES ASSUME IInv, TakeoverIsKept, [Next]_conversation_vars PROVE TakeoverIsKept'
    OBVIOUS
  <2>1. CASE UNCHANGED conversation_vars
    BY <2>1 DEF TakeoverIsKept, conversation_vars, number_vars, topic_vars, lock_vars
  <2>2. CASE Answer \/ Activates \/ Intake \/ Commit
    BY <2>2, AnswerKeepsTakeover, ActivatesKeepsTakeover, IntakeKeepsTakeover, CommitKeepsTakeover
  <2>3. CASE Next /\ ~(Answer \/ Activates \/ Intake \/ Commit)
    BY <2>3, OthersAreQuiet, QuietKeeps
  <2> QED
    BY <2>1, <2>2, <2>3
<1>3. TakeoverIsKept => TakeoverHolds
  BY DEF TakeoverIsKept, TakeoverHolds
<1> QED
  BY <1>1, <1>2, <1>3, ConversationsInvariant, PTL DEF Spec
=============================================================================
